------------------------------- MODULE Download -------------------------------
(***************************************************************************)
(* One command from the words of its user to the file it brings: the words *)
(* are read, the URL is checked hop by hop, a worker process downloads     *)
(* without and, when it has to, with the operator's cookies, and the       *)
(* supervisor's pump reports its end.  Meanwhile the login tool replaces   *)
(* the cookie file, and the worker may be killed.                          *)
(*                                                                         *)
(* yt-dlp, DNS and the sites are the environment: they answer as they like *)
(* within what Sources says.  Rows, queues and messages are the business   *)
(* of JobLifecycle and Delivery.                                           *)
(***************************************************************************)
EXTENDS Commands, FiniteSets

CONSTANTS
  Intents,      \* what users mean: Args of Commands
  Link,         \* the word in an intent that is the URL
  Urls,         \* Link and what redirects lead to
  Readable,     \* those parse_public_http_url accepts
  MaxRedirects, \* max_redirects
  Sources,      \* what a URL may lead to: [watch, entries]
  Mishaps,      \* what errors of a network, a proxy or a reader may say: sets of phrases
  Configured,   \* whether the configuration names a cookie file
  MaxLogins     \* bound on the runs of the login tool

Unknown == -1

ASSUME DownloadAssumption ==
  /\ Link \in Urls /\ Readable \subseteq Urls
  /\ MaxRedirects \in Nat /\ MaxLogins \in Nat
  /\ Configured \in BOOLEAN /\ Rejected \notin Intents /\ Mishaps \subseteq SUBSET STRING

\* An entry: to whom it opens, what the error says to the others (its URL included), its
\* formats, and of each the bitrate of its sound when that is MP3 already.
EntryType ==
  [opens : {"all", "members", "nobody"}, says : SUBSET STRING,
   formats : SUBSET [pictures : BOOLEAN, sound : BOOLEAN, mp4 : BOOLEAN, height : Int,
                     mp3 : STRING]]

ASSUME SourcesAssumption ==
  \A s \in Sources : /\ s.watch \in BOOLEAN /\ s.entries \in Seq(EntryType)
                     /\ s.watch => s.entries # <<>>

VARIABLES
  command,  \* what was meant, how it was written, how it was read, the answer
  check,    \* UrlSafetyService.validate: step, URL, redirects, what was looked up and asked
  source,   \* what the URL leads to
  worker,   \* the process: where it is, its cookies, entries left, files, the chosen one, rc
  attempts, \* the attempts so far: whether with cookies, and the error code that ended each
  pipe,     \* lines of the worker not yet read
  pump,     \* the pump: whether it saw a terminal line, whether it is done
  heard,    \* what the orchestrator was told
  file,     \* the cookie file: generation, whether its cookies are of a sign-in
  login     \* the login tool: step, open browser, temporary file, cookies, runs, saved files

vars == <<command, check, source, worker, attempts, pipe, pump, heard, file, login>>

working == <<source, worker, attempts, pipe, pump, heard>>

------------------------------------------------------------------------------
(* The command.                                                             *)

\* Only a Rejected command ends here without a word: normalize_text_update and
\* normalize_slash are called outside of any handler of exceptions.
IsDownload(args) == args.command \in {"ytdl", "ytmp3"}

\* What may follow the words of an action, as help.admin has it.
Following(f) ==
  {r \o o : r \in CASE Len(f.required) = 0 -> {<<>>}
                   [] Len(f.required) = 1 -> {<<a>> : a \in f.required[1]}
                   [] OTHER -> {<<a, b>> : a \in f.required[1], b \in f.required[2]},
            o \in {<<>>} \cup {<<c>> : c \in f.optional}}

\* What the help describes, and a word it does not.
Described(meant) ==
  \/ \E q \in Qualities : meant = Args("ytdl", <<Link, q>>)
  \/ \E b \in Bitrates : meant = Args("ytmp3", <<Link, b>>)
  \/ meant \in {Args("ytdl_status", <<Omitted, "keep">>), Args("ytdl_help", <<>>)}
  \/ \E id \in Ids : meant \in {Args("ytdl_status", <<id, "keep">>),
                               Args("ytdl_status", <<id, "renew">>),
                               Args("ytdl_cancel", <<id>>)}
  \/ \E f \in AdminForms : \E rest \in Following(f) :
        meant = Args("ytdl_admin", <<f.action>> \o rest)
Junk == "junk"

ASSUME IntentsAssumption ==
  /\ \A meant \in Intents : Described(meant)
  /\ Junk \notin Ids

\* The words of an action as help.admin has them, and Discord's options for it.
Typed(meant) ==
  LET head == CASE meant.args[1] \in {"status", "cancel"} -> <<meant.args[1]>>
                [] OTHER -> CHOOSE h \in UNION {f.heads : f \in
                              {g \in AdminForms : g.action = meant.args[1]}} : TRUE
  IN CASE meant.command = "ytdl_admin"  -> <<"ytdl_admin">> \o head \o Tail(meant.args)
       [] meant.command = "ytdl_status" ->
            <<"ytdl_status">>
              \o (IF meant.args[1] = Omitted THEN <<>> ELSE <<meant.args[1]>>)
              \o (IF meant.args[2] = "keep" THEN <<>> ELSE <<meant.args[2]>>)
       [] OTHER -> <<meant.command>> \o meant.args

Confirms(meant) ==
  meant.args[1] \in {"capacity_set", "setting_reset"} /\ Len(meant.args) = 3
Chosen(meant) ==
  LET a == meant.args
      empty == [command |-> meant.command, url |-> Omitted, preset |-> Omitted,
                job |-> Omitted, renew |-> FALSE, action |-> Omitted, value |-> <<>>,
                confirmation |-> Omitted]
  IN CASE IsDownload(meant) -> [empty EXCEPT !.url = a[1], !.preset = a[2]]
       [] meant.command = "ytdl_status" -> [empty EXCEPT !.job = a[1], !.renew = a[2] = "renew"]
       [] meant.command = "ytdl_cancel" -> [empty EXCEPT !.job = a[1]]
       [] meant.command = "ytdl_admin" ->
            IF Confirms(meant)
            THEN [empty EXCEPT !.action = a[1], !.value = <<a[2]>>, !.confirmation = a[3]]
            ELSE [empty EXCEPT !.action = a[1], !.value = Tail(a)]
       [] OTHER -> empty

\* "more" is a word too many, which a user's options have no room for.
Read(meant, platform, more) ==
  LET o == Chosen(meant) extra == IF more THEN <<Junk>> ELSE <<>> IN
  IF platform = "telegram" THEN ParseText(Typed(meant) \o extra)
  ELSE ParseSlash([o EXCEPT !.value = @ \o extra])

\* CommandService.handle: help, status, cancel and the administrator's actions are answered.
Receive(meant, platform, more) ==
  /\ command.meant = Rejected
  /\ more /\ platform = "discord" => meant.command = "ytdl_admin"
  /\ LET read == Read(meant, platform, more)
         answer == IF read = Rejected THEN "silence"
                   ELSE IF IsDownload(read) THEN "none" ELSE "answered"
     IN /\ command' = [meant |-> meant, platform |-> platform, more |-> more,
                       read |-> read, answer |-> answer]
        /\ check' = IF IsDownload(read)
                    THEN [check EXCEPT !.step = "first", !.url = read.args[1]] ELSE check
  /\ UNCHANGED <<working, file, login>>

------------------------------------------------------------------------------
(* The check of the URL, in validate and, from "hop" to "get", in preflight.*)

NoCheck == [step |-> "none", url |-> Link, redirects |-> 0, trail |-> <<>>]

Answer(answer) ==
  /\ command' = [command EXCEPT !.answer = answer]
  /\ UNCHANGED <<working, file, login>>

\* The name of a readable URL resolves to public addresses, and to nothing else.
LookUp(next) ==
  /\ check.url \in Readable
  /\ check' = [check EXCEPT !.step = next, !.trail = Append(@, <<"public", check.url>>)]

ResolveFirst ==
  /\ check.step = "first" /\ LookUp("hop")
  /\ UNCHANGED <<command, working, file, login>>
ResolveHop ==
  /\ check.step = "hop" /\ LookUp("ask")
  /\ UNCHANGED <<command, working, file, login>>

Asked(c) == [c EXCEPT !.trail = Append(@, <<"asked", c.url>>)]

\* HEAD failed with a ClientError.
FallBack ==
  /\ check.step = "ask"
  /\ check' = [Asked(check) EXCEPT !.step = "get"]
  /\ UNCHANGED <<command, working, file, login>>

\* A status that will do; for GET, any.
Allow ==
  /\ check.step \in {"ask", "get"}
  /\ check' = [Asked(check) EXCEPT !.step = "final"]
  /\ UNCHANGED <<command, working, file, login>>

\* A redirect too many is denied: after HEAD by a test, after GET by the end of the loop.
AfterRedirectTrusting == "ask"
AfterRedirect == "hop"
Redirect(u) ==
  /\ check.step \in {"ask", "get"} /\ check.redirects < MaxRedirects
  /\ check' = [Asked(check) EXCEPT !.step = AfterRedirect, !.url = u, !.redirects = @ + 1]
  /\ UNCHANGED <<command, working, file, login>>

\* Unreadable, an address that is not public, a bad status, a redirect too many or without
\* a location, a timeout: DomainError, or a PreflightResult that is not allowed.
Deny ==
  /\ check.step \in {"first", "hop", "ask", "get", "final"}
  /\ check' = NoCheck
  /\ Answer("refused")

\* resolve raises OSError, which only preflight expects.
RaiseUnresolved ==
  /\ check.step \in {"first", "final"} /\ check.url \in Readable
  /\ check' = NoCheck
  /\ Answer("silence")

Accept ==
  /\ check.step = "final" /\ LookUp("accepted")
  /\ Answer("accepted")

------------------------------------------------------------------------------
(* What the options of a job make of the formats of an entry: each is       *)
(* [pictures, sound, mp4, height, mp3], and every file is [ext, pictures,   *)
(* height, bitrate].                                                        *)

Mode   == command.read.command
Preset == command.read.args[2]

Ceiling(preset) ==
  CASE preset = "2160p" -> 2160 [] preset = "1440p" -> 1440 [] preset = "1080p" -> 1080
    [] preset = "720p"  -> 720  [] preset = "480p"  -> 480  [] preset = "360p"  -> 360
    [] OTHER            -> Unknown

\* [height<=?ceiling] also takes what says nothing of its height.
Within(f, preset) == Ceiling(preset) = Unknown \/ f.height <= Ceiling(preset)

\* The alternatives of the format string, in its order: whether pictures and sound are
\* merged, whether only the MP4 family will do, up to which preset.
Alternative(merged, mp4, preset) == [merged |-> merged, mp4 |-> mp4, preset |-> preset]
AlternativesUnbounded(preset) ==
  <<Alternative(TRUE, TRUE, preset), Alternative(FALSE, TRUE, preset),
    Alternative(TRUE, FALSE, "best"), Alternative(FALSE, FALSE, "best")>>
Alternatives(preset) ==
  <<Alternative(TRUE, TRUE, preset), Alternative(FALSE, TRUE, preset)>> \o
  IF preset = "best" THEN <<Alternative(FALSE, FALSE, preset)>>
  ELSE <<Alternative(TRUE, FALSE, preset), Alternative(FALSE, FALSE, preset)>>

Highest(fs) == {f \in fs : \A g \in fs : g.height <= f.height}

\* b takes what has both, or anything of a source that has only pictures or only sound.
Fitting(formats, alt) ==
  LET usable == {f \in formats : alt.mp4 => f.mp4}
      within == {f \in usable : Within(f, alt.preset)}
      seen   == {f \in within : f.pictures}
      whole  == IF \/ \A f \in formats : ~f.pictures
                   \/ \A f \in formats : ~f.sound
                THEN within ELSE {f \in seen : f.sound}
  IN IF ~alt.merged THEN {[ext |-> IF f.mp4 THEN "mp4" ELSE "other", pictures |-> f.pictures,
                           height |-> f.height, bitrate |-> Omitted] : f \in Highest(whole)}
     ELSE IF \A f \in usable : f.pictures THEN {}
     ELSE {[ext |-> "mp4", pictures |-> TRUE, height |-> f.height, bitrate |-> Omitted]
             : f \in Highest(seen)}

\* FFmpegExtractAudio copies sound that is MP3 already, and converts other sound to the
\* bitrate asked for.
Extracted(f) == [ext |-> "mp3", pictures |-> FALSE, height |-> Unknown,
                 bitrate |-> IF f.mp3 = Omitted THEN Preset ELSE f.mp3]

Results(formats) ==
  LET alts == Alternatives(Preset)
      good == {i \in DOMAIN alts : Fitting(formats, alts[i]) # {}}
  IN IF Mode = "ytmp3"
     THEN {Extracted(f) : f \in {g \in formats : g.sound}}
     ELSE UNION {Fitting(formats, alts[i]) : i \in {j \in good : \A k \in good : j <= k}}

\* noplaylist: the video alone of a link to a video in a playlist.
Entries == IF source.watch /\ Mode = "ytdl" THEN SubSeq(source.entries, 1, 1)
           ELSE source.entries

------------------------------------------------------------------------------
(* The worker.                                                              *)

NoJar == 0   \* no cookies, or none that could be read
NoWorker == [pc |-> "none", jar |-> NoJar, left |-> <<>>, files |-> {}, out |-> {}, rc |-> 0]

Emit(lines) == pipe' = pipe \o lines
Failing == /\ worker' = [worker EXCEPT !.pc = "exit", !.rc = 1]
           /\ Emit(<<"failed">>)

Spawn ==
  /\ command.answer = "accepted" /\ worker.pc = "none"
  /\ worker' = [worker EXCEPT !.pc = "download", !.left = Entries]
  /\ Emit(<<"phase", "phase">>)
  /\ check' = NoCheck
  /\ UNCHANGED <<command, source, attempts, pump, heard, file, login>>

Opens(e) == e.opens = "all" \/ (e.opens = "members" /\ worker.jar # NoJar)

Fetch ==
  /\ worker.pc = "download" /\ worker.left # <<>> /\ Opens(Head(worker.left))
  /\ \E f \in Results(Head(worker.left).formats) :
       worker' = [worker EXCEPT !.files = @ \cup {f}, !.left = Tail(@)]
  /\ UNCHANGED <<command, check, source, attempts, pipe, pump, heard, file, login>>

\* classify_ytdlp_error: the first phrase that is there, in this order, in the whole text
\* of the error, whoever wrote it.
SignIn == {"sign in", "login", "authentication", "private video"}
Classify(says) ==
  IF says \cap SignIn # {} THEN "AUTHENTICATION_REQUIRED"
  ELSE IF "drm" \in says THEN "DRM_UNSUPPORTED"
  ELSE IF "no format" \in says THEN "NO_MATCHING_FORMAT"
  ELSE IF says \cap {"unsupported", "unavailable"} # {} THEN "UNSUPPORTED_SOURCE"
  ELSE "DOWNLOAD_FAILED"

\* The codes an attempt may end with at its next entry; INTERNAL_ERROR: no DownloadError.
Errors(e) ==
  {"INTERNAL_ERROR"} \cup {Classify(says) : says \in Mishaps \cup {{}}}
    \cup (IF e.opens # "all" THEN {Classify(e.says)} ELSE {})
    \cup (IF Results(e.formats) = {} THEN {Classify({"no format"})} ELSE {})

NeedsSessionAnyway(code) == Configured /\ code # "INTERNAL_ERROR"
NeedsSession(code) == Configured /\ code = "AUTHENTICATION_REQUIRED"

\* YoutubeDL would write its jar back when it closes; cookiefile is taken from it before.
AfterCloseSaved(jar) == IF jar = NoJar THEN file ELSE [file EXCEPT !.gen = jar]
AfterClose(jar)      == file

AttemptEnds(code) ==
  /\ attempts' = Append(attempts, [cookies |-> worker.jar # NoJar, code |-> code])
  /\ file' = AfterClose(worker.jar)

AttemptFails ==
  /\ worker.pc = "download" /\ worker.left # <<>>
  /\ \E code \in Errors(Head(worker.left)) :
       /\ AttemptEnds(code)
       /\ IF worker.jar = NoJar /\ NeedsSession(code)
          THEN worker' = [worker EXCEPT !.pc = "validate"] /\ UNCHANGED pipe
          ELSE Failing
  /\ UNCHANGED <<command, check, source, pump, heard, login>>

\* validate_cookie_file, then YoutubeDL, each reading the file for itself.
Validate ==
  /\ worker.pc = "validate"
  /\ IF file.gen = NoJar THEN Failing
     ELSE worker' = [worker EXCEPT !.pc = "session"] /\ UNCHANGED pipe
  /\ UNCHANGED <<command, check, source, attempts, pump, heard, file, login>>

OpenSession ==
  /\ worker.pc = "session"
  /\ worker' = [worker EXCEPT !.pc = "download", !.jar = file.gen, !.left = Entries]
  /\ UNCHANGED <<command, check, source, attempts, pipe, pump, heard, file, login>>

\* The newest file, which may be any: yt-dlp may date its files by the site's clock.
Choose ==
  /\ worker.pc = "download" /\ worker.left = <<>>
  /\ AttemptEnds("none")
  /\ \/ worker.files = {} /\ Failing
     \/ \E f \in worker.files :
          /\ worker' = [worker EXCEPT !.pc = "probe", !.out = {f}]
          /\ Emit(<<"phase">>)
  /\ UNCHANGED <<command, check, source, pump, heard, login>>

\* probe_media takes every file of the MP4 family for video with sound.
Shown(f) == f.ext = "mp4" \/ f.pictures
ProbeFails ==
  /\ worker.pc = "probe"
  /\ \E f \in worker.out :
       \/ f.ext = "other"                   \* ffprobe is not there, or cannot read it
       \/ Mode = "ytdl" /\ ~Shown(f)        \* AUDIO_ONLY_SOURCE
  /\ Failing
  /\ UNCHANGED <<command, check, source, attempts, pump, heard, file, login>>

Offer ==
  /\ worker.pc = "probe"
  /\ \A f \in worker.out : Mode = "ytdl" => Shown(f)
  /\ worker' = [worker EXCEPT !.pc = "offered"]
  /\ Emit(<<"phase", "candidate">>)
  /\ UNCHANGED <<command, check, source, attempts, pump, heard, file, login>>

Succeed ==
  /\ worker.pc = "offered"
  /\ worker' = [worker EXCEPT !.pc = "exit"]
  /\ Emit(<<"succeeded">>)
  /\ UNCHANGED <<command, check, source, attempts, pump, heard, file, login>>

Exit ==
  /\ worker.pc = "exit"
  /\ worker' = [worker EXCEPT !.pc = "ended"]
  /\ UNCHANGED <<command, check, source, attempts, pipe, pump, heard, file, login>>

\* shutdown, or the system; the line being written may be cut.
Kill ==
  /\ worker.pc \notin {"none", "ended"}
  /\ worker' = [worker EXCEPT !.pc = "ended", !.rc = -9]
  /\ UNCHANGED pipe \/ Emit(<<"cut">>)
  /\ UNCHANGED <<command, check, source, attempts, pump, heard, file, login>>

------------------------------------------------------------------------------
(* The pump.                                                                *)

EndingsForgotten == {"succeeded"}
Endings == {"succeeded", "failed"}

Take ==
  /\ ~pump.done /\ pipe # <<>>
  /\ pipe' = Tail(pipe)
  /\ LET line == Head(pipe) IN
       /\ pump' = [pump EXCEPT !.terminal = @ \/ line \in Endings]
       /\ heard' = IF line \in {"phase", "cut"} THEN heard ELSE Append(heard, line)
  /\ UNCHANGED <<command, check, source, worker, attempts, file, login>>

\* End of file and exit status: a worker that said nothing of its end has failed.
Reap ==
  /\ ~pump.done /\ pipe = <<>> /\ worker.pc = "ended"
  /\ pump' = [pump EXCEPT !.done = TRUE]
  /\ heard' = IF worker.rc # 0 /\ ~pump.terminal THEN Append(heard, "failed") ELSE heard
  /\ UNCHANGED <<command, check, source, worker, attempts, pipe, file, login>>

------------------------------------------------------------------------------
(* The login tool.  Its finally clauses close the browser and remove the    *)
(* temporary file however a step ends, an interrupt of its waits included.  *)

Rest == [login EXCEPT !.pc = "idle", !.browser = FALSE, !.temporary = FALSE]
Tool(state) == login' = state /\ UNCHANGED <<command, check, working>>

\* Chrome, Edge and Brave are opened twice, Firefox once.
LogIn(native) ==
  /\ login.pc = "idle" /\ login.runs < MaxLogins
  /\ Tool([login EXCEPT !.pc = IF native THEN "confirm" ELSE "page", !.browser = TRUE,
                        !.runs = @ + 1])
  /\ UNCHANGED file

Confirm ==
  /\ login.pc = "confirm"
  /\ Tool([login EXCEPT !.pc = "reopen", !.browser = FALSE])
  /\ UNCHANGED file

Reopen ==
  /\ login.pc = "reopen"
  /\ Tool([login EXCEPT !.pc = "export", !.browser = TRUE])
  /\ UNCHANGED file

Export(signed) ==
  /\ login.pc \in {"export", "page"}
  /\ Tool([login EXCEPT !.pc = "check", !.browser = FALSE, !.signed = signed])
  /\ UNCHANGED file

WriteTemporary ==
  /\ login.pc = "check" /\ login.signed
  /\ Tool([login EXCEPT !.pc = "replace", !.temporary = TRUE])
  /\ UNCHANGED file

Replace ==
  /\ login.pc = "replace"
  /\ file' = [gen |-> login.saved + 2, signed |-> login.signed]
  /\ Tool([Rest EXCEPT !.saved = @ + 1])

\* No browser, no confirmation, no recognised cookie, no space left, Ctrl-C.
GiveUp ==
  /\ login.pc # "idle"
  /\ Tool(Rest)
  /\ UNCHANGED file

------------------------------------------------------------------------------

Init ==
  /\ command = [meant |-> Rejected, platform |-> "telegram", more |-> FALSE,
                read |-> Rejected, answer |-> "none"]
  /\ check = NoCheck
  /\ source \in Sources
  /\ worker = NoWorker /\ attempts = <<>> /\ pipe = <<>>
  /\ pump = [terminal |-> FALSE, done |-> FALSE] /\ heard = <<>>
  /\ file \in {[gen |-> 0, signed |-> FALSE], [gen |-> 1, signed |-> TRUE]}
  /\ login = [pc |-> "idle", browser |-> FALSE, temporary |-> FALSE, signed |-> FALSE,
              runs |-> 0, saved |-> 0]

CheckStep == \/ ResolveFirst \/ ResolveHop \/ FallBack \/ Allow
             \/ \E u \in Urls : Redirect(u)
             \/ Deny \/ RaiseUnresolved \/ Accept
WorkerStep == \/ Spawn \/ Fetch \/ AttemptFails \/ Validate \/ OpenSession \/ Choose
              \/ ProbeFails \/ Offer \/ Succeed \/ Exit \/ Kill
LoginStep == \/ \E native \in BOOLEAN : LogIn(native)
             \/ Confirm \/ Reopen \/ \E signed \in BOOLEAN : Export(signed)
             \/ WriteTemporary \/ Replace \/ GiveUp

Next == \/ \E meant \in Intents, platform \in PlatformIds, more \in BOOLEAN :
             Receive(meant, platform, more)
        \/ CheckStep \/ WorkerStep \/ Take \/ Reap \/ LoginStep

Spec == Init /\ [][Next]_vars

------------------------------------------------------------------------------
(* Properties.                                                              *)

\* Typed in Telegram or chosen in Discord, a command written as the help says is read as it
\* was meant; with a word too many it is refused, or on Discord read without that word or
\* as a request for the status: never as something else.
UnderstoodAsMeant ==
  command.meant # Rejected =>
    \/ ~command.more /\ command.read = command.meant
    \/ command.more /\ command.platform = "telegram" /\ command.read = Rejected
    \/ /\ command.more /\ command.platform # "telegram"
       /\ command.read \in {command.meant, Args("ytdl_admin", <<"status">>)}

\* Nothing is asked of a site whose name was not just found public, a job's URL was asked
\* and then found public once more, and it is MaxRedirects redirects away at most.
HopsAreChecked ==
  LET t == check.trail
      Public(i) == i \in DOMAIN t /\ t[i] = <<"public", t[i][2]>>
      Hops == {i \in DOMAIN t : t[i][1] = "asked" /\ ~(i - 1 \in DOMAIN t /\ t[i - 1] = t[i])}
  IN /\ \A i \in Hops : Public(i - 1) /\ t[i - 1][2] = t[i][2]
     /\ check.step = "accepted" =>
          /\ Len(t) > 1 /\ t[Len(t)] = <<"public", check.url>>
          /\ t[Len(t) - 1] = <<"asked", check.url>>
          /\ Cardinality(Hops) <= MaxRedirects + 1

\* The operator's session is used once per job at most, and only after an attempt without
\* it whose error reads as a demand for a sign-in, whoever made it.
SessionIsSpared ==
  worker.jar # NoJar =>
    /\ Configured
    /\ Len(attempts) \in 1..2
    /\ attempts[1] = [cookies |-> FALSE, code |-> "AUTHENTICATION_REQUIRED"]

\* The cookie file is, whole, what the operator last saved, and holds a sign-in; a run of
\* the login tool that has ended leaves neither a browser nor a temporary file.
CookieFileIsOperators ==
  /\ login.saved > 0 => file = [gen |-> login.saved + 1, signed |-> TRUE]
  /\ file.gen > 0 => file.signed
  /\ login.pc = "idle" => ~login.browser /\ ~login.temporary

\* The orchestrator is told of one end of a worker, however it ended, and of success only
\* after a candidate.
OneEnding ==
  LET ends == {i \in DOMAIN heard : heard[i] # "candidate"} IN
  /\ Cardinality(ends) <= 1
  /\ pump.done => Cardinality(ends) = 1
  /\ \A i \in ends : heard[i] = "succeeded" => i > 1 /\ heard[1] = "candidate"

\* The bitrates of what is MP3 already in the source.
Copied ==
  {g.mp3 : g \in {h \in UNION {source.entries[i].formats : i \in DOMAIN source.entries} :
                   h.sound /\ h.mp3 # Omitted}}

\* The file offered is what the user asked for: MP3, of another bitrate than asked for only
\* when the source has MP3 of that bitrate itself, or video (unless it is of the MP4
\* family, which nobody looks into) no higher than the quality, if it says.
FileIsAsAsked ==
  worker.pc = "offered" =>
    LET meant == command.meant IN
    \A f \in worker.out :
      IF meant.command = "ytmp3"
      THEN f.ext = "mp3" /\ f.bitrate \in {meant.args[2]} \cup Copied
      ELSE /\ f.pictures \/ f.ext = "mp4"
           /\ \/ Ceiling(meant.args[2]) = Unknown
              \/ f.height <= Ceiling(meant.args[2])
==============================================================================
