------------------------------- MODULE Commands -------------------------------
(***************************************************************************)
(* How a command is read.  Telegram's text goes through parse_text_command,*)
(* Discord's typed options through build_command_arguments and             *)
(* _parse_admin_action; both end in the same arguments.  A word is a       *)
(* string, and what it is good for (an id, a duration, a size) is a set it *)
(* belongs to.  Case, the leading slash and the bot's name are left out.   *)
(***************************************************************************)
EXTENDS Integers, Sequences

CONSTANTS
  Ids,        \* opaque ids, of jobs, artifacts and confirmations
  UserIds,
  Durations,  \* what parse_duration_seconds reads
  Sizes,      \* what parse_byte_size reads
  Keys        \* what _SETTING_KEY_RE matches

\* validate_opaque_id wants 22 characters at least.
ASSUME IdsAssumption == Ids \cap {"", "renew", "true", "false"} = {}

Qualities   == {"best", "2160p", "1440p", "1080p", "720p", "480p", "360p"}
Bitrates    == {"320k", "256k", "192k", "128k"}
PlatformIds == {"telegram", "discord"}
Modes       == {"allow_all", "whitelist"}
Omitted     == ""

Args(command, args) == [command |-> command, args |-> args]
Rejected == Args("rejected", <<>>)   \* the reader raises ValidationError

WordsOf(s) == {s[i] : i \in DOMAIN s}

------------------------------------------------------------------------------
(* The shared grammar, of the words after the command.                      *)

ParseMedia(command, parts, presets, default) ==
  IF Len(parts) = 1 THEN Args(command, <<parts[1], default>>)
  ELSE IF Len(parts) = 2 /\ parts[2] \in presets THEN Args(command, parts)
  ELSE Rejected

\* [job_id] [renew]: the last word on renew counts.
ParseStatus(parts) ==
  LET named == parts # <<>> /\ parts[1] \notin {"renew", "true", "false"}
      rest  == IF named THEN Tail(parts) ELSE parts
      yes   == {"renew", "renew=true"} \cup (IF named THEN {"true"} ELSE {})
      no    == {"renew=false"} \cup (IF named THEN {"false"} ELSE {})
      renew == rest # <<>> /\ rest[Len(rest)] \in yes
  IN IF \/ named /\ parts[1] \notin Ids
        \/ ~(WordsOf(rest) \subseteq yes \cup no)
        \/ renew /\ ~named
     THEN Rejected
     ELSE Args("ytdl_status", <<IF named THEN parts[1] ELSE Omitted,
                                IF renew THEN "renew" ELSE "keep">>)

ParseCancel(parts) ==
  IF Len(parts) = 1 /\ parts[1] \in Ids THEN Args("ytdl_cancel", parts) ELSE Rejected

ParseHelp(parts) == IF parts = <<>> THEN Args("ytdl_help", <<>>) ELSE Rejected

\* An administrator's action: its first words, what must follow and what may.
Form(action, heads, required, optional) ==
  [action |-> action, heads |-> heads, required |-> required, optional |-> optional]
AdminForms ==
  {Form("status", {<<"status">>}, <<>>, {}),
   Form("cancel", {<<"cancel">>}, <<Ids>>, {}),
   Form("artifact_delete", {<<"artifact", "delete">>}, <<Ids>>, {}),
   Form("retention_set", {<<"retention", "set">>}, <<Durations>>, {}),
   Form("link_expiry_set", {<<"link-expiry", "set">>, <<"link_expiry", "set">>},
        <<Durations>>, {}),
   Form("capacity_set", {<<"capacity", "set">>}, <<Sizes>>, Ids),
   Form("access_mode_set", {<<"access-mode", "set">>, <<"access_mode", "set">>},
        <<Modes>>, {}),
   Form("whitelist_list", {<<"whitelist", "list">>}, <<>>, PlatformIds),
   Form("whitelist_pending", {<<"whitelist", "pending">>}, <<>>, {}),
   Form("whitelist_add", {<<"whitelist", "add">>}, <<PlatformIds, UserIds>>, {}),
   Form("whitelist_remove", {<<"whitelist", "remove">>}, <<PlatformIds, UserIds>>, {}),
   Form("setting_reset", {<<"setting", "reset">>}, <<Keys>>, Ids)}

StartsWith(head, parts) ==
  Len(parts) >= Len(head) /\ SubSeq(parts, 1, Len(head)) = head
Fits(f, rest) ==
  LET n == Len(f.required) IN
  /\ Len(rest) = n \/ (Len(rest) = n + 1 /\ rest[n + 1] \in f.optional)
  /\ \A i \in 1..n : rest[i] \in f.required[i]

ParseAdmin(parts) ==
  LET After(head) == SubSeq(parts, Len(head) + 1, Len(parts))
      readings == {Args("ytdl_admin", <<f.action>> \o After(h)) :
                     f \in AdminForms, h \in UNION {g.heads : g \in AdminForms}}
      Meets(r) == \E f \in AdminForms : \E h \in f.heads :
                    /\ StartsWith(h, parts) /\ Fits(f, After(h))
                    /\ r = Args("ytdl_admin", <<f.action>> \o After(h))
  IN IF \E r \in readings : Meets(r) THEN CHOOSE r \in readings : Meets(r) ELSE Rejected

ParseText(words) ==
  LET command == Head(words) parts == Tail(words) IN
  CASE command = "ytdl"        -> ParseMedia("ytdl", parts, Qualities, "best")
    [] command = "ytmp3"       -> ParseMedia("ytmp3", parts, Bitrates, "320k")
    [] command = "ytdl_status" -> ParseStatus(parts)
    [] command = "ytdl_cancel" -> ParseCancel(parts)
    [] command = "ytdl_help"   -> ParseHelp(parts)
    [] command = "ytdl_admin"  -> ParseAdmin(parts)
    [] OTHER                   -> Rejected

------------------------------------------------------------------------------
(* Discord's options, as a record [command, url, preset, job, renew,        *)
(* action, value, confirmation] with Omitted for what was not filled in and *)
(* the words of value.                                                      *)

ConfirmationDropped(o) == <<>>
Confirmation(o) == IF o.confirmation = Omitted THEN <<>> ELSE <<o.confirmation>>

SlashWords(o) ==
  LET first(default) == IF o.value = <<>> THEN default ELSE o.value[1]
  IN CASE o.action = "retention_set"     -> <<"retention", "set", first("12h")>>
       [] o.action = "link_expiry_set"   -> <<"link_expiry", "set", first("1h")>>
       [] o.action = "capacity_set"      -> <<"capacity", "set", first("1GiB")>> \o Confirmation(o)
       [] o.action = "access_mode_set"   -> <<"access_mode", "set", first("allow_all")>>
       [] o.action = "whitelist_add"     -> <<"whitelist", "add">> \o o.value
       [] o.action = "whitelist_remove"  -> <<"whitelist", "remove">> \o o.value
       [] o.action = "whitelist_list"    -> <<"whitelist", "list">> \o o.value
       [] o.action = "whitelist_pending" -> <<"whitelist", "pending">>
       [] o.action = "cancel"            -> <<"cancel", first("")>>
       [] o.action = "artifact_delete"   -> <<"artifact", "delete", first("")>>
       [] o.action = "setting_reset"     ->
            <<"setting", "reset", first("retention_seconds")>> \o Confirmation(o)
       [] OTHER                          -> <<"status">>

\* What does not parse becomes a request for the status.
SlashAdmin(o) ==
  LET read == ParseAdmin(SlashWords(o)) IN
  IF read = Rejected THEN Args("ytdl_admin", <<"status">>) ELSE read

ParseSlash(o) ==
  LET preset(default) == IF o.preset = Omitted THEN default ELSE o.preset IN
  CASE o.command = "ytdl"  -> Args("ytdl", <<o.url, preset("best")>>)
    [] o.command = "ytmp3" -> Args("ytmp3", <<o.url, preset("320k")>>)
    [] o.command = "ytdl_status" ->
         IF o.job \notin Ids \cup {Omitted} \/ (o.renew /\ o.job = Omitted) THEN Rejected
         ELSE Args("ytdl_status", <<o.job, IF o.renew THEN "renew" ELSE "keep">>)
    [] o.command = "ytdl_cancel" ->
         IF o.job \in Ids THEN Args("ytdl_cancel", <<o.job>>) ELSE Rejected
    [] o.command = "ytdl_help"  -> Args("ytdl_help", <<>>)
    [] o.command = "ytdl_admin" -> SlashAdmin(o)
================================================================================
