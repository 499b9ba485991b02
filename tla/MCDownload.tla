------------------------------ MODULE MCDownload ------------------------------
(***************************************************************************)
(* An instance of Download for TLC.                                        *)
(***************************************************************************)
EXTENDS Download

AnId == {"id"}

Admin(args) == Args("ytdl_admin", args)
Reads ==
  {Args("ytdl", <<Link, "best">>), Args("ytdl", <<Link, "720p">>),
   Args("ytmp3", <<Link, "192k">>)}
Others ==
  {Args("ytdl_status", <<Omitted, "keep">>), Args("ytdl_status", <<"id", "keep">>),
   Args("ytdl_status", <<"id", "renew">>), Args("ytdl_cancel", <<"id">>),
   Args("ytdl_help", <<>>), Admin(<<"status">>), Admin(<<"cancel", "id">>),
   Admin(<<"artifact_delete", "id">>), Admin(<<"retention_set", "12h">>),
   Admin(<<"capacity_set", "5GiB">>), Admin(<<"capacity_set", "5GiB", "id">>),
   Admin(<<"access_mode_set", "whitelist">>), Admin(<<"whitelist_list">>),
   Admin(<<"whitelist_list", "discord">>), Admin(<<"whitelist_pending">>),
   Admin(<<"whitelist_add", "telegram", "42">>),
   Admin(<<"whitelist_remove", "telegram", "42">>),
   Admin(<<"setting_reset", "retention_seconds">>),
   Admin(<<"setting_reset", "retention_seconds", "id">>)}
AllIntents == Reads \cup Others

Format(pictures, sound, mp4, height) ==
  [pictures |-> pictures, sound |-> sound, mp4 |-> mp4, height |-> height, mp3 |-> Omitted]
Adaptive  == {Format(TRUE, FALSE, TRUE, 1080), Format(TRUE, FALSE, TRUE, 480),
              Format(FALSE, TRUE, TRUE, Unknown)}
Webm      == {Format(TRUE, TRUE, FALSE, 1080), Format(TRUE, TRUE, FALSE, Unknown)}
HighOnly  == {Format(TRUE, TRUE, FALSE, 1080)}
SoundOnly == {Format(FALSE, TRUE, FALSE, Unknown),
              [Format(FALSE, TRUE, FALSE, Unknown) EXCEPT !.mp3 = "128k"]}

Entry(opens, says, formats) == [opens |-> opens, says |-> says, formats |-> formats]
Open(formats) == Entry("all", {}, formats)
Members       == Entry("members", {"sign in"}, Adaptive)
Private       == Entry("nobody", {"private video", "unavailable"}, Adaptive)
Gone          == Entry("nobody", {"unavailable"}, Adaptive)
LoginPage     == Entry("nobody", {"unsupported", "login"}, {})

\* 407 Proxy Authentication Required.
ProxyRefuses == {{"authentication"}}

Source(watch, entries) == [watch |-> watch, entries |-> entries]
SomeSources ==
  {Source(FALSE, <<>>), Source(FALSE, <<Open(Webm)>>), Source(FALSE, <<Open(HighOnly)>>),
   Source(FALSE, <<Open(SoundOnly)>>), Source(TRUE, <<Open(Adaptive), Gone>>),
   Source(FALSE, <<Open(Webm), Members>>), Source(FALSE, <<Private>>),
   Source(FALSE, <<LoginPage>>)}
==============================================================================
