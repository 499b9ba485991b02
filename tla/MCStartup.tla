------------------------------- MODULE MCStartup -------------------------------
(* A small instance of Startup for TLC. *)
EXTENDS Startup, TLC

CONSTANTS i1, i2, j1, j2

MCStatements == <<2, 1>>

Text(n, unit) == [kind |-> "text", n |-> n, unit |-> unit]
EnvRef(bytes) == [NoRef EXCEPT !.scheme = "env", !.bytes = bytes]
FileRef(bytes) == [scheme |-> "file", bytes |-> bytes, exposed |-> FALSE, absolute |-> TRUE]
Telegram == [enabled |-> TRUE, token |-> EnvRef(46), limit |-> Number(47)]
Discord  == [enabled |-> TRUE, token |-> FileRef(72), limit |-> Text(10, "MiB")]
Admin(p) == [platform |-> p, id |-> "1"]
NoKeys   == [k \in {} |-> 0]

\* config.example.toml, with both platforms.
Both ==
  [unknown |-> {}, file |-> <<"etc", "bot", "config.toml">>,
   app |-> [worker_concurrency |-> Number(2)], locale |-> "zh-TW",
   platforms |-> [telegram |-> Telegram, discord |-> Discord],
   storage |-> [capacity_bytes |-> Text(1, "GiB"), reservation_growth_bytes |-> Number(0)],
   root |-> <<"srv", "artifacts">>, database |-> <<"srv", "state", "bot.db">>,
   artifacts |-> [retention_seconds |-> Text(12, "h"), link_expiry_seconds |-> Number(3600)],
   url |-> [scheme |-> "https", host |-> TRUE, userinfo |-> FALSE, query |-> FALSE],
   signing |-> EnvRef(32), http |-> NoKeys, network |-> NoKeys, proxy |-> NoRef,
   media |-> NoKeys, cookie |-> NoRef, qualities |-> {"best"}, bitrates |-> {"320k"},
   mode |-> "whitelist", administrators |-> {Admin("telegram"), Admin("discord")},
   whitelist |-> {}, logging |-> NoKeys, format |-> "json"]

\* Files with one mistake each.
Mistaken ==
  {[Both EXCEPT !.unknown = {"storage"}], [Both EXCEPT !.app = [worker_concurrency |-> Number(17)]],
   [Both EXCEPT !.locale = "en"], [Both EXCEPT !.platforms.telegram.token = NoRef],
   [Both EXCEPT !.platforms.discord.token.exposed = TRUE],
   [Both EXCEPT !.platforms = NoKeys], [Both EXCEPT !.storage = NoKeys],
   [Both EXCEPT !.storage.capacity_bytes = Text(99, "MiB")],
   [Both EXCEPT !.storage.capacity_bytes = Text(11, "TiB")],
   [Both EXCEPT !.database = <<"srv", "artifacts", "bot.db">>],
   [Both EXCEPT !.root = <<"etc", "bot", "artifacts">>],
   [Both EXCEPT !.artifacts.retention_seconds = Text(59, "s")],
   [Both EXCEPT !.url.scheme = "http"], [Both EXCEPT !.signing = EnvRef(31)],
   [Both EXCEPT !.http = [bind_port |-> [kind |-> "other"]]],
   [Both EXCEPT !.network = [max_redirects |-> Number(21)]],
   [Both EXCEPT !.cookie = [FileRef(9) EXCEPT !.absolute = FALSE]],
   [Both EXCEPT !.qualities = {"8k"}],
   [Both EXCEPT !.platforms.discord.enabled = FALSE],
   [Both EXCEPT !.logging = [recommended_retention_days |-> Number(0)]]}

MCConfigs == {Both} \cup Mistaken
================================================================================
