\* One command, one redirect, eight sources, two runs of the login tool.
SPECIFICATION Spec
CONSTANTS
  Ids <- AnId
  UserIds = {"42"}
  Durations = {"12h", "1h"}
  Sizes = {"5GiB", "1GiB"}
  Keys = {"retention_seconds"}
  Intents <- AllIntents
  Link = "url"
  Urls = {"url", "moved", "unreadable"}
  Readable = {"url", "moved"}
  MaxRedirects = 1
  Sources <- SomeSources
  Mishaps <- ProxyRefuses
  Configured = TRUE
  MaxLogins = 2
INVARIANTS
  UnderstoodAsMeant
  HopsAreChecked
  SessionIsSpared
  CookieFileIsOperators
  OneEnding
  FileIsAsAsked
CHECK_DEADLOCK FALSE
