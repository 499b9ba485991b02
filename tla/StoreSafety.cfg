\* Three deleters and two requests want one artifact; every failure, one crash.
SPECIFICATION FairSpec
CONSTANTS
  a1 = a1
  cleanup = cleanup
  launch = launch
  admin = admin
  r1 = r1
  r2 = r2
  Artifacts = {a1}
  Cleaners = {cleanup}
  Evictors = {launch}
  Admins = {admin}
  Requests = {r1, r2}
  Nobody = Nobody
  MaxStreams = 1
  Faults = {"insert", "unlink", "client"}
  MaxRestarts = 1
INVARIANTS
  TypeOK
  RowMatchesFile
  TakenUntilReturned
PROPERTIES
  EvictedLeasesEnd
  DeletesOnce
  WaitingStreamsStart
