\* Two starts of either release, two jobs, any failure, one crash.
SPECIFICATION FairSpec
CONSTANTS
  i1 = i1
  i2 = i2
  j1 = j1
  j2 = j2
  Instances = {i1, i2}
  Nobody = Nobody
  Jobs = {j1, j2}
  NoJob = NoJob
  Configs <- MCConfigs
  Statements <- MCStatements
  Releases = {1, 2}
  MayFail = TRUE
  MaxStarts = 2
  MaxCrashes = 1
INVARIANTS
  DatabaseIsLocked
  ServedSchemaIsWhole
  LaunchedOnce
  KilledWorkersAreReported
PROPERTIES
  StopEnds
CHECK_DEADLOCK FALSE
