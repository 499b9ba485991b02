\* Both platforms in one process; neither fails.
SPECIFICATION Spec
CONSTANTS
  Deployments <- AllDeployments
  MayFail = FALSE
  AdapterLimit = 2
  Limits = {0, 3}
  Files <- SmallAndLarge
  MaxTitle = 180
  MaxEncoded = 500
  Readings <- TwoReadings
  Ranges <- WholeFile
  Interval = 2
  Retention = 2
  LinkLifetime = 3
  MaxTTL = 3
  MaxTime = 2
  MaxSequence = 2
  MaxLines = 0
INVARIANTS
  EveryPlatformIsServed
CHECK_DEADLOCK FALSE
