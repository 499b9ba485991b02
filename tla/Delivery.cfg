\* One platform at a time; uploads and links, three lines of progress, every range.
SPECIFICATION Spec
CONSTANTS
  Deployments <- SingleDeployments
  MayFail = TRUE
  AdapterLimit = 2
  Limits = {0, 3}
  Files <- SmallAndLarge
  MaxTitle = 180
  MaxEncoded = 500
  Readings <- TwoReadings
  Ranges <- AllRanges
  Interval = 2
  Retention = 2
  LinkLifetime = 3
  MaxTTL = 1
  MaxTime = 2
  MaxSequence = 2
  MaxLines = 2
INVARIANTS
  CompletedWasDelivered
  OneOutcome
  ServedAsAsked
PROPERTIES
  EditsGoForward
  ShortNamesAreServed
CHECK_DEADLOCK FALSE
