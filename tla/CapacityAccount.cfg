\* Three jobs; the room is enough for two small artifacts or one large one.
SPECIFICATION FairSpec
CONSTANTS
  j1 = j1
  j2 = j2
  j3 = j3
  Nobody = Nobody
  Jobs = {j1, j2, j3}
  Total = 5
  Headroom = 1
  Initial = 2
  Growth = 2
  Sizes = {2, 3}
  Concurrency = 2
  Faults = {"disk", "database", "launch", "worker"}
  MaxRestarts = 1
INVARIANTS
  TypeOK
  FilesArePaidFor
  PromisedSpaceExists
PROPERTIES
  CandidatesAreHandled
CHECK_DEADLOCK FALSE
