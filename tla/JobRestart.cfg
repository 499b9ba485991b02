\* An active job after a crash.
SPECIFICATION FairSpec
CONSTANTS
  j1 = j1
  j2 = j2
  u1 = u1
  u2 = u2
  a1 = a1
  Jobs = {j1}
  NoJob = NoJob
  Users = {}
  Admins = {}
  Faults = {}
  MaxRestarts = 1
PROPERTIES
  RestartEndsActiveWork
CHECK_DEADLOCK FALSE
