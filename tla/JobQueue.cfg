\* Two jobs share the dispatcher.
SPECIFICATION FairSpec
CONSTANTS
  j1 = j1
  j2 = j2
  u1 = u1
  u2 = u2
  a1 = a1
  Jobs = {j1, j2}
  NoJob = NoJob
  Users = {}
  Admins = {}
  Faults = {"ack", "worker"}
  MaxRestarts = 0
PROPERTIES
  EverySubmittedJobSettles
CHECK_DEADLOCK FALSE
