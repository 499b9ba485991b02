\* Three calls of an administrator and a user; a failure anywhere, one crash.
SPECIFICATION Spec
CONSTANTS
  Calls = {c1, c2, c3}
  NoCall = NoCall
  Admins = {a1}
  Users = {u1}
  InitialMode = "allow_all"
  Assignments <- ModeChanges
  Capacities = {small, large}
  Legal = {small, large}
  ConfirmTTL = 0
  DenialTTL = 0
  MaxTime = 1
  MayFail = TRUE
  MaxRestarts = 1
INVARIANTS
  TypeOK
  AppliedOnce
  CapacityWasConfirmed
  AdmittedWasAllowed
PROPERTIES
  OnlyConfirmedChanges
SYMMETRY CallSymmetry
CHECK_DEADLOCK FALSE
