\* Two jobs and a limit of one worker; nothing fails.
SPECIFICATION Spec
CONSTANTS
  j1 = j1
  j2 = j2
  j3 = j3
  Nobody = Nobody
  Jobs = {j1, j2}
  Total = 8
  Headroom = 1
  Initial = 2
  Growth = 2
  Sizes = {3}
  Concurrency = 1
  Faults = {}
  MaxRestarts = 0
SYMMETRY JobSymmetry
INVARIANTS
  WorkersWithinLimit
CHECK_DEADLOCK FALSE
