CONSTANTS
  j1 = j1
  j2 = j2
  j3 = j3
  Entries = 2
  Jobs <- TwoJobs
  DirectJobs = {j1}
  Awaits <- TightAwaits
  Faults = {"enter", "read", "alloc"}
  EfdMax = 1
  MaxStarts = 2
  MaxRuns = 1
SPECIFICATION Spec
INVARIANTS TypeOK WakeInv OneHome OnlyArmingLoses OnlyLateThrowDangles
CHECK_DEADLOCK FALSE
