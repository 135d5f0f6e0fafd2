CONSTANTS
  j1 = j1
  j2 = j2
  j3 = j3
  Entries = 2
  Jobs <- TwoJobs
  DirectJobs = {}
  Awaits <- TightAwaits
  Faults = {}
  EfdMax = 2
  MaxStarts = 2
  MaxRuns = 1
SPECIFICATION Spec
INVARIANT StartedOnce
CHECK_DEADLOCK FALSE
