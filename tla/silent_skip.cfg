CONSTANTS
  j1 = j1
  j2 = j2
  j3 = j3
  Entries = 2
  Jobs <- ThreeJobs
  DirectJobs = {}
  Awaits <- SkipAwaits
  Faults = {}
  EfdMax = 2
  MaxStarts = 1
  MaxRuns = 1
SPECIFICATION Spec
INVARIANT NoSilentSkip
CHECK_DEADLOCK FALSE
