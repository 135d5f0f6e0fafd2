CONSTANTS
  j1 = j1
  j2 = j2
  j3 = j3
  Entries = 4
  Jobs <- OneJob
  DirectJobs = {}
  Awaits <- PlainAwaits
  Faults = {"alloc"}
  EfdMax = 2
  MaxStarts = 1
  MaxRuns = 1
SPECIFICATION Spec
INVARIANT NeverResumesFreed
CHECK_DEADLOCK FALSE
