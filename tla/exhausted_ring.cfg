CONSTANTS
  j1 = j1
  j2 = j2
  j3 = j3
  Entries = 1
  Jobs <- OneJob
  DirectJobs = {j1}
  Awaits <- PlainAwaits
  Faults = {}
  EfdMax = 2
  MaxStarts = 1
  MaxRuns = 1
SPECIFICATION FairSpec
PROPERTY ShutdownReturns
CHECK_DEADLOCK FALSE
