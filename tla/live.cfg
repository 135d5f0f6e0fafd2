CONSTANTS
  j1 = j1
  j2 = j2
  j3 = j3
  Entries = 4
  Jobs <- TwoJobs
  DirectJobs = {j1}
  Awaits <- LiveAwaits
  Faults = {"enter", "read", "alloc"}
  EfdMax = 1
  MaxStarts = 1
  MaxRuns = 1
SPECIFICATION FairSpec
PROPERTIES StopEndsRun JobsComplete ShutdownReturns
