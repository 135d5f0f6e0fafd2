CONSTANTS
  j1 = j1
  j2 = j2
  j3 = j3
  Entries = 4
  Jobs <- TwoJobs
  DirectJobs = {}
  Awaits <- LightAwaits
  Faults = {"enter", "read", "alloc"}
  EfdMax = 3
  MaxStarts = 1
  MaxRuns = 2
SPECIFICATION Spec
INVARIANTS NoLostWakeup QuiescentWhenDestroyed
PROPERTIES IsEventLoop
