CONSTANTS
  Jobs = {j1, j2, j3}
  N = 2
  CounterSize = 4
  Faults = {"sqfull"}
  MaxStarts = 1
SPECIFICATION CFairSpec
INVARIANTS ChecksHold LocalsOutliveJobs
PROPERTIES TestsEnd
