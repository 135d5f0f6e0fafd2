CONSTANTS
  a = a
  b = b
  c = c
  d = d
  Jobs <- TwoJobs
  N = 2
  CounterSize = 2
  Faults = {"thread", "sqfull"}
  MaxStarts = 2
SPECIFICATION FairSpec
PROPERTIES JobsRun CallsReturn
INVARIANTS LifecycleInv QuietWhenGone
