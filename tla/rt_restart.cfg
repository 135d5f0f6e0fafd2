CONSTANTS
  a = a
  b = b
  c = c
  d = d
  Jobs <- FourJobs
  N = 2
  CounterSize = 3
  Faults = {"sqfull", "alloc"}
  MaxStarts = 2
SYMMETRY JobSymmetry
SPECIFICATION Spec
INVARIANTS TypeOK OneWorker RoundRobin DispatcherInside QuietWhenStopped OneDriver
PROPERTIES EventLoops
