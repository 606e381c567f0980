SPECIFICATION Spec
CONSTANTS
  CapacityArg = 2
  Policy = "DropOldest"
  Records = {r1, r2, r3}
  Producers = {p1, p2}
  Consumer = worker
  NoRecord = nullopt
  NoThread = nobody
  MaxBatchArg = 2
  ConcurrentStop = TRUE
  MaxFlushes = 1
  MaxFailures = 1
SYMMETRY Symmetry
INVARIANTS
  RingConsistent
  FinalAccounting
PROPERTY ImplementsFifo
