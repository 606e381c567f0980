SPECIFICATION FileSpec
CONSTANTS
  CapacityArg = 0
  Policy = "DropNewest"
  Records = {r1, r2, r3}
  Producers = {p1, p2}
  Consumer = worker
  NoRecord = nullopt
  NoThread = nobody
  MaxBatchArg = 0
  ConcurrentStop = FALSE
  MaxFlushes = 2
  MaxFailures = 1
  Sinks = {s1}
  FailureKinds = {"fwrite", "fflush", "fclose"}
  MaxCrashes = 1
SYMMETRY Symmetry
INVARIANTS
  FileInOrder
  FlushReachesDisk
  AllAccountedFor
CHECK_DEADLOCK FALSE
