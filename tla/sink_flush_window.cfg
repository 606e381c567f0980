SPECIFICATION Spec
CONSTANTS
  CapacityArg = 2
  Policy = "Block"
  Records = {r1, r2}
  Producers = {p1}
  Consumer = worker
  NoRecord = nullopt
  NoThread = nobody
  MaxBatchArg = 2
  ConcurrentStop = FALSE
  MaxFlushes = 1
  MaxFailures = 0
PROPERTY FlushDrainsQueue
