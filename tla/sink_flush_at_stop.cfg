SPECIFICATION FairSpec
CONSTANTS
  CapacityArg = 1
  Policy = "Block"
  Records = {r1}
  Producers = {p1}
  Consumer = worker
  NoRecord = nullopt
  NoThread = nobody
  MaxBatchArg = 1
  ConcurrentStop = TRUE
  MaxFlushes = 1
  MaxFailures = 0
PROPERTY FlushReturns
