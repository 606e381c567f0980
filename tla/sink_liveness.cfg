SPECIFICATION FairSpec
CONSTANTS
  CapacityArg = 1
  Policy = "Block"
  Records = {r1, r2}
  Producers = {p1, p2}
  Consumer = worker
  NoRecord = nullopt
  NoThread = nobody
  MaxBatchArg = 1
  ConcurrentStop = FALSE
  MaxFlushes = 2
  MaxFailures = 0
PROPERTIES
  FlushReturns
  WriteReturns
  ShutdownCompletes
  AcceptedIsHanded
