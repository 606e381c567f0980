SPECIFICATION Spec
CONSTANTS
  CapacityArg = 2
  Policy = "Block"
  Records = {r1, r2, r3}
  Producers = {p1, p2}
  Consumer = worker
  NoRecord = nullopt
  NoThread = nobody
  MaxBatchArg = 1
  ConcurrentStop = TRUE
  MaxFlushes = 2
  MaxFailures = 1
SYMMETRY Symmetry
INVARIANTS
  TypeOK
  NoLostWakeups
  FlushNotIgnored
  FifoDelivery
  NothingStranded
  FinalAccounting
PROPERTIES
  FlushCoversHanded
  SecondFlushDelivers
