\* Two callers on a parent and a child that are reconfigured meanwhile.
SPECIFICATION Spec
CONSTANTS
  root = root  a = a  NoLogger = NoLogger  Nobody = Nobody
  Loggers = {root, a}
  parent <- MCParent
  Clients = {c1, c2}
  s1 = s1  s2 = s2
  Sinks = {s1, s2}
  SinkLists <- MCSinkLists
  RootSinks <- MCRootSinks
  Levels = {2}
  CLevels = {2, 99}
  Fallback = fallback
  Sources = {ts1}
  NoSource = nullptr
  MaxRecords = 2  MaxChanges = 1  MaxFailures = 1
  MaxFlushes = 1
SYMMETRY Symmetry
INVARIANTS
  NobodyStuck
  EverySinkTried
  FailuresCounted
  SourceStaysAlive
PROPERTIES
  SnapshotIsEffective
  FlushReachesSinks
CHECK_DEADLOCK FALSE
