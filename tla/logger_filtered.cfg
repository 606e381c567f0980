\* A record below the level of the root logger.
SPECIFICATION Spec
CONSTANTS
  root = root  a = a  NoLogger = NoLogger  Nobody = Nobody
  Loggers = {root, a}
  parent <- MCParent
  Clients = {c1}
  s1 = s1  s2 = s2
  Sinks = {s1, s2}
  SinkLists <- MCSinkLists
  RootSinks <- MCRootSinks
  Levels = {2}
  CLevels = {2, 99}
  Fallback = fallback
  Sources = {ts1}
  NoSource = nullptr
  MaxRecords = 1  MaxChanges = 1  MaxFailures = 0
  MaxFlushes = 0
INVARIANT FilteredAreCounted
CHECK_DEADLOCK FALSE
