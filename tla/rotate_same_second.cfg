SPECIFICATION Spec
CONSTANTS
  Sinks = {s1}
  Sizes = {2}
  FailureKinds = {}
  MaxFailures = 0
  MaxRecords = 5
  MaxCrashes = 0
  MaxBytes = 3
  MaxRotatedFiles = 1
  MaxSeq = 3
  MaxClock = 1
PROPERTY PruneKeepsNewest
