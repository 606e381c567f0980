SPECIFICATION Spec
CONSTANTS
  Sinks = {s1}
  Sizes = {1, 2}
  FailureKinds = {"fopen", "fseek", "fwrite", "fflush", "fclose", "rename", "list", "remove"}
  MaxFailures = 2
  MaxRecords = 4
  MaxCrashes = 1
  MaxBytes = 3
  MaxRotatedFiles = 1
  MaxSeq = 2
  MaxClock = 2
INVARIANTS
  RotationLosesNothing
  FlushedSurvives
  LogInOrder
  SizeBounded
  NamesSortByAge
PROPERTIES
  NoOverwrite
  PruneKeepsNewestOfDistinctSeconds
  RetentionRestored
