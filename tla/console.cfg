SPECIFICATION Spec
CONSTANTS
  Threads = {t1, t2}
  Consoles = {k1, k2}
  Nobody = nobody
  Patterns <- MCPatterns
  ConsolePatterns <- MCConsolePatterns
  Messages <- MCMessages
  RecordLevels = {"INFO", "ERROR"}
  ColorModes = {"Always", "Auto"}
  IsTty = FALSE
  MaxRecords = 3
  MaxFailures = 1
SYMMETRY Symmetry
INVARIANTS
  FormatLosesNothing
  TokensAreRendered
  LinesIntact
  
  LinesTerminated
CHECK_DEADLOCK FALSE
