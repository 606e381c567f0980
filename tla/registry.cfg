\* Two threads ask for related names while the registry is cleared.
SPECIFICATION Spec
CONSTANTS
  Clients = {c1, c2}
  Requested <- Names
  MaxCalls = 3  MaxClears = 1
SYMMETRY Symmetry
INVARIANTS
  OneLoggerPerName
  HierarchyComplete
  RecursionTerminates
CHECK_DEADLOCK FALSE
