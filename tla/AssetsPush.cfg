SPECIFICATION Spec
CONSTANTS
  p1 = p1
  p2 = p2
  p3 = p3
  c1 = c1
  c2 = c2
  torn = torn
  Torn = torn
  Paths <- MCPaths3
  Contents <- MCContents
  None = None
  MaxEdits = 1
  MaxFaults = 1
SYMMETRY Symmetry3
INVARIANTS DiffReproducesSource MetaVouchesForDisk SuccessMeansSynced
