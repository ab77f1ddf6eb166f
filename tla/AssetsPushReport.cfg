SPECIFICATION Spec
CONSTANTS
  p1 = p1
  p2 = p2
  p3 = p3
  c1 = c1
  c2 = c2
  torn = torn
  Torn = torn
  Paths <- MCPaths3
  Contents <- MCContents
  None = None
  MaxEdits = 0
  MaxFaults = 0
SYMMETRY Symmetry3
INVARIANT ReportedSuccessIsSuccess
