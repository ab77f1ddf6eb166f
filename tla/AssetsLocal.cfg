SPECIFICATION MCSpec
CONSTANTS
  p1 = p1
  p2 = p2
  p3 = p3
  c1 = c1
  c2 = c2
  top = top
  de = de
  df = df
  deg = deg
  d = d
  dd = dd
  Files <- MCFiles
  Dirs <- MCDirs
  Root = "root"
  Parent <- MCParent
  Above <- MCAbove
  Infos = {i1, i2}
  NoInfo = NoInfo
  Paths <- MCPaths
  Contents <- MCContents
  Basename <- MCBasename
  None = None
  Torn = Torn
  MaxUpsets = 1
  MaxPulls = 1
  MaxCommands = 1
SYMMETRY MCSymmetry
INVARIANTS AccurateBackupEndsRight BackupReproducesSource PullReproducesSource OperationEndsRight NothingLost
PROPERTY KeepsItems
