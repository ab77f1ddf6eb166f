SPECIFICATION SnapshotSpec
CONSTANTS
  MaxSnapshots = 2
  MaxSaves = 3
  MaxInstants = 1
  NoSnapshot = NoSnapshot
CHECK_DEADLOCK FALSE
PROPERTY RetainedAtMost
