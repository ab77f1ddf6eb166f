SPECIFICATION MCSpec
CONSTANTS
  MaxFileSize = 2
  MaxTotalSize = 5
  MaxFileCount = 2
  WriteSizes <- MCWriteSizes
  MaxUnits = 8
  MaxDay = 1
  MaxCrashes = 1
  MaxSnapshots = 2
  MaxSaves = 4
  MaxInstants = 1
  NoSnapshot = NoSnapshot
  BoundaryStr <- MCBoundaryStr
  Letters = {"n", "x", "b"}
  Messages <- MCMessages
  MaxCuts = 2
  HighWater = 3
  BodyBytes = {"a", "b"}
  MaxBody = 3
  Methods = {"get", "post"}
  Targets = {"/a"}
  Recorders = {"r1", "r2"}
  Top = {1}
  Nested = {2}
  MaxAnswers = 2
  MaxEdits = 1
  Undefined = Undefined
  NoRecord = NoRecord
  Processes = {"p1", "p2", "p3"}
  EndPort = 3
  MaxServerStarts = 4
  NoServer = "none"
CHECK_DEADLOCK FALSE
INVARIANTS KeptIsSuffix ArchivesInLimits LastSaveKept PartsAsSent EchoAsSent FoundFits StartFailsOnlyInRace
PROPERTIES TailInOrder QueueDrains
