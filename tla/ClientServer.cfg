SPECIFICATION ClientServerSpec
CONSTANTS
  HEAD = HEAD
  CR = CR
  LF = LF
  STATUS = STATUS
  x = x
  Blocks = {x}
  DataBlocks <- MCDataBlocks
  c1 = c1
  Clients = {client}
  Keys = {k1, k2}
  CasIds = {u1}
  None = None
  Nothing = Nothing
  MaxTotalSize = 3
  Scripts <- MCScripts
  Values <- MCValues
  Callers = {a, b}
  Kinds = {"save", "get", "delete", "noreply"}
  MaxCalls = 3
  p1 = p1
  p2 = p2
  p3 = p3
  c2 = c2
  torn = torn
  Torn = torn
  Paths <- MCPaths2
  Contents <- MCContents
  MaxEdits = 1
  MaxFaults = 1
CHECK_DEADLOCK FALSE
INVARIANTS AnnouncedBytesPresent ExecutedAsSent CrashOnlyIfHarmed OwnAnswers
PROPERTIES OnlySetOrAddRevives AllExecutedOrCrashed AllAnswered EventuallySynced
