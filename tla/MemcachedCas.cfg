SPECIFICATION MCSpec
CONSTANTS
  HEAD = HEAD
  CR = CR
  LF = LF
  STATUS = STATUS
  x = x
  Blocks = {x, y}
  DataBlocks <- MCDataBlocks
  Clients = {c1, c2}
  Keys = {k1}
  CasIds = {u1}
  Nothing = Nothing
  MaxTotalSize = 3
  Scripts <- MCScripts
  Values <- MCValues
  Callers = {a, b}
  Kinds = {"save", "get", "delete", "noreply"}
  MaxCalls = 0
CHECK_DEADLOCK FALSE
PROPERTY CasOnlyIfUnchanged
