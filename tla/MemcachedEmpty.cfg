SPECIFICATION MCSpec
CONSTANTS
  HEAD = HEAD
  CR = CR
  LF = LF
  STATUS = STATUS
  x = x
  Blocks = {x}
  DataBlocks <- MCDataBlocks
  Clients = {c1}
  Keys = {k1}
  CasIds = {u1}
  Nothing = Nothing
  MaxTotalSize = 0
  Scripts <- MCScripts
  Values <- MCValues
  Callers = {a, b}
  Kinds = {"save", "get", "delete", "noreply"}
  MaxCalls = 1
CHECK_DEADLOCK FALSE
PROPERTY EmptyBlocksAnswered
