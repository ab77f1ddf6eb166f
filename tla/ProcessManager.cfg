SPECIFICATION PMSpec
CONSTANTS
  Operators = {o1, o2}
  MaxRetry = 1
  MaxCalls = 2
  MaxStarts = 2
CHECK_DEADLOCK FALSE
INVARIANTS NoProcessOutOfSight NeverTwice
PROPERTIES ExitIsRetried CallsReturn
