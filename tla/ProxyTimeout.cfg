SPECIFICATION MCSpec
CONSTANTS
  HighWater = 1
  TargetData = 0
  ClientData = 0
  MaxFaults = 0
  Configs <- MCConfigs
  MaxStatus = 2
  MaxRedirects = 1
  Chunks = 1
  MaxOthers = 0
  MaxTime = 0
  Exchanges <- MCExchanges
CHECK_DEADLOCK FALSE
PROPERTY OutgoingTimeoutHolds
