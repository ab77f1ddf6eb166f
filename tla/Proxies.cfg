SPECIFICATION MCSpec
CONSTANTS
  HighWater = 1
  TargetData = 2
  ClientData = 1
  MaxFaults = 1
  Configs <- MCConfigs
  MaxStatus = 2
  MaxRedirects = 3
  Chunks = 2
  MaxOthers = 4
  MaxTime = 1
  Exchanges <- MCExchanges
CHECK_DEADLOCK FALSE
INVARIANTS AgreeOnTarget OnlyAuthenticated SocksCrashOnlyIfHarmed RelayInOrder
INVARIANTS AnswerOfTarget NoSecretsAcross StatusesTold ProxyCrashOnlyIfHarmed
PROPERTIES BothClose BothReleased
