SPECIFICATION NetSpec
CONSTANTS
  Processes = {"p1", "p2"}
  EndPort = 2
  MaxServerStarts = 2
  NoServer = "none"
CHECK_DEADLOCK FALSE
PROPERTY FileOfServerKept
