SPECIFICATION Spec
CONSTANTS
  s1 = s1
  s2 = s2
  Servers <- TwoServers
  Unreachable = {s2}
  PingIds = {1}
  MaxCommands = 1
  MaxMessages = 2
  MaxPending = 1
  Messages = {"PingServers", "MenuLayerEntry", "Game"}
  Loss = TRUE
  Duplication = TRUE
  Silence = FALSE
  None = None
INVARIANTS TypeOK PingAnswersKnown 
\* The player stops acting after MaxCommands and MaxMessages.
CHECK_DEADLOCK FALSE
