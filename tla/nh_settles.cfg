\* Four threads connect and disconnect between two servers.
SPECIFICATION FairSpec
CONSTANTS
  s1 = s1
  s2 = s2
  Servers <- TwoServers
  Unreachable = {}
  PingIds = {}
  MaxCommands = 1
  MaxMessages = 1
  MaxPending = 1
  Messages = {"MenuLayerEntry", "CentralServerChanged", "Game"}
  Loss = TRUE
  Duplication = FALSE
  Silence = TRUE
  None = None
INVARIANT SavedServerIsCurrent
PROPERTY LostSessionLeft
\* The player stops acting after MaxCommands and MaxMessages.
CHECK_DEADLOCK FALSE
