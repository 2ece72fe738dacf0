\* The server list is open while the client is connected.
SPECIFICATION Spec
CONSTANTS
  s1 = s1
  s2 = s2
  Servers <- TwoServers
  Unreachable = {}
  PingIds = {1}
  MaxCommands = 1
  MaxMessages = 1
  MaxPending = 1
  Messages = {"PingServers"}
  Loss = FALSE
  Duplication = FALSE
  Silence = FALSE
  None = None
PROPERTY KeepalivesReachServer
\* The player stops acting after MaxCommands and MaxMessages.
CHECK_DEADLOCK FALSE
