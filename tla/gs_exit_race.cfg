\* Level packets of one client whose tasks overlap.
SPECIFICATION Spec
CONSTANTS
  c1 = c1
  c2 = c2
  Clients <- OneClient
  Keys = {k1}
  WireLevels <- OneLevel
  Tasks = {t1, t2}
  Janitor = janitor
  MaxClients = 0
  Traffic <- LevelTraffic
  Bodies = {"good"}
  SendFails = FALSE
  TickBased = FALSE
  TimePasses = FALSE
  Serial = FALSE
  MaxReapers = 2
  NoPacket = NoPacket
INVARIANT NoGhostPlayers
