SPECIFICATION FairSpec
CONSTANTS
  c1 = c1
  c2 = c2
  Clients <- OneClient
  Keys = {k1}
  WireLevels <- TwoLevels
  Tasks = {t1}
  Janitor = janitor
  MaxClients = 0
  Traffic <- ChangingTraffic
  Bodies = {"good", "invalid", "broken"}
  SendFails = TRUE
  TickBased = TRUE
  TimePasses = TRUE
  Serial = FALSE
  MaxReapers = 1
  NoPacket = NoPacket
PROPERTIES EmptyLevelsReaped SilentClientsKicked MissingLevelRepaired
