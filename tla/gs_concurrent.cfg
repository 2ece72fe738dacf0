SPECIFICATION Spec
CONSTANTS
  c1 = c1
  c2 = c2
  Clients <- TwoClients
  Keys = {k1}
  WireLevels <- OneLevel
  Tasks = {t1, t2}
  Janitor = janitor
  MaxClients = 1
  Traffic <- AllTraffic
  Bodies = {"good", "invalid"}
  SendFails = FALSE
  TickBased = FALSE
  TimePasses = TRUE
  Serial = FALSE
  MaxReapers = 2
  NoPacket = NoPacket
SYMMETRY ClientTaskSymmetry
INVARIANTS TypeOK CapacityRespected NoForgottenEmptyLevel NamelessOnlyDuringCheckIn
