SPECIFICATION Spec
CONSTANTS
  c1 = c1
  c2 = c2
  Clients <- TwoClients
  Keys = {k1, k2}
  WireLevels <- TwoLevels
  Tasks = {t1, t2}
  Janitor = janitor
  MaxClients = 2
  Traffic <- MovingTraffic
  Bodies = {"good", "invalid"}
  SendFails = FALSE
  TickBased = FALSE
  TimePasses = TRUE
  Serial = TRUE
  MaxReapers = 1
  NoPacket = NoPacket
SYMMETRY ClientTaskSymmetry
INVARIANT MembershipAgrees
PROPERTIES OnlyOwnPacketsMoveSession ImplementsPlaces
