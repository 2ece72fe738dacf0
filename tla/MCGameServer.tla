---------------------------- MODULE MCGameServer ----------------------------
(* Values of GameServer's constants for TLC: the level ids are the integers *)
(* the client sends, -1 for the daily level.                                *)
EXTENDS GameServerProperties, TLC

CONSTANTS c1, c2

TwoClients == {c1, c2}
OneClient == {c1}

OneLevel == {-1}
TwoLevels == {-1, 7}

ClientSymmetry == Permutations(Clients)
TaskSymmetry == Permutations(Tasks)
ClientTaskSymmetry == ClientSymmetry \cup TaskSymmetry

LevelTraffic == {"CheckIn", "UserLevelEntry", "UserLevelExit", "UserLevelData"}
SessionTraffic == {"CheckIn", "Keepalive", "Disconnect"}
AllTraffic == Kinds
ChangingTraffic == Kinds \ {"SpectateNoData"}
MovingTraffic == Kinds \ {"SpectateNoData", "Keepalive"}
=============================================================================
