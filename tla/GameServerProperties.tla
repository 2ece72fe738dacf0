------------------------ MODULE GameServerProperties ------------------------
(***************************************************************************)
(* What should hold of the game server of GameServer.tla: invariants,      *)
(* action properties, liveness under Fairness, and the refinement of       *)
(* PlayerPlaces.  Which of them hold, and when, is for the runs to show.   *)
(***************************************************************************)
EXTENDS GameServer

(* Types.  No table has the sentinel -1 as a level: the daily and weekly   *)
(* ids of on_userlevelentry are translated before they are stored.         *)
TypeOK ==
  /\ DOMAIN connected_clients \subseteq Clients
  /\ connected_clients \in [DOMAIN connected_clients -> ClientData]
  /\ DOMAIN levels \subseteq LevelIds \ {NoLevel}
  /\ levels \in [DOMAIN levels -> SUBSET Clients]
  /\ reapers \in Nat
  /\ pc \in [Workers -> Labels]
  /\ packet \in [Workers -> Packets \cup Kicks \cup {NoPacket}]
  /\ level_id \in [Workers -> LevelIds \cup {NoLevel}]
  /\ to_remove \subseteq Clients
  /\ tick_pc \in {"idle", "collected", "sending"}
  /\ level_to_players \in [LevelIds -> SUBSET Clients]

(* The client table never outgrows GLOBED_GS_MAX_CLIENTS, however many     *)
(* check-ins add_client handles at once.                                   *)
CapacityRespected ==
  MaxClients # 0 => Cardinality(DOMAIN connected_clients) <= MaxClients

(* remove_empty_levels is spawned and not awaited, after the lock is gone. *)
(* Still no level is left behind: whenever a level in the table has no     *)
(* players, a reaper is waiting to run or a worker is about to spawn one.  *)
NoForgottenEmptyLevel ==
  \A l \in DOMAIN levels :
    levels[l] = {} => reapers > 0 \/ \E w \in Workers : pc[w] = "reap"

(* A client is registered before its account data is decoded and stored.   *)
(* When every body decodes, a client still without a name has a check-in   *)
(* under way that will store its data or drop it.                          *)
NamelessOnlyDuringCheckIn ==
  \A c \in DOMAIN connected_clients :
    ~connected_clients[c].named =>
      \E t \in Tasks : pc[t] \in {"sign_in", "reject"} /\ Client(t) = c

(* The two tables agree: while nothing is being done for a client, it is   *)
(* among the players of a level exactly when its level_id says so, hence   *)
(* on one level at most.  No single lock spans the two tables.             *)
MembershipAgrees ==
  \A c \in Clients : ~InFlight(c) =>
    \A l \in LevelIds :
      c \in Players(l) <=> LevelOf(c) = l

(* A session ends or changes level only through a packet that carries the  *)
(* session's own secret key, or through the janitor: never through a       *)
(* packet of an earlier or later session of the same account.              *)
SessionChanged(c) ==
  /\ Known(c)
  /\ \/ ~Known(c)'
     \/ connected_clients'[c].level # connected_clients[c].level

OnlyOwnPacketsMoveSession ==
  [][\A c \in Clients : SessionChanged(c) =>
       \E w \in Workers :
         /\ pc[w] # "idle" /\ pc'[w] # pc[w]
         /\ packet[w] # NoPacket /\ Client(w) = c
         /\ packet[w].kind = "Kick" \/ packet[w].key = connected_clients[c].key
    ]_vars

(* UserLevelExit "removes the user from the level they were playing on",   *)
(* Disconnect likewise: while nothing is being done for a client that is   *)
(* unknown or on no level, no level has it among its players.              *)
NoGhostPlayers ==
  \A c \in Clients :
    ~InFlight(c) /\ LevelOf(c) = NoLevel
    => \A l \in LevelIds : c \notin Players(l)

(* UserLevelExit "removes the user from the level they were playing on":   *)
(* when on_userlevelexit comes to its end for a known client, no level has *)
(* the client among its players.  It leaves the level that level_id named, *)
(* so this rests on every earlier write to level_id, the tick's included.  *)
EndsExit(w) ==
  /\ packet[w] # NoPacket
  /\ packet[w].kind = "UserLevelExit"
  /\ pc[w] \in {"leave", "reap"}
  /\ packet'[w] = NoPacket

ExitRemovesPlayer ==
  [][\A w \in Workers :
       EndsExit(w) => \A l \in LevelIds : Client(w) \notin Players(l)]_vars

(* An empty level does not stay in the table: it is reaped or joined.      *)
EmptyLevel(l) == l \in DOMAIN levels /\ levels[l] = {}

EmptyLevelsReaped == \A l \in LevelIds : EmptyLevel(l) ~> ~EmptyLevel(l)

(* A client that stops sending keepalives is removed from the client table *)
(* unless it is heard again.                                               *)
IsSilent(c) == Known(c) /\ ~connected_clients[c].fresh

SilentClientsKicked == \A c \in Clients : IsSilent(c) ~> ~IsSilent(c)

(* A failed broadcast can leave a client with the id of a level that is    *)
(* gone.  With tick_based, the tick task finds and resets it, although it  *)
(* works on a list that may be stale.                                      *)
OnMissingLevel(c, l) ==
  LevelOf(c) = l /\ l \notin DOMAIN levels

MissingLevelRepaired ==
  \A c \in Clients, l \in LevelIds :
    OnMissingLevel(c, l) ~> ~OnMissingLevel(c, l)

-----------------------------------------------------------------------------
(* Refinement.  The place of a player is the set of levels whose players   *)
(* it is among: a single one, or none, which is the lobby.                 *)
LevelsOf(c) == {l \in DOMAIN levels : c \in levels[l]}

PlaceOf(c) ==
  IF ~Known(c) THEN {}
  ELSE IF LevelsOf(c) = {} THEN {NoLevel} ELSE LevelsOf(c)

Places == INSTANCE PlayerPlaces
            WITH LevelIds <- {{l} : l \in LevelIds},
                 Away <- {}, Lobby <- {NoLevel},
                 place <- [c \in Clients |-> PlaceOf(c)]

(* Handled one job per client at a time, the two tables together act like  *)
(* one place per player.                                                   *)
ImplementsPlaces == Places!Spec
=============================================================================
