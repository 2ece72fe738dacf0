----------------------------- MODULE GameServer -----------------------------
(***************************************************************************)
(* The state of a Globed game server (server/game/src): the table of       *)
(* signed-in clients, the table of levels with the players on each, and    *)
(* everything that changes them concurrently.                              *)
(*                                                                         *)
(* The server spawns one tokio task per datagram, a janitor task that      *)
(* removes silent clients, and, when tick_based, a tick task.  A task runs *)
(* through sections, each under the lock of one table, and awaits a lock   *)
(* between any two of them.  An action here is one such section, so the    *)
(* sections of different tasks interleave in every order.  Removing a      *)
(* player from a level also hands "drop the empty levels" to the blocking  *)
(* thread pool, where it runs at some later time: a reaper.                *)
(*                                                                         *)
(* A worker is a task slot or the janitor: both call remove_client and     *)
(* remove_client_from_level.                                               *)
(***************************************************************************)
EXTENDS Integers, FiniteSets, Functions

CONSTANTS
  Clients,      \* client ids (Geometry Dash accounts), 0 excluded
  Keys,         \* secret keys: a client draws one per start of the game
  WireLevels,   \* the level ids that UserLevelEntry carries
  Tasks,        \* packet tasks that can be alive at once
  Janitor,      \* the worker that runs remove_dead_clients
  MaxClients,   \* GLOBED_GS_MAX_CLIENTS, 0 for no limit
  Traffic,      \* the kinds of packet that arrive
  Bodies,       \* what CheckIn bodies arrive: "good", "invalid", "broken"
  SendFails,    \* may socket.send_to return an error?
  TickBased,    \* GLOBED_GS_TICK_BASED
  TimePasses,   \* can the kick timeout elapse?
  Serial,       \* do the jobs on one client never overlap?
  MaxReapers,   \* bound: reapers waiting when new work starts
  NoPacket      \* a worker with nothing to handle

Kinds == {"CheckIn", "Keepalive", "Disconnect", "UserLevelEntry",
          "UserLevelExit", "UserLevelData", "SpectateNoData"}

ASSUME ClientsFinite == IsFiniteSet(Clients)
ASSUME WorkersDistinct == Janitor \notin Tasks
ASSUME LimitIsI32 == MaxClients \in Nat
ASSUME TrafficKnown == Traffic \subseteq Kinds
ASSUME BodiesKnown == Bodies \subseteq {"good", "invalid", "broken"}
ASSUME SwitchesBoolean ==
  {SendFails, TickBased, TimePasses, Serial} \subseteq BOOLEAN
ASSUME LevelsAreI32 == WireLevels \subseteq Int
ASSUME ReaperBound == MaxReapers \in Nat \ {0}

-----------------------------------------------------------------------------
(* Levels: -1 in ClientData.level_id stands for "on no level", and the     *)
(* client's -1 and -2 (daily and weekly) are stored under other ids.       *)
NoLevel == -1
DailyLevel == -2000000000
WeeklyLevel == -2000000001

(* Faulty: the client's ids are stored as they come.                       *)
LevelKeyAsSent(wire) == wire

LevelKey(wire) == IF wire = -1 THEN DailyLevel
                  ELSE IF wire = -2 THEN WeeklyLevel ELSE wire

LevelIds == {LevelKey(wire) : wire \in WireLevels}

(* Datagrams, decoded.  Kick is the janitor's job on one client.           *)
CheckIns == [kind : {"CheckIn"}, client : Clients, key : Keys, body : Bodies]
Entries == [kind : {"UserLevelEntry"}, client : Clients, key : Keys,
            level : WireLevels]
Others == [kind : Kinds \ {"CheckIn", "UserLevelEntry"}, client : Clients,
           key : Keys]
Packets == {p \in CheckIns \cup Entries \cup Others : p.kind \in Traffic}
Kicks == [kind : {"Kick"}, client : Clients]

ASSUME NoPacketDistinct == NoPacket \notin Packets \cup Kicks

Workers == Tasks \cup {Janitor}

VARIABLES
  connected_clients,  \* client id -> ClientData, a client that is not a key is unknown
  levels,             \* level id -> the players on it, a level that is not a key is absent
  reapers,            \* blocking tasks spawned by remove_empty_levels, not run yet
  pc,                 \* the section each worker enters next
  packet,             \* what each worker is handling
  level_id,           \* the local level_id of each worker's handler
  to_remove,          \* the janitor's list of silent clients
  tick_pc,            \* the tick task: "idle", "collected" or "sending"
  level_to_players    \* the tick task's list: level id -> players

tables == <<connected_clients, levels, reapers>>
locals == <<pc, packet, level_id>>
tick == <<tick_pc, level_to_players>>
vars == <<connected_clients, levels, reapers, pc, packet, level_id, to_remove,
          tick_pc, level_to_players>>

(* key: secret_key; level: level_id; fresh: last_keepalive_time is within  *)
(* kick_timeout; named: player_data is that of the check-in, not empty().  *)
ClientData == [key : Keys, level : LevelIds \cup {NoLevel}, fresh : BOOLEAN,
               named : BOOLEAN]

Labels == {"idle", "kick", "verify", "add_client", "sign_in", "reject",
           "keepalive", "remove_client", "leave", "reap", "entry",
           "announce_join", "join", "record_level", "exit", "announce_exit",
           "data", "store"}

-----------------------------------------------------------------------------
(* Maps and workers.                                                       *)
With(map, k, v) ==
  [x \in DOMAIN map \cup {k} |-> IF x = k THEN v ELSE map[x]]
Without(map, k) == Restrict(map, DOMAIN map \ {k})

Known(c) == c \in DOMAIN connected_clients
Players(l) == IF l \in DOMAIN levels THEN levels[l] ELSE {}

Client(w) == packet[w].client

(* The level_id of a client, NoLevel for one that is not in the table.     *)
LevelOf(c) == IF Known(c) THEN connected_clients[c].level ELSE NoLevel

(* client.level_id = l for those of the clients S that are in the table.   *)
SetLevel(S, l) ==
  connected_clients' =
    [c \in DOMAIN connected_clients |->
       IF c \in S THEN [connected_clients[c] EXCEPT !.level = l]
       ELSE connected_clients[c]]

InFlight(c) == \E w \in Workers : packet[w] # NoPacket /\ Client(w) = c

(* The janitor goes back to its list after each client, a task ends.       *)
Rest(w) == IF w = Janitor /\ to_remove # {} THEN "kick" ELSE "idle"

Goto(w, label) ==
  /\ pc' = [pc EXCEPT ![w] = label]
  /\ UNCHANGED <<packet, level_id>>

GotoWith(w, label, l) ==
  /\ pc' = [pc EXCEPT ![w] = label]
  /\ level_id' = [level_id EXCEPT ![w] = l]
  /\ UNCHANGED packet

Return(w) ==
  /\ pc' = [pc EXCEPT ![w] = Rest(w)]
  /\ packet' = [packet EXCEPT ![w] = NoPacket]
  /\ level_id' = [level_id EXCEPT ![w] = NoLevel]

(* levels.write() waits while the tick task holds levels.read().           *)
LevelsWritable == tick_pc # "sending"

(* broadcast_message stops at the first send_to that fails, which needs a  *)
(* client to send to.                                                      *)
Recipients(l) == {c \in DOMAIN connected_clients : connected_clients[c].level = l}

-----------------------------------------------------------------------------
Init ==
  /\ connected_clients = [c \in {} |-> {}]
  /\ levels = [l \in {} |-> {}]
  /\ reapers = 0
  /\ pc = [w \in Workers |-> "idle"]
  /\ packet = [w \in Workers |-> NoPacket]
  /\ level_id = [w \in Workers |-> NoLevel]
  /\ to_remove = {}
  /\ tick_pc = "idle"
  /\ level_to_players = [l \in LevelIds |-> {}]

(* A datagram arrives and a task is spawned for it.  The bound MaxReapers  *)
(* holds back new work, never the tasks under way.                         *)
Receive(t, p) ==
  /\ t \in Tasks
  /\ pc[t] = "idle"
  /\ reapers < MaxReapers
  /\ Serial => ~InFlight(p.client)
  /\ pc' = [pc EXCEPT ![t] = IF p.kind = "CheckIn" THEN "add_client"
                             ELSE "verify"]
  /\ packet' = [packet EXCEPT ![t] = p]
  /\ UNCHANGED <<tables, level_id, to_remove, tick>>

(* The handler's first section, by packet type.                            *)
Section ==
  [Keepalive |-> "keepalive", Disconnect |-> "remove_client",
   UserLevelEntry |-> "entry", UserLevelExit |-> "exit",
   UserLevelData |-> "data", SpectateNoData |-> "data"]

(* Faulty: any key will do for a known client.                             *)
VerifiedById(p) == Known(p.client)

Verified(p) == Known(p.client) /\ connected_clients[p.client].key = p.key

(* verify_secret_key_or_disconnect, then the dispatch on the packet type.  *)
Verify(t) ==
  /\ pc[t] = "verify"
  /\ \/ /\ Verified(packet[t])
        /\ Goto(t, Section[packet[t].kind])
     \/ /\ ~Verified(packet[t])
        /\ Return(t)
  /\ UNCHANGED <<tables, to_remove, tick>>

-----------------------------------------------------------------------------
(* CheckIn.                                                                *)
(* Faulty: one client too many.                                            *)
FullOffByOne ==
  MaxClients # 0 /\ Cardinality(DOMAIN connected_clients) > MaxClients

Full == MaxClients # 0 /\ Cardinality(DOMAIN connected_clients) >= MaxClients

NewClient(key) ==
  [key |-> key, level |-> NoLevel, fresh |-> TRUE, named |-> FALSE]

(* add_client refuses, and the task answers ServerDisconnect.              *)
RefuseClient(t) ==
  /\ pc[t] = "add_client"
  /\ Known(Client(t)) \/ Full
  /\ Return(t)
  /\ UNCHANGED <<tables, to_remove, tick>>

(* add_client inserts; the body is decoded only then: one that cannot be   *)
(* decoded ends the task and leaves the client registered.                 *)
AddClient(t) ==
  /\ pc[t] = "add_client"
  /\ ~Known(Client(t))
  /\ ~Full
  /\ connected_clients' =
       With(connected_clients, Client(t), NewClient(packet[t].key))
  /\ \/ packet[t].body = "good" /\ Goto(t, "sign_in")
     \/ packet[t].body = "invalid" /\ Goto(t, "reject")
     \/ packet[t].body = "broken" /\ Return(t)
  /\ UNCHANGED <<levels, reapers, to_remove, tick>>

(* The decoded data is stored, if the client is still there.               *)
SignIn(t) ==
  /\ pc[t] = "sign_in"
  /\ connected_clients' =
       [c \in DOMAIN connected_clients |->
          IF c = Client(t) THEN [connected_clients[c] EXCEPT !.named = TRUE]
          ELSE connected_clients[c]]
  /\ Return(t)
  /\ UNCHANGED <<levels, reapers, to_remove, tick>>

(* Faulty: the answer is sent, the client stays in the table.              *)
RejectKeepingClient(t) ==
  /\ pc[t] = "reject"
  /\ Return(t)
  /\ UNCHANGED <<tables, to_remove, tick>>

(* Invalid data: ServerDisconnect is sent, then the client is dropped from *)
(* the client table alone.                                                 *)
Reject(t) ==
  /\ pc[t] = "reject"
  /\ \/ connected_clients' = Without(connected_clients, Client(t))
     \/ SendFails /\ UNCHANGED connected_clients
  /\ Return(t)
  /\ UNCHANGED <<levels, reapers, to_remove, tick>>

-----------------------------------------------------------------------------
(* Keepalive, and the time that passes without one.                        *)
Keepalive(t) ==
  /\ pc[t] = "keepalive"
  /\ connected_clients' =
       [c \in DOMAIN connected_clients |->
          IF c = Client(t) THEN [connected_clients[c] EXCEPT !.fresh = TRUE]
          ELSE connected_clients[c]]
  /\ Return(t)
  /\ UNCHANGED <<levels, reapers, to_remove, tick>>

GoSilent(c) ==
  /\ TimePasses
  /\ Known(c)
  /\ connected_clients[c].fresh
  /\ connected_clients' = [connected_clients EXCEPT ![c].fresh = FALSE]
  /\ UNCHANGED <<levels, reapers, locals, to_remove, tick>>

-----------------------------------------------------------------------------
(* Faulty: only the client table is cleaned up.                            *)
RemoveClientOnly(w) ==
  /\ pc[w] = "remove_client"
  /\ connected_clients' = Without(connected_clients, Client(w))
  /\ Return(w)
  /\ UNCHANGED <<levels, reapers, to_remove, tick>>

(* remove_client: for Disconnect and for the janitor.                      *)
RemoveClient(w) ==
  /\ pc[w] = "remove_client"
  /\ connected_clients' = Without(connected_clients, Client(w))
  /\ \/ /\ LevelOf(Client(w)) # NoLevel
        /\ GotoWith(w, "leave", LevelOf(Client(w)))
     \/ /\ LevelOf(Client(w)) = NoLevel
        /\ Return(w)
  /\ UNCHANGED <<levels, reapers, to_remove, tick>>

(* Where the caller of remove_client_from_level(client, level_id[w]) goes  *)
(* on: an entry reads the new level and announces it, the others are done. *)
AfterLeave(w) ==
  \/ /\ packet[w].kind = "UserLevelEntry"
     /\ GotoWith(w, "announce_join", LevelKey(packet[w].level))
  \/ /\ packet[w].kind # "UserLevelEntry"
     /\ Return(w)

(* remove_client_from_level, under levels.read() and the level's write():  *)
(* a level that does not exist is passed over.                             *)
LeaveLevel(w) ==
  /\ pc[w] = "leave"
  /\ \/ /\ level_id[w] \in DOMAIN levels
        /\ levels' = [levels EXCEPT ![level_id[w]] = @ \ {Client(w)}]
        /\ Goto(w, "reap")
     \/ /\ level_id[w] \notin DOMAIN levels
        /\ UNCHANGED levels
        /\ AfterLeave(w)
  /\ UNCHANGED <<connected_clients, reapers, to_remove, tick>>

(* Faulty: only on_userlevelexit asks for the empty levels to be dropped.  *)
SpawnReaperOnExit(w) ==
  /\ pc[w] = "reap"
  /\ reapers' = IF packet[w].kind = "UserLevelExit" THEN reapers + 1 ELSE reapers
  /\ AfterLeave(w)
  /\ UNCHANGED <<connected_clients, levels, to_remove, tick>>

(* remove_empty_levels: spawn_blocking, and nobody awaits the handle.      *)
SpawnReaper(w) ==
  /\ pc[w] = "reap"
  /\ reapers' = reapers + 1
  /\ AfterLeave(w)
  /\ UNCHANGED <<connected_clients, levels, to_remove, tick>>

(* Faulty: the thread gives up when it cannot have the lock at once.       *)
ReapIfUnlocked ==
  /\ reapers > 0
  /\ reapers' = reapers - 1
  /\ levels' = IF LevelsWritable
               THEN Restrict(levels, {l \in DOMAIN levels : levels[l] # {}})
               ELSE levels
  /\ UNCHANGED <<connected_clients, locals, to_remove, tick>>

(* The blocking thread: levels.retain(not empty).                          *)
Reap ==
  /\ reapers > 0
  /\ LevelsWritable
  /\ reapers' = reapers - 1
  /\ levels' = Restrict(levels, {l \in DOMAIN levels : levels[l] # {}})
  /\ UNCHANGED <<connected_clients, locals, to_remove, tick>>

-----------------------------------------------------------------------------
(* UserLevelEntry.                                                         *)

(* Faulty: the old level is not left first.                                *)
EnterWithoutLeaving(t) ==
  /\ pc[t] = "entry"
  /\ \/ ~Known(Client(t)) /\ Return(t)
     \/ Known(Client(t)) /\ GotoWith(t, "announce_join", LevelKey(packet[t].level))
  /\ UNCHANGED <<tables, to_remove, tick>>

(* The level_id of the client table is read, then its lock is given up.    *)
EnterLevel(t) ==
  /\ pc[t] = "entry"
  /\ \/ ~Known(Client(t)) /\ Return(t)
     \/ /\ LevelOf(Client(t)) # NoLevel
        /\ GotoWith(t, "leave", LevelOf(Client(t)))
     \/ /\ Known(Client(t))
        /\ LevelOf(Client(t)) = NoLevel
        /\ GotoWith(t, "announce_join", LevelKey(packet[t].level))
  /\ UNCHANGED <<tables, to_remove, tick>>

(* broadcast_message to the level, whose failure ends the task.            *)
Announce(t, label, next) ==
  /\ pc[t] = label
  /\ \/ Goto(t, next)
     \/ SendFails /\ Recipients(level_id[t]) # {} /\ Return(t)
  /\ UNCHANGED <<tables, to_remove, tick>>

AnnounceJoin(t) == Announce(t, "announce_join", "join")

(* add_client_to_level, first half: under levels.write().                  *)
JoinLevel(t) ==
  /\ pc[t] = "join"
  /\ LevelsWritable
  /\ levels' = With(levels, level_id[t], Players(level_id[t]) \cup {Client(t)})
  /\ Goto(t, "record_level")
  /\ UNCHANGED <<connected_clients, reapers, to_remove, tick>>

(* add_client_to_level, second half: under connected_clients.write().      *)
RecordLevel(t) ==
  /\ pc[t] = "record_level"
  /\ SetLevel({Client(t)}, level_id[t])
  /\ Return(t)
  /\ UNCHANGED <<levels, reapers, to_remove, tick>>

-----------------------------------------------------------------------------
(* UserLevelExit.                                                          *)
ExitLevel(t) ==
  /\ pc[t] = "exit"
  /\ SetLevel({Client(t)}, NoLevel)
  /\ \/ ~Known(Client(t)) /\ Return(t)
     \/ /\ Known(Client(t))
        /\ GotoWith(t, "announce_exit", LevelOf(Client(t)))
  /\ UNCHANGED <<levels, reapers, to_remove, tick>>

AnnounceExit(t) == Announce(t, "announce_exit", "leave")

-----------------------------------------------------------------------------
(* UserLevelData and SpectateNoData.  The LevelData answer changes nothing. *)
ReadLevel(t) ==
  /\ pc[t] = "data"
  /\ \/ /\ packet[t].kind = "UserLevelData"
        /\ LevelOf(Client(t)) # NoLevel
        /\ GotoWith(t, "store", LevelOf(Client(t)))
     \/ /\ packet[t].kind = "SpectateNoData" \/ LevelOf(Client(t)) = NoLevel
        /\ Return(t)
  /\ UNCHANGED <<tables, to_remove, tick>>

(* level.insert(client_id, data): the level read before may be gone.       *)
StoreData(t) ==
  /\ pc[t] = "store"
  /\ \/ /\ level_id[t] \in DOMAIN levels
        /\ levels' = [levels EXCEPT ![level_id[t]] = @ \cup {Client(t)}]
     \/ /\ level_id[t] \notin DOMAIN levels
        /\ UNCHANGED levels
  /\ Return(t)
  /\ UNCHANGED <<connected_clients, reapers, to_remove, tick>>

-----------------------------------------------------------------------------
(* The janitor: a list of silent clients made under connected_clients      *)
(* .read(), then remove_client for each of them.                           *)
(* Faulty: only clients on no level are looked at.                         *)
SilentInLobby ==
  {c \in DOMAIN connected_clients :
     ~connected_clients[c].fresh /\ connected_clients[c].level = NoLevel}

Silent == {c \in DOMAIN connected_clients : ~connected_clients[c].fresh}

CollectSilent ==
  /\ pc[Janitor] = "idle"
  /\ Silent # {}
  /\ to_remove' = Silent
  /\ pc' = [pc EXCEPT ![Janitor] = "kick"]
  /\ UNCHANGED <<tables, packet, level_id, tick>>

KickNext(c) ==
  /\ pc[Janitor] = "kick"
  /\ c \in to_remove
  /\ Serial => ~InFlight(c)
  /\ to_remove' = to_remove \ {c}
  /\ pc' = [pc EXCEPT ![Janitor] = "remove_client"]
  /\ packet' = [packet EXCEPT ![Janitor] = [kind |-> "Kick", client |-> c]]
  /\ UNCHANGED <<tables, level_id, tick>>

-----------------------------------------------------------------------------
(* The tick task: who is on which level is collected under                 *)
(* connected_clients.read(); then levels.read() is held while the levels   *)
(* of that list are visited.  A level that exists is only read.            *)
CollectPlayers ==
  /\ TickBased
  /\ tick_pc = "idle"
  /\ tick_pc' = "collected"
  /\ level_to_players' = [l \in LevelIds |-> Recipients(l)]
  /\ UNCHANGED <<tables, locals, to_remove>>

LockLevels ==
  /\ tick_pc = "collected"
  /\ tick_pc' = "sending"
  /\ UNCHANGED <<tables, locals, to_remove, level_to_players>>

SendLevel(l) ==
  /\ tick_pc = "sending"
  /\ level_to_players[l] # {}
  /\ l \in DOMAIN levels
  /\ level_to_players' = [level_to_players EXCEPT ![l] = {}]
  /\ UNCHANGED <<tables, locals, to_remove, tick_pc>>

(* Faulty: a missing level is only logged.                                 *)
SkipPlayers(l) ==
  /\ tick_pc = "sending"
  /\ level_to_players[l] # {}
  /\ l \notin DOMAIN levels
  /\ level_to_players' = [level_to_players EXCEPT ![l] = {}]
  /\ UNCHANGED <<tables, locals, to_remove, tick_pc>>

(* The players listed on a level that does not exist are put on no level.  *)
ResetPlayers(l) ==
  /\ tick_pc = "sending"
  /\ level_to_players[l] # {}
  /\ l \notin DOMAIN levels
  /\ SetLevel(level_to_players[l], NoLevel)
  /\ level_to_players' = [level_to_players EXCEPT ![l] = {}]
  /\ UNCHANGED <<levels, reapers, locals, to_remove, tick_pc>>

UnlockLevels ==
  /\ tick_pc = "sending"
  /\ \A l \in LevelIds : level_to_players[l] = {}
  /\ tick_pc' = "idle"
  /\ UNCHANGED <<tables, locals, to_remove, level_to_players>>

Tick ==
  \/ CollectPlayers
  \/ LockLevels
  \/ \E l \in LevelIds : SendLevel(l) \/ ResetPlayers(l)
  \/ UnlockLevels

-----------------------------------------------------------------------------
Environment ==
  \/ \E t \in Tasks, p \in Packets : Receive(t, p)
  \/ \E c \in Clients : GoSilent(c)

Step(w) ==
  \/ Verify(w)
  \/ RefuseClient(w) \/ AddClient(w) \/ SignIn(w) \/ Reject(w)
  \/ Keepalive(w)
  \/ RemoveClient(w) \/ LeaveLevel(w) \/ SpawnReaper(w)
  \/ EnterLevel(w) \/ AnnounceJoin(w) \/ JoinLevel(w) \/ RecordLevel(w)
  \/ ExitLevel(w) \/ AnnounceExit(w)
  \/ ReadLevel(w) \/ StoreData(w)

JanitorStep == CollectSilent \/ \E c \in Clients : KickNext(c)

Next ==
  \/ Environment
  \/ \E w \in Workers : Step(w)
  \/ JanitorStep
  \/ Reap
  \/ Tick

Spec == Init /\ [][Next]_vars

(* Tasks are polled until they end and their locks are handed out in the   *)
(* order of the requests (tokio's RwLock queues fairly), so a worker that  *)
(* can go on does, also where the tick task keeps taking levels.read();    *)
(* the blocking pool runs what was spawned; the interval timers fire.      *)
(* Nothing forces a packet to arrive or a client to fall silent.           *)
Fairness ==
  /\ \A w \in Workers : WF_vars(Step(w)) /\ SF_vars(JoinLevel(w))
  /\ WF_vars(JanitorStep)
  /\ SF_vars(Reap)
  /\ WF_vars(Tick)

FairSpec == Spec /\ Fairness
=============================================================================
