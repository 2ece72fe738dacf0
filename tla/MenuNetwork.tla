----------------------------- MODULE MenuNetwork -----------------------------
(***************************************************************************)
(* What the menus of the client see of its network threads: the globals    *)
(* that network_handler.cpp and util.cpp write and that the server list    *)
(* and the levels screen read.  NetworkHandler.tla has the packets, locks  *)
(* and threads behind these steps; here a step is one write, and           *)
(* connections come and go as the menus cannot foresee.                    *)
(*                                                                         *)
(* A ping is known or -1; its milliseconds and the player counts are left  *)
(* out.  An entry of g_gameServersPings that holds -1 reads like none.     *)
(***************************************************************************)
EXTENDS FiniteSets

CONSTANTS
  Servers,   \* all servers there are
  Worlds,    \* the central servers: each a set of the lists they may answer
  None       \* no server; also: nothing on the screen

ASSUME ListsOfServers ==
  /\ IsFiniteSet(Servers) /\ None \notin Servers
  /\ Worlds \subseteq SUBSET (SUBSET Servers)

VARIABLES
  serverLists,   \* the lists of this world's central servers
  gameServers,   \* g_gameServers
  gameServerId,  \* g_gameServerId, None for ""
  established,   \* gameSocket.established
  gamePing,      \* is g_gameServerPing known?
  pings,         \* servers with a known ping in g_gameServersPings
  answerDue,     \* is a CheckedIn on its way?  (Two count as one.)
  copyPing,      \* tRecv has set established and will look at the pings
  central        \* what tMain does about a changed central server

network == <<serverLists, gameServers, gameServerId, established, gamePing, pings,
             answerDue, copyPing, central>>

NetworkTypeOK ==
  /\ serverLists \in Worlds
  /\ gameServers \in SUBSET Servers
  /\ gameServerId \in Servers \cup {None}
  /\ pings \in SUBSET Servers
  /\ established \in BOOLEAN /\ gamePing \in BOOLEAN
  /\ answerDue \in BOOLEAN /\ copyPing \in BOOLEAN
  /\ central \in {"idle", "leave", "forget", "clear", "fetch", "filling"}

(* tMain has asked the central server for its list.                        *)
NetworkInit ==
  /\ serverLists \in Worlds
  /\ gameServers \in serverLists \cup {{}}
  /\ gameServerId = None /\ established = FALSE /\ gamePing = FALSE /\ pings = {}
  /\ answerDue = FALSE /\ copyPing = FALSE
  /\ central = "idle"

(* The lists read to the end, or to an entry that does not parse.          *)
PartsOfLists == UNION {SUBSET list : list \in serverLists}

(* g_gameServerMutex, as far as a menu can meet it.                        *)
ServersUnlocked == central # "filling"

(* Faulty: also noted for a server without an id.                          *)
PingsWithNone == IF established THEN pings \cup {gameServerId} ELSE pings

(* disconnect: the ping goes back among those of the unconnected servers.  *)
PingsAfterDisconnect ==
  IF ~established \/ gameServerId = None THEN pings
  ELSE IF gamePing THEN pings \cup {gameServerId} ELSE pings \ {gameServerId}

LeaveServer ==
  /\ pings' = PingsAfterDisconnect
  /\ established' = FALSE /\ gamePing' = FALSE

Disconnect ==
  /\ ServersUnlocked
  /\ LeaveServer
  /\ gameServerId' = None
  /\ UNCHANGED <<serverLists, gameServers, answerDue, copyPing, central>>

(* connectToServer leaves the old server first.  The address may be bad.   *)
ConnectToServer(s) ==
  /\ ServersUnlocked
  /\ LeaveServer
  /\ \/ /\ s \in gameServers
        /\ gameServerId' = s /\ answerDue' = TRUE
     \/ gameServerId' = None /\ UNCHANGED answerDue
  /\ UNCHANGED <<serverLists, gameServers, copyPing, central>>

-----------------------------------------------------------------------------
(* tRecv.  A CheckedIn may also come after the user has left again.        *)
CheckedIn ==
  /\ answerDue /\ ~copyPing
  /\ answerDue' = FALSE
  /\ established' = TRUE
  /\ copyPing' = TRUE
  /\ UNCHANGED <<serverLists, gameServers, gameServerId, gamePing, pings, central>>

CopyPing ==
  /\ copyPing
  /\ copyPing' = FALSE
  /\ gamePing' = (gamePing \/ gameServerId \in pings)
  /\ UNCHANGED <<serverLists, gameServers, gameServerId, established, pings, answerDue, central>>

KeepaliveResponse ==
  /\ established /\ ~copyPing
  /\ gamePing' = TRUE
  /\ UNCHANGED <<serverLists, gameServers, gameServerId, established, pings, answerDue,
                 copyPing, central>>

PingResponse(s) ==
  /\ ~copyPing
  /\ pings' = pings \cup {s}
  /\ UNCHANGED <<serverLists, gameServers, gameServerId, established, gamePing, answerDue,
                 copyPing, central>>

(* The server, the keepalive timeout or the loss of the account ends it.   *)
LoseConnection == gameServerId # None /\ Disconnect

-----------------------------------------------------------------------------
(* tMain: at the main menu, connect to the server of the last session.     *)
MenuLayerEntry(s) ==
  /\ central = "idle" /\ gameServerId = None
  /\ ConnectToServer(s)

(* tMain: NMCentralServerChanged.                                          *)
CentralServerChanged ==
  /\ central = "idle"
  /\ central' = IF established THEN "leave" ELSE "forget"
  /\ UNCHANGED <<serverLists, gameServers, gameServerId, established, gamePing, pings,
                 answerDue, copyPing>>

LeaveForCentral ==
  /\ central = "leave"
  /\ LeaveServer
  /\ gameServerId' = None
  /\ central' = "forget"
  /\ UNCHANGED <<serverLists, gameServers, answerDue, copyPing>>

ForgetPings ==
  /\ central = "forget"
  /\ pings' = {}
  /\ central' = "clear"
  /\ UNCHANGED <<serverLists, gameServers, gameServerId, established, gamePing, answerDue, copyPing>>

ClearServers ==
  /\ central = "clear"
  /\ gameServers' = {}
  /\ central' = "fetch"
  /\ UNCHANGED <<serverLists, gameServerId, established, gamePing, pings, answerDue, copyPing>>

(* updateGameServers: cleared and filled while the mutex is held; when the *)
(* central server cannot be used, the list stays as it is.                 *)
FetchServers ==
  /\ central = "fetch"
  /\ \/ central' = "filling" /\ gameServers' = {}
     \/ central' = "idle" /\ UNCHANGED gameServers
  /\ UNCHANGED <<serverLists, gameServerId, established, gamePing, pings, answerDue, copyPing>>

FillServers ==
  /\ central = "filling"
  /\ gameServers' \in PartsOfLists
  /\ central' = "idle"
  /\ UNCHANGED <<serverLists, gameServerId, established, gamePing, pings, answerDue, copyPing>>

NetworkStep ==
  \/ CheckedIn \/ CopyPing \/ KeepaliveResponse
  \/ \E s \in UNION serverLists : PingResponse(s)
  \/ LoseConnection
  \/ LeaveForCentral \/ ForgetPings \/ ClearServers \/ FetchServers \/ FillServers
=============================================================================
