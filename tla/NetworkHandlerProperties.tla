---------------------- MODULE NetworkHandlerProperties ----------------------
(***************************************************************************)
(* What should hold of a client's connection, modelled in NetworkHandler.  *)
(***************************************************************************)
EXTENDS NetworkHandler

(* Types.  An address is that of a known server or of nobody: no thread    *)
(* leaves a half-written one behind.                                       *)
TypeOK ==
  /\ {connected, established} \subseteq BOOLEAN
  /\ destAddr \in Servers \cup {None}
  /\ DOMAIN pingTimes \subseteq PingIds
  /\ pingTimes \in [DOMAIN pingTimes -> Servers]
  /\ gameServerId \in Servers \cup {None}
  /\ gameServers \subseteq Servers
  /\ lastHeartbeat \in {"zero", "recent", "old"}
  /\ lastServerId \in Servers \cup {None}
  /\ pc \in [Threads -> Labels]
  /\ call \in [Threads -> Calls]
  /\ packet \in Answers \cup {None}
  /\ ping.todo \subseteq Servers
  /\ ping.server \in Servers \cup {None}
  /\ ping.id \in PingIds \cup {None}
  /\ ping.prev \subseteq Servers \cup {None}
  /\ commands \in 0..MaxCommands /\ messages \in 0..MaxMessages
  /\ toServer \in [Servers -> Seq(Requests)]
  /\ toClient \in [Servers -> Seq(Answers)]
  /\ session \subseteq Servers
  /\ crossed \in BOOLEAN
  /\ answered \subseteq PingIds

Idle == \A th \in Threads : pc[th] = "idle"

(* The server that the next start of the game connects to is the one the   *)
(* client is connected to now, although disconnect clears last-server-id   *)
(* before it takes the mutex, and four threads connect and disconnect.     *)
SavedServerIsCurrent ==
  Idle /\ gameServerId # None => lastServerId = gameServerId

(* The socket's flag and the global agree, once nobody is at work on them: *)
(* the client is connected when it has the id of a server, and only then.  *)
(* Four threads write them, and a ping borrows the socket and sets or      *)
(* clears its flag (sendAllTo).  The one thing that makes them differ is a *)
(* connect or disconnect that falls into a ping; the next one that does    *)
(* not puts it right.                                                      *)
ConnectedToSomeServer ==
  Idle /\ ~crossed => (connected <=> gameServerId # None)

(* pingTimes.at(pingId) in recvPacket finds what sendPingTo has noted: no  *)
(* answer to a ping arrives before its id is known or after it is gone.    *)
(* Only a ping or an answer that is delivered twice can miss, when another *)
(* answer to the same ping was handled before.                             *)
PingAnswersKnown ==
  \A s \in Servers : \A m \in Range(toServer[s]) \cup Range(toClient[s]) \cup {packet} :
    m # None /\ m.kind \in {"Ping", "PingResponse"} =>
      \/ m.ping \in DOMAIN pingTimes
      \/ Duplication /\ m.ping \in answered

(* A server that has lost the session, because it has removed the client   *)
(* or was restarted, is left in the end although any datagram may be lost, *)
(* its ServerDisconnect too: the keepalive thread sees to it, provided the *)
(* server has answered a heartbeat before.                                 *)
SessionLost ==
  established /\ lastHeartbeat # "zero" /\ destAddr \in Servers \ session

LostSessionLeft == SessionLost ~> ~SessionLost

(* "Keepalives are for actually keeping the connection alive": the         *)
(* keepalive thread's packets go to the server the client is connected to. *)
KeepalivesReachServer ==
  [][pc["keepalive"] = "idle" /\ pc'["keepalive"] = "heartbeat_check"
       /\ gameServerId # None
     => destAddr = gameServerId]_vars
=============================================================================
