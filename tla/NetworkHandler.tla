--------------------------- MODULE NetworkHandler ---------------------------
(***************************************************************************)
(* The connection of a Globed client (src/net/network_handler.cpp) and the *)
(* servers at its other end.                                               *)
(*                                                                         *)
(* Four threads work on one UDP socket: the game's UI thread, which        *)
(* connects and disconnects; the main thread, which handles the messages   *)
(* of g_netMsgQueue; the receiving thread; and the keepalive thread.  The  *)
(* flags connected and established, the address destAddr_ and the globals  *)
(* have no lock of their own: g_gameServerMutex is held by connectToServer *)
(* and disconnect for a part of their work, sendMutex while a datagram is  *)
(* sent.  An action is what a thread does up to the next lock, datagram or *)
(* read of something another thread writes.                                *)
(*                                                                         *)
(* Datagrams may be delayed, overtaken by those of other servers, dropped  *)
(* (with Loss) and delivered again (with Duplication); otherwise those of  *)
(* one server keep their order.  A server is what server/game/src makes of *)
(* this one client: it has a session of it or not, and answers each kind   *)
(* of packet accordingly.                                                  *)
(***************************************************************************)
EXTENDS Naturals, FiniteSets, Functions, SequencesExt

CONSTANTS
  Servers,      \* the central server's list of game servers
  Unreachable,  \* those among them whose address inet_pton does not take
  PingIds,      \* bound: the random ping ids that are drawn
  MaxCommands,  \* bound: how often the UI thread connects or disconnects
  MaxMessages,  \* bound: how many messages are taken from g_netMsgQueue
  MaxPending,   \* bound: datagrams on the way to or from one server
  Messages,     \* the messages of g_netMsgQueue that occur
  Loss,         \* may datagrams get lost?
  Duplication,  \* may datagrams be delivered more than once?
  Silence,      \* can the 15 seconds without an answer elapse?
  None          \* no server: the empty server id, an address nobody has

MessageKinds == {"CentralServerChanged", "MenuLayerEntry", "PingServers", "Game"}

ASSUME ServersFinite == IsFiniteSet(Servers) /\ None \notin Servers
ASSUME UnreachableAreServers == Unreachable \subseteq Servers
ASSUME BoundsNatural == {MaxCommands, MaxMessages, MaxPending} \subseteq Nat
ASSUME MessagesKnown == Messages \subseteq MessageKinds
ASSUME NetworkSwitches == {Loss, Duplication, Silence} \subseteq BOOLEAN

Threads == {"ui", "main", "recv", "keepalive"}

VARIABLES
  connected,      \* gameSocket.connected
  established,    \* gameSocket.established
  destAddr,       \* destAddr_: the server it is the address of, or None
  pingTimes,      \* gameSocket.pingTimes: ping id -> server
  gameServerId,   \* g_gameServerId, None for ""
  gameServers,    \* g_gameServers
  lastHeartbeat,  \* g_gameServerLastHeartbeat: "zero", "recent" or "old"
  lastServerId,   \* the saved value last-server-id, None for ""
  pc,             \* what each thread does next
  call,           \* the arguments of each thread's disconnect or connect
  packet,         \* the datagram the receiving thread handles
  ping,           \* tMain's pings: servers to do, the current one, and
                  \*   prevAddress, when there is one to restore
  commands, messages,     \* how many there were
  toServer, toClient,     \* the datagrams on the way
  session,        \* the servers that know this client
  crossed,        \* history: did the last connect or disconnect of the socket
                  \*   fall into the time for which a ping borrows it?
  answered        \* history: the pings of which an answer was handled

socket == <<connected, established, destAddr, pingTimes>>
globals == <<gameServerId, gameServers, lastHeartbeat, lastServerId>>
threads == <<pc, call, packet, ping>>
counts == <<commands, messages>>
network == <<toServer, toClient, session>>
history == <<crossed, answered>>
vars == <<connected, established, destAddr, pingTimes, gameServerId,
          gameServers, lastHeartbeat, lastServerId, pc, call, packet, ping,
          commands, messages, toServer, toClient, session, crossed,
          answered>>

Labels == {"idle", "disconnect", "farewell", "drop", "reset", "connect",
           "name", "check_in", "handle", "heartbeat_check", "clear_servers",
           "fetch_servers", "ping_list", "ping", "ping_check",
           "ping_connect", "ping_send", "ping_restore"}

(* want: the server connectToServer goes on with after its disconnect.     *)
(* then: where the thread goes on after that.                              *)
Calls == [quiet : BOOLEAN, save : BOOLEAN, want : Servers \cup {None},
          then : {"idle", "clear_servers"}]

NoCall == [quiet |-> FALSE, save |-> FALSE, want |-> None, then |-> "idle"]
NoPing == [todo |-> {}, server |-> None, id |-> None, prev |-> {}]

Requests == [kind : {"CheckIn", "Disconnect", "Keepalive", "Game"}]
            \cup [kind : {"Ping"}, ping : PingIds]
Answers == [kind : {"CheckedIn", "KeepaliveResponse", "ServerDisconnect",
                    "GameResponse"}]
           \cup [kind : {"PingResponse"}, ping : PingIds]

(* tMain has asked the central server for its list, and got it or not.     *)
Init ==
  /\ connected = FALSE /\ established = FALSE /\ destAddr = None
  /\ pingTimes = [p \in {} |-> None]
  /\ gameServerId = None /\ gameServers \in {{}, Servers} /\ lastHeartbeat = "zero"
  /\ lastServerId \in Servers \cup {None}
  /\ pc = [th \in Threads |-> "idle"]
  /\ call = [th \in Threads |-> NoCall]
  /\ packet = None
  /\ ping = NoPing
  /\ commands = 0 /\ messages = 0
  /\ toServer = [s \in Servers |-> <<>>]
  /\ toClient = [s \in Servers |-> <<>>]
  /\ session = {}
  /\ crossed = FALSE /\ answered = {}

-----------------------------------------------------------------------------
(* Locks and datagrams.                                                    *)
Goto(th, label) == pc' = [pc EXCEPT ![th] = label]

(* A disconnect or connect is over.                                        *)
Return(th, label) == Goto(th, label) /\ call' = [call EXCEPT ![th] = NoCall]

(* Faulty: nothing is locked.                                              *)
NoGameServerMutex == TRUE

GameServerMutexFree ==
  \A th \in Threads : pc[th] \notin {"reset", "name", "check_in"}

(* sendAllTo has read the flag of the socket and has not restored it yet.  *)
PingBorrowsSocket ==
  pc["main"] \in {"ping_connect", "ping_send", "ping_restore"}

(* sendPingTo holds sendMutex meanwhile.                                   *)
SendMutexFree == ~PingBorrowsSocket

(* UDP: what is sent to nobody or to a full queue is gone, and with Loss   *)
(* anything may be.                                                        *)
Queued(queue, m) ==
  {IF Len(queue) < MaxPending THEN Append(queue, m) ELSE queue}
  \cup (IF Loss THEN {queue} ELSE {})

(* What stays of a queue whose first datagram is delivered: with           *)
(* Duplication it can be delivered again.                                  *)
Delivered(queue) ==
  {Tail(queue)} \cup (IF Duplication THEN {queue} ELSE {})

SendTo(s, m) ==
  \/ s \in Servers /\ \E queue \in Queued(toServer[s], m) :
                         toServer' = [toServer EXCEPT ![s] = queue]
  \/ s \notin Servers /\ UNCHANGED toServer

Send(kind) == SendMutexFree /\ SendTo(destAddr, [kind |-> kind])

(* UdpSocket::connect, in a socket whose connection flag it sets.  Of an   *)
(* address inet_pton does not take, only the port is stored.               *)
ConnectTo(s) ==
  IF s \in Unreachable
  THEN destAddr' = None /\ UNCHANGED connected
  ELSE destAddr' = s /\ connected' = TRUE

-----------------------------------------------------------------------------
(* disconnect(quiet, save), called by every thread.                        *)
CallDisconnect(th, quiet, save, want, then) ==
  /\ call' = [call EXCEPT ![th] = [quiet |-> quiet, save |-> save,
                                   want |-> want, then |-> then]]
  /\ Goto(th, "disconnect")

ClearSaved(th) ==
  lastServerId' = IF call[th].save THEN None ELSE lastServerId

(* The first half: the flag is read, the id of the last server cleared.    *)
Disconnect(th) ==
  /\ pc[th] = "disconnect"
  /\ \/ /\ ~call[th].quiet /\ connected
        /\ Goto(th, "farewell")
        /\ UNCHANGED lastServerId
     \/ /\ call[th].quiet \/ ~connected
        /\ Goto(th, "drop")
        /\ ClearSaved(th)
  /\ UNCHANGED <<socket, gameServerId, gameServers, lastHeartbeat, call,
                 packet, ping, counts, network, history>>

Farewell(th) ==
  /\ pc[th] = "farewell"
  /\ Send("Disconnect")
  /\ ClearSaved(th)
  /\ Goto(th, "drop")
  /\ UNCHANGED <<socket, gameServerId, gameServers, lastHeartbeat, call,
                 packet, ping, counts, toClient, session, history>>

(* The second half takes g_gameServerMutex, disconnects the socket ...     *)
Drop(th) ==
  /\ pc[th] = "drop"
  /\ GameServerMutexFree
  /\ connected' = FALSE /\ established' = FALSE
  /\ crossed' = PingBorrowsSocket
  /\ Goto(th, "reset")
  /\ UNCHANGED <<destAddr, pingTimes, globals, call, packet, ping, counts,
                 network, answered>>

(* ... and resets the globals.  connectToServer goes on without the mutex. *)
Reset(th) ==
  /\ pc[th] = "reset"
  /\ lastHeartbeat' = "zero" /\ gameServerId' = None
  /\ \/ call[th].want # None /\ Goto(th, "connect") /\ UNCHANGED call
     \/ call[th].want = None /\ Return(th, call[th].then)
  /\ UNCHANGED <<socket, gameServers, lastServerId, packet, ping, counts,
                 network, history>>

(* connectToServer after its disconnect: g_gameServerMutex is taken here   *)
(* and given up after the check-in.                                        *)
Connect(th) ==
  /\ pc[th] = "connect"
  /\ GameServerMutexFree
  /\ \/ /\ call[th].want \in gameServers
        /\ ConnectTo(call[th].want)
        /\ IF call[th].want \in Unreachable
           THEN Return(th, "idle") /\ UNCHANGED crossed
           ELSE /\ Goto(th, "name") /\ UNCHANGED call
                /\ crossed' = PingBorrowsSocket
     \/ /\ call[th].want \notin gameServers
        /\ Return(th, "idle")
        /\ UNCHANGED <<destAddr, connected, crossed>>
  /\ UNCHANGED <<established, pingTimes, globals, packet, ping, counts,
                 network, answered>>

Name(th) ==
  /\ pc[th] = "name"
  /\ gameServerId' = call[th].want
  /\ Goto(th, "check_in")
  /\ UNCHANGED <<socket, gameServers, lastHeartbeat, lastServerId, call,
                 packet, ping, counts, network, history>>

CheckIn(th) ==
  /\ pc[th] = "check_in"
  /\ Send("CheckIn")
  /\ lastServerId' = call[th].want
  /\ Return(th, "idle")
  /\ UNCHANGED <<socket, gameServerId, gameServers, lastHeartbeat, packet,
                 ping, counts, toClient, session, history>>

-----------------------------------------------------------------------------
(* The UI thread: the button of a server's cell.  The cell can be of a     *)
(* server that is no longer listed.                                        *)
OnConnect ==
  /\ pc["ui"] = "idle"
  /\ commands < MaxCommands
  /\ commands' = commands + 1
  /\ \/ CallDisconnect("ui", FALSE, TRUE, None, "idle")
     \/ \E s \in Servers : CallDisconnect("ui", FALSE, FALSE, s, "idle")
  /\ UNCHANGED <<socket, globals, packet, ping, messages, network, history>>

-----------------------------------------------------------------------------
(* The main thread: one message of g_netMsgQueue after the other.          *)
PopMessage(kind) ==
  /\ pc["main"] = "idle"
  /\ kind \in Messages
  /\ messages < MaxMessages
  /\ messages' = messages + 1

CentralServerChanged ==
  /\ PopMessage("CentralServerChanged")
  /\ \/ established /\ CallDisconnect("main", FALSE, TRUE, None, "clear_servers")
     \/ ~established /\ Goto("main", "clear_servers") /\ UNCHANGED call
  /\ UNCHANGED <<socket, globals, packet, ping, commands, network, history>>

ClearServers ==
  /\ pc["main"] = "clear_servers"
  /\ GameServerMutexFree
  /\ gameServers' = {}
  /\ Goto("main", "fetch_servers")
  /\ UNCHANGED <<socket, gameServerId, lastHeartbeat, lastServerId, call,
                 packet, ping, counts, network, history>>

(* testCentralServer: there is a new list, none, or the part of one before *)
(* the entry that does not parse.                                          *)
FetchServers ==
  /\ pc["main"] = "fetch_servers"
  /\ GameServerMutexFree
  /\ gameServers' \in SUBSET Servers
  /\ Goto("main", "ping_list")
  /\ UNCHANGED <<socket, gameServerId, lastHeartbeat, lastServerId, call,
                 packet, ping, counts, network, history>>

(* The account id is 0 when the player is not signed in.                   *)
MenuLayerEntry ==
  /\ PopMessage("MenuLayerEntry")
  /\ \/ CallDisconnect("main", TRUE, TRUE, None, "idle")
     \/ /\ lastServerId # None /\ ~connected
        /\ CallDisconnect("main", FALSE, FALSE, lastServerId, "idle")
     \/ /\ lastServerId = None \/ connected
        /\ UNCHANGED <<pc, call>>
  /\ UNCHANGED <<socket, globals, packet, ping, commands, network, history>>

PingServers ==
  /\ PopMessage("PingServers")
  /\ Goto("main", "ping_list")
  /\ UNCHANGED <<socket, globals, call, packet, ping, commands, network,
                 history>>

(* Level entry, exit and data, requests and chat, while established.       *)
GameMessage ==
  /\ PopMessage("Game")
  /\ \/ established /\ Send("Game")
     \/ ~established /\ UNCHANGED toServer
  /\ UNCHANGED <<socket, globals, threads, commands, toClient, session,
                 history>>

(* Faulty: the pings of the last round are forgotten.                      *)
PingListAfresh ==
  /\ pc["main"] = "ping_list"
  /\ GameServerMutexFree
  /\ pingTimes' = [p \in {} |-> None]
  /\ ping' = [ping EXCEPT !.todo = gameServers \ {gameServerId}]
  /\ Goto("main", "ping")
  /\ UNCHANGED <<connected, established, destAddr, globals, call, packet,
                 counts, network, history>>

(* pingAllServers: the servers to ping are listed under the mutex.         *)
PingList ==
  /\ pc["main"] = "ping_list"
  /\ GameServerMutexFree
  /\ ping' = [ping EXCEPT !.todo = gameServers \ {gameServerId}]
  /\ Goto("main", "ping")
  /\ UNCHANGED <<socket, globals, call, packet, counts, network, history>>

(* Faulty: the id of the connected server is noted.                        *)
SendPingNotingCurrent(s, id) ==
  /\ pc["main"] = "ping"
  /\ s \in ping.todo
  /\ pingTimes' = [p \in DOMAIN pingTimes \cup {id} |->
                     IF p = id THEN gameServerId ELSE pingTimes[p]]
  /\ answered' = answered \ {id}
  /\ ping' = [ping EXCEPT !.todo = @ \ {s}, !.server = s, !.id = id]
  /\ Goto("main", "ping_check")
  /\ UNCHANGED <<connected, established, destAddr, globals, call, packet,
                 counts, network, crossed>>

(* sendPingTo draws an id and notes it, before it waits for sendMutex.     *)
SendPingTo(s, id) ==
  /\ pc["main"] = "ping"
  /\ s \in ping.todo
  /\ pingTimes' = [p \in DOMAIN pingTimes \cup {id} |->
                     IF p = id THEN s ELSE pingTimes[p]]
  /\ answered' = answered \ {id}
  /\ ping' = [ping EXCEPT !.todo = @ \ {s}, !.server = s, !.id = id]
  /\ Goto("main", "ping_check")
  /\ UNCHANGED <<connected, established, destAddr, globals, call, packet,
                 counts, network, crossed>>

(* The ids drawn are fresh; when the bound has none left, no more pings.   *)
FreshIds == {id \in PingIds :
               /\ id \notin DOMAIN pingTimes
               /\ \A s \in Servers : \A m \in Range(toServer[s]) \cup Range(toClient[s]) :
                    "ping" \in DOMAIN m => m.ping # id
               /\ packet # None /\ "ping" \in DOMAIN packet => packet.ping # id}

PingsDone ==
  /\ pc["main"] = "ping"
  /\ ping.todo = {} \/ FreshIds = {}
  /\ ping' = NoPing
  /\ Goto("main", "idle")
  /\ UNCHANGED <<socket, globals, call, packet, counts, network, history>>

(* sendAllTo: the flag is read, the address changed, the ping sent and the *)
(* address restored, or the socket disconnected (GameSocket::disconnect).  *)
PingCheck ==
  /\ pc["main"] = "ping_check"
  /\ ping' = [ping EXCEPT !.prev = IF connected THEN {destAddr} ELSE {}]
  /\ Goto("main", "ping_connect")
  /\ UNCHANGED <<socket, globals, call, packet, counts, network, history>>

PingConnect ==
  /\ pc["main"] = "ping_connect"
  /\ ConnectTo(ping.server)
  /\ Goto("main", "ping_send")
  /\ UNCHANGED <<established, pingTimes, globals, call, packet, ping, counts,
                 network, history>>

PingSend ==
  /\ pc["main"] = "ping_send"
  /\ SendTo(destAddr, [kind |-> "Ping", ping |-> ping.id])
  /\ Goto("main", "ping_restore")
  /\ UNCHANGED <<socket, globals, call, packet, ping, counts, toClient,
                 session, history>>

PingRestore ==
  /\ pc["main"] = "ping_restore"
  /\ \/ /\ destAddr' \in ping.prev
        /\ UNCHANGED <<connected, established>>
     \/ /\ ping.prev = {}
        /\ connected' = FALSE /\ established' = FALSE
        /\ UNCHANGED destAddr
  /\ ping' = [NoPing EXCEPT !.todo = ping.todo]
  /\ Goto("main", "ping")
  /\ UNCHANGED <<pingTimes, globals, call, packet, counts, network, history>>

-----------------------------------------------------------------------------
(* The receiving thread.  recvfrom stores the sender's address in          *)
(* destAddr_; the packet is handled after that.                            *)
Receive(s) ==
  /\ pc["recv"] = "idle"
  /\ toClient[s] # <<>>
  /\ packet' = Head(toClient[s])
  /\ \E rest \in Delivered(toClient[s]) : toClient' = [toClient EXCEPT ![s] = rest]
  /\ destAddr' = s
  /\ Goto("recv", "handle")
  /\ UNCHANGED <<connected, established, pingTimes, globals, call, ping,
                 counts, toServer, session, history>>

Handle(kind) ==
  /\ pc["recv"] = "handle"
  /\ packet.kind = kind
  /\ packet' = None

HandleCheckedIn ==
  /\ Handle("CheckedIn")
  /\ established' = TRUE
  /\ Goto("recv", "idle")
  /\ UNCHANGED <<connected, destAddr, pingTimes, globals, call, ping, counts,
                 network, history>>

HandleKeepaliveResponse ==
  /\ Handle("KeepaliveResponse")
  /\ lastHeartbeat' = "recent"
  /\ Goto("recv", "idle")
  /\ UNCHANGED <<socket, gameServerId, gameServers, lastServerId, call, ping,
                 counts, network, history>>

(* The server's name is looked up for the message, under the mutex.        *)
HandleServerDisconnect ==
  /\ Handle("ServerDisconnect")
  /\ GameServerMutexFree
  /\ CallDisconnect("recv", TRUE, TRUE, None, "idle")
  /\ UNCHANGED <<socket, globals, ping, counts, network, history>>

(* pingTimes.at throws when the id is not there: the answer is dropped,    *)
(* with a warning when connected.                                          *)
HandlePingResponse ==
  /\ Handle("PingResponse")
  /\ \/ /\ packet.ping \in DOMAIN pingTimes
        /\ pingTimes' = Restrict(pingTimes, DOMAIN pingTimes \ {packet.ping})
        /\ answered' = answered \cup {packet.ping}
     \/ /\ packet.ping \notin DOMAIN pingTimes
        /\ UNCHANGED <<pingTimes, answered>>
  /\ Goto("recv", "idle")
  /\ UNCHANGED <<connected, established, destAddr, globals, call, ping, counts,
                 network, crossed>>

(* LevelData and the other answers change nothing of the connection.       *)
HandleGameResponse ==
  /\ Handle("GameResponse")
  /\ Goto("recv", "idle")
  /\ UNCHANGED <<socket, globals, call, ping, counts, network, history>>

-----------------------------------------------------------------------------
(* The keepalive thread.                                                   *)
Heartbeat ==
  /\ pc["keepalive"] = "idle"
  /\ established
  /\ Send("Keepalive")
  /\ Goto("keepalive", "heartbeat_check")
  /\ UNCHANGED <<socket, globals, call, packet, ping, counts, toClient,
                 session, history>>

(* Faulty: the answers are not looked at.                                  *)
CheckNothing ==
  /\ pc["keepalive"] = "heartbeat_check"
  /\ Goto("keepalive", "idle")
  /\ UNCHANGED <<socket, globals, call, packet, ping, counts, network,
                 history>>

CheckHeartbeat ==
  /\ pc["keepalive"] = "heartbeat_check"
  /\ \/ lastHeartbeat = "old" /\ CallDisconnect("keepalive", TRUE, TRUE, None, "idle")
     \/ lastHeartbeat # "old" /\ Goto("keepalive", "idle") /\ UNCHANGED call
  /\ UNCHANGED <<socket, globals, packet, ping, counts, network, history>>

FifteenSecondsPass ==
  /\ Silence
  /\ lastHeartbeat = "recent"
  /\ lastHeartbeat' = "old"
  /\ UNCHANGED <<socket, gameServerId, gameServers, lastServerId, threads,
                 counts, network, history>>

-----------------------------------------------------------------------------
(* A server, one client's view: handle_packet answers a packet of a client *)
(* it does not know, a check-in of one it knows and, when it is full, any  *)
(* check-in with ServerDisconnect.                                         *)
Answer(s, m, kind) ==
  LET answer == IF m.kind = "Ping" THEN [kind |-> kind, ping |-> m.ping]
                ELSE [kind |-> kind]
  IN  \E queue \in Queued(toClient[s], answer) :
        toClient' = [toClient EXCEPT ![s] = queue]

Serve(s) ==
  LET m == Head(toServer[s]) IN
  /\ toServer[s] # <<>>
  /\ \E rest \in Delivered(toServer[s]) : toServer' = [toServer EXCEPT ![s] = rest]
  /\ \/ /\ m.kind = "CheckIn" /\ s \notin session
        /\ session' = session \cup {s}
        /\ Answer(s, m, "CheckedIn")
     \/ /\ m.kind = "Disconnect" /\ s \in session
        /\ session' = session \ {s}
        /\ UNCHANGED toClient
     \/ /\ m.kind = "Keepalive" /\ s \in session
        /\ Answer(s, m, "KeepaliveResponse")
        /\ UNCHANGED session
     \/ /\ m.kind = "Game" /\ s \in session
        /\ Answer(s, m, "GameResponse") \/ UNCHANGED toClient
        /\ UNCHANGED session
     \/ /\ m.kind = "Ping"
        /\ Answer(s, m, "PingResponse")
        /\ UNCHANGED session
     \/ /\ m.kind # "Ping"
        /\ m.kind = "CheckIn" \/ s \notin session
        /\ Answer(s, m, "ServerDisconnect")
        /\ UNCHANGED session
  /\ UNCHANGED <<socket, globals, threads, counts, history>>

(* remove_dead_clients, or a restart of the server.                        *)
ForgetClient(s) ==
  /\ Silence
  /\ s \in session
  /\ session' = session \ {s}
  /\ UNCHANGED <<socket, globals, threads, counts, toServer, toClient,
                 history>>

-----------------------------------------------------------------------------
Ui == OnConnect

Main ==
  \/ CentralServerChanged \/ ClearServers \/ FetchServers
  \/ MenuLayerEntry \/ PingServers \/ GameMessage
  \/ PingList \/ PingsDone
  \/ \E s \in Servers, id \in FreshIds : SendPingTo(s, id)
  \/ PingCheck \/ PingConnect \/ PingSend \/ PingRestore

Recv ==
  \/ \E s \in Servers : Receive(s)
  \/ HandleCheckedIn \/ HandleKeepaliveResponse \/ HandleServerDisconnect
  \/ HandlePingResponse \/ HandleGameResponse

Keepalive == Heartbeat \/ CheckHeartbeat

ConnectionStep(th) ==
  \/ Disconnect(th) \/ Farewell(th) \/ Drop(th) \/ Reset(th)
  \/ Connect(th) \/ Name(th) \/ CheckIn(th)

Environment ==
  \/ FifteenSecondsPass
  \/ \E s \in Servers : ForgetClient(s)

ServersAnswer == \E s \in Servers : Serve(s)

Next ==
  \/ Ui \/ Main \/ Recv \/ Keepalive
  \/ \E th \in Threads : ConnectionStep(th)
  \/ Environment
  \/ ServersAnswer

Spec == Init /\ [][Next]_vars

(* The threads are scheduled, time passes, and a server that is reached    *)
(* answers.  Nothing makes the player act, and no datagram has to arrive.  *)
Fairness ==
  /\ WF_vars(Main /\ pc["main"] # "idle")
  /\ WF_vars(Recv)
  /\ WF_vars(Keepalive)
  /\ \A th \in Threads : WF_vars(ConnectionStep(th))
  /\ WF_vars(ServersAnswer)
  /\ WF_vars(FifteenSecondsPass)

FairSpec == Spec /\ Fairness
=============================================================================
