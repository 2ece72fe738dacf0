------------------------ MODULE NetworkHandlerProofs ------------------------
(***************************************************************************)
(* Proofs about NetworkHandler, for all lists of servers, all bounds, with *)
(* or without losses and duplicates.                                       *)
(***************************************************************************)
EXTENDS NetworkHandlerProperties, SequenceTheorems, TLAPS

-----------------------------------------------------------------------------
(* Types.  The ping that is being sent has a drawn id.                     *)
Pings == [todo : SUBSET Servers, server : Servers \cup {None},
          id : PingIds \cup {None},
          prev : SUBSET (Servers \cup {None})]

Unsent == pc["main"] \in {"ping_check", "ping_connect", "ping_send"}

TypeInv == TypeOK /\ ping \in Pings /\ (Unsent => ping.id \in PingIds)

LEMMA SendTyped ==
  ASSUME toServer \in [Servers -> Seq(Requests)], NEW s, NEW m \in Requests,
         SendTo(s, m)
  PROVE  toServer' \in [Servers -> Seq(Requests)]
<1>1. CASE s \in Servers
  <2>1. Append(toServer[s], m) \in Seq(Requests)
    BY <1>1, AppendProperties
  <2> QED
    BY <1>1, <2>1 DEF SendTo, Queued
<1>2. CASE s \notin Servers
  BY <1>2 DEF SendTo
<1> QED
  BY <1>1, <1>2

LEMMA AnswerTyped ==
  ASSUME toClient \in [Servers -> Seq(Answers)], NEW s \in Servers,
         NEW m \in Requests, NEW kind, Answer(s, m, kind),
         \/ m.kind = "Ping" /\ kind = "PingResponse"
         \/ m.kind # "Ping" /\ kind \in {"CheckedIn", "KeepaliveResponse",
                                         "ServerDisconnect", "GameResponse"}
  PROVE  toClient' \in [Servers -> Seq(Answers)]
<1> DEFINE answer == IF m.kind = "Ping" THEN [kind |-> kind, ping |-> m.ping]
                     ELSE [kind |-> kind]
<1>1. answer \in Answers
  <2>1. CASE m.kind = "Ping"
    <3>1. m \in [kind : {"Ping"}, ping : PingIds]
      BY <2>1 DEF Requests
    <3> QED
      BY <2>1, <3>1 DEF Answers
  <2>2. CASE m.kind # "Ping"
    BY <2>2 DEF Answers
  <2> QED
    BY <2>1, <2>2
<1>2. Append(toClient[s], answer) \in Seq(Answers)
  BY <1>1, AppendProperties
<1>3. PICK queue \in Queued(toClient[s], answer) :
        toClient' = [toClient EXCEPT ![s] = queue]
  BY DEF Answer
<1>4. queue \in Seq(Answers)
  BY <1>2, <1>3 DEF Queued
<1> QED
  BY <1>3, <1>4

LEMMA CallTyped ==
  ASSUME pc \in [Threads -> Labels], call \in [Threads -> Calls],
         NEW th \in Threads, NEW quiet \in BOOLEAN, NEW save \in BOOLEAN,
         NEW want \in Servers \cup {None}, NEW then \in {"idle", "clear_servers"},
         CallDisconnect(th, quiet, save, want, then)
  PROVE  /\ pc' \in [Threads -> Labels] /\ call' \in [Threads -> Calls]
         /\ pc'[th] = "disconnect"
         /\ \A other \in Threads \ {th} : pc'[other] = pc[other]
BY DEF CallDisconnect, Goto, Labels, Calls

LEMMA ReturnTyped ==
  ASSUME pc \in [Threads -> Labels], call \in [Threads -> Calls],
         NEW th \in Threads, NEW label \in Labels, Return(th, label)
  PROVE  /\ pc' \in [Threads -> Labels] /\ call' \in [Threads -> Calls]
         /\ pc'[th] = label
         /\ \A other \in Threads \ {th} : pc'[other] = pc[other]
<1>1. NoCall \in Calls
  BY DEF NoCall, Calls
<1> QED
  BY <1>1 DEF Return, Goto

LEMMA GotoTyped ==
  ASSUME pc \in [Threads -> Labels], NEW th \in Threads, NEW label \in Labels,
         Goto(th, label)
  PROVE  /\ pc' \in [Threads -> Labels] /\ pc'[th] = label
         /\ \A other \in Threads \ {th} : pc'[other] = pc[other]
BY DEF Goto

(* What is left of a queue of which a datagram was delivered.              *)
LEMMA DeliveredTyped ==
  ASSUME NEW S, NEW queue \in Seq(S), queue # <<>>
  PROVE  Head(queue) \in S /\ Delivered(queue) \subseteq Seq(S)
<1>1. Head(queue) \in S /\ Tail(queue) \in Seq(S)
  BY HeadTailProperties
<1> QED
  BY <1>1 DEF Delivered

LEMMA TypeInvariant == Spec => []TypeInv
<1>1. Init => TypeInv
  <2> SUFFICES ASSUME Init PROVE TypeInv
    OBVIOUS
  <2> USE DEF Init
  <2>1. pc \in [Threads -> Labels] /\ call \in [Threads -> Calls]
    BY DEF Labels, Calls, NoCall
  <2>2. ping \in Pings /\ ~Unsent
    BY DEF Pings, NoPing, Unsent, Threads
  <2>3. pingTimes \in [DOMAIN pingTimes -> Servers] /\ DOMAIN pingTimes \subseteq PingIds
    OBVIOUS
  <2>4. commands \in 0..MaxCommands /\ messages \in 0..MaxMessages
    BY BoundsNatural
  <2>5. /\ toServer \in [Servers -> Seq(Requests)]
        /\ toClient \in [Servers -> Seq(Answers)]
    BY EmptySeq
  <2> QED
    BY <2>1, <2>2, <2>3, <2>4, <2>5 DEF TypeInv, TypeOK, Pings
<1>2. TypeInv /\ [Next]_vars => TypeInv'
  <2> SUFFICES ASSUME TypeInv, [Next]_vars PROVE TypeInv'
    OBVIOUS
  <2> USE DEF TypeInv, TypeOK, Pings, Unsent, socket, globals, threads, counts,
              network, history
  <2>a. MaxCommands \in Nat /\ MaxMessages \in Nat
    BY BoundsNatural
  <2>b. {"idle", "drop", "farewell", "reset", "name", "check_in", "connect"} \subseteq Labels
    BY DEF Labels
  <2>d. PingBorrowsSocket \in BOOLEAN
    BY DEF PingBorrowsSocket
  <2>1. ASSUME NEW th \in Threads, Disconnect(th) PROVE TypeInv'
    <3>1. pc' \in [Threads -> Labels] /\ (Unsent' => Unsent)
      BY <2>1, GotoTyped, <2>b DEF Disconnect, Threads
    <3>2. lastServerId' \in Servers \cup {None}
      BY <2>1 DEF Disconnect, ClearSaved
    <3> QED
      BY <2>1, <3>1, <3>2 DEF Disconnect
  <2>2. ASSUME NEW th \in Threads, Farewell(th) PROVE TypeInv'
    <3>1. toServer' \in [Servers -> Seq(Requests)]
      BY <2>2, SendTyped DEF Farewell, Send, Requests
    <3>2. pc' \in [Threads -> Labels] /\ (Unsent' => Unsent)
      BY <2>2, GotoTyped, <2>b DEF Farewell, Threads
    <3>3. lastServerId' \in Servers \cup {None}
      BY <2>2 DEF Farewell, ClearSaved
    <3> QED
      BY <2>2, <3>1, <3>2, <3>3 DEF Farewell
  <2>3. ASSUME NEW th \in Threads, Drop(th) PROVE TypeInv'
    <3>1. pc' \in [Threads -> Labels] /\ (Unsent' => Unsent)
      BY <2>3, GotoTyped, <2>b DEF Drop, Threads
    <3>2. {connected, established, crossed}' \subseteq BOOLEAN
      BY ZenonT(40), <2>3, <2>d DEF Drop
    <3>3. UNCHANGED <<destAddr, pingTimes, globals, call, packet, ping, counts,
                      network, answered>>
      BY <2>3 DEF Drop
    <3> QED
      BY SMTT(30), <3>1, <3>2, <3>3
  <2>r. ASSUME NEW th \in Threads, Reset(th) PROVE TypeInv'
    <3>1. call[th].then \in Labels /\ call[th].then \notin
            {"ping_check", "ping_connect", "ping_send"}
      BY DEF Calls, Labels
    <3>2. /\ pc' \in [Threads -> Labels] /\ call' \in [Threads -> Calls]
          /\ pc'["main"] \in {pc["main"], "connect", call[th].then}
          /\ Unsent' => Unsent
      BY <2>r, <3>1, GotoTyped, ReturnTyped, <2>b DEF Reset, Threads
    <3> QED
      BY <2>r, <3>2 DEF Reset
  <2>4. ASSUME NEW th \in Threads, Connect(th) PROVE TypeInv'
    <3>1. /\ pc' \in [Threads -> Labels] /\ call' \in [Threads -> Calls]
          /\ Unsent' => Unsent
      BY <2>4, GotoTyped, ReturnTyped, <2>b DEF Connect, Threads
    <3>2. destAddr' \in Servers \cup {None} /\ connected' \in BOOLEAN
      BY <2>4 DEF Connect, ConnectTo
    <3>3. crossed' \in BOOLEAN
      BY ZenonT(40), <2>4, <2>d DEF Connect
    <3> QED
      BY <2>4, <3>1, <3>2, <3>3 DEF Connect
  <2>n. ASSUME NEW th \in Threads, Name(th) PROVE TypeInv'
    <3>1. pc' \in [Threads -> Labels] /\ (Unsent' => Unsent)
      BY <2>n, GotoTyped, <2>b DEF Name, Threads
    <3>2. call[th].want \in Servers \cup {None}
      BY DEF Calls
    <3> QED
      BY <2>n, <3>1, <3>2 DEF Name
  <2>5. ASSUME NEW th \in Threads, CheckIn(th) PROVE TypeInv'
    <3>1. toServer' \in [Servers -> Seq(Requests)]
      BY <2>5, SendTyped DEF CheckIn, Send, Requests
    <3>2. /\ pc' \in [Threads -> Labels] /\ call' \in [Threads -> Calls]
          /\ Unsent' => Unsent
      BY <2>5, ReturnTyped, <2>b DEF CheckIn, Threads
    <3>3. call[th].want \in Servers \cup {None}
      BY DEF Calls
    <3> QED
      BY <2>5, <3>1, <3>2, <3>3 DEF CheckIn
  <2>6. CASE OnConnect
    <3>1. /\ pc' \in [Threads -> Labels] /\ call' \in [Threads -> Calls]
          /\ Unsent' => Unsent
      BY <2>6, CallTyped DEF OnConnect, Threads
    <3>2. commands' \in 0..MaxCommands
      BY <2>6, <2>a DEF OnConnect
    <3> QED
      BY <2>6, <3>1, <3>2 DEF OnConnect
  <2>c. ASSUME NEW kind, PopMessage(kind)
        PROVE  messages' \in 0..MaxMessages /\ ~Unsent
    BY <2>c, <2>a DEF PopMessage
  <2>7. CASE CentralServerChanged
    <3>1. /\ pc' \in [Threads -> Labels] /\ call' \in [Threads -> Calls]
          /\ ~Unsent'
      BY <2>7, CallTyped, GotoTyped DEF CentralServerChanged, Threads, Labels
    <3> QED
      BY <2>7, <3>1, <2>c DEF CentralServerChanged
  <2>8. CASE ClearServers \/ FetchServers
    BY <2>8, GotoTyped DEF ClearServers, FetchServers, Threads, Labels
  <2>9. CASE MenuLayerEntry
    <3>1. /\ pc' \in [Threads -> Labels] /\ call' \in [Threads -> Calls]
          /\ ~Unsent'
      BY <2>9, <2>c, CallTyped DEF MenuLayerEntry, Threads
    <3> QED
      BY <2>9, <3>1, <2>c DEF MenuLayerEntry
  <2>10. CASE PingServers
    <3>1. pc' \in [Threads -> Labels] /\ ~Unsent'
      BY <2>10, GotoTyped DEF PingServers, Threads, Labels
    <3> QED
      BY <2>10, <3>1, <2>c DEF PingServers
  <2>11. CASE GameMessage
    <3>1. toServer' \in [Servers -> Seq(Requests)]
      BY <2>11, SendTyped DEF GameMessage, Send, Requests
    <3> QED
      BY <2>11, <3>1, <2>c DEF GameMessage
  <2>12. CASE PingList
    BY <2>12, GotoTyped DEF PingList, Threads, Labels
  <2>13. CASE PingsDone
    BY <2>13, GotoTyped DEF PingsDone, NoPing, Threads, Labels
  <2>14. ASSUME NEW s \in Servers, NEW id \in PingIds, SendPingTo(s, id)
         PROVE  TypeInv'
    BY <2>14, GotoTyped DEF SendPingTo, Threads, Labels
  <2>15. CASE PingCheck
    BY <2>15, GotoTyped DEF PingCheck, Threads, Labels
  <2>16. CASE PingConnect
    BY <2>16, GotoTyped DEF PingConnect, ConnectTo, Threads, Labels
  <2>17. CASE PingSend
    <3>1. toServer' \in [Servers -> Seq(Requests)]
      BY <2>17, SendTyped DEF PingSend, Requests
    <3> QED
      BY <2>17, <3>1, GotoTyped DEF PingSend, Threads, Labels
  <2>18. CASE PingRestore
    <3>1. pc' \in [Threads -> Labels] /\ ~Unsent'
      BY <2>18, GotoTyped DEF PingRestore, Threads, Labels
    <3>2. ping' \in Pings
      BY <2>18 DEF PingRestore, NoPing
    <3>3. destAddr' \in Servers \cup {None} /\ {connected, established}' \subseteq BOOLEAN
      <4>1. ping.prev \subseteq Servers \cup {None}
        OBVIOUS
      <4> QED
        BY <2>18, <4>1 DEF PingRestore
    <3> QED
      BY <2>18, <3>1, <3>2, <3>3 DEF PingRestore
  <2>19. ASSUME NEW s \in Servers, Receive(s) PROVE TypeInv'
    <3>1. Head(toClient[s]) \in Answers /\ Delivered(toClient[s]) \subseteq Seq(Answers)
      <4>1. toClient[s] \in Seq(Answers) /\ toClient[s] # <<>>
        BY <2>19 DEF Receive
      <4> QED
        BY ZenonT(40), <4>1, DeliveredTyped
    <3>2. toClient' \in [Servers -> Seq(Answers)]
      BY <2>19, <3>1 DEF Receive
    <3>3. pc' \in [Threads -> Labels] /\ (Unsent' => Unsent)
      BY <2>19, GotoTyped DEF Receive, Threads, Labels
    <3>4. packet' \in Answers /\ destAddr' \in Servers
      BY <2>19, <3>1 DEF Receive
    <3>5. UNCHANGED <<connected, established, pingTimes, globals, call, ping,
                      counts, toServer, session, history>>
      BY <2>19 DEF Receive
    <3> QED
      BY SMTT(30), <3>2, <3>3, <3>4, <3>5
  <2>20. CASE HandleCheckedIn \/ HandleKeepaliveResponse \/ HandleGameResponse
    BY ZenonT(40), <2>20, GotoTyped
    DEF HandleCheckedIn, HandleKeepaliveResponse, HandleGameResponse, Handle,
        Threads, Labels
  <2>21. CASE HandleServerDisconnect
    BY <2>21, CallTyped DEF HandleServerDisconnect, Handle, Threads
  <2>22. CASE HandlePingResponse
    <3>2. pc' \in [Threads -> Labels] /\ (Unsent' => Unsent)
      BY <2>22, GotoTyped DEF HandlePingResponse, Threads, Labels
    <3>3. /\ DOMAIN pingTimes' \subseteq PingIds /\ answered' \subseteq PingIds
          /\ pingTimes' \in [DOMAIN pingTimes' -> Servers]
      BY <2>22 DEF HandlePingResponse, Restrict
    <3> QED
      BY <2>22, <3>2, <3>3 DEF HandlePingResponse, Handle
  <2>23. CASE Heartbeat
    <3>1. toServer' \in [Servers -> Seq(Requests)]
      BY <2>23, SendTyped DEF Heartbeat, Send, Requests
    <3> QED
      BY ZenonT(40), <2>23, <3>1, GotoTyped DEF Heartbeat, Threads, Labels
  <2>24. CASE CheckHeartbeat
    <3>1. /\ pc' \in [Threads -> Labels] /\ call' \in [Threads -> Calls]
          /\ Unsent' => Unsent
      BY <2>24, CallTyped, GotoTyped DEF CheckHeartbeat, Threads, Labels
    <3> QED
      BY <2>24, <3>1 DEF CheckHeartbeat
  <2>25. CASE FifteenSecondsPass
    BY <2>25 DEF FifteenSecondsPass
  <2>26. ASSUME NEW s \in Servers, ForgetClient(s) PROVE TypeInv'
    BY <2>26 DEF ForgetClient
  <2>27. ASSUME NEW s \in Servers, Serve(s) PROVE TypeInv'
    <3> DEFINE m == Head(toServer[s])
    <3>1. m \in Requests /\ Delivered(toServer[s]) \subseteq Seq(Requests)
      <4>1. toServer[s] \in Seq(Requests) /\ toServer[s] # <<>>
        BY <2>27 DEF Serve
      <4> QED
        BY ZenonT(40), <4>1, DeliveredTyped
    <3>2. toClient' \in [Servers -> Seq(Answers)]
      BY <2>27, <3>1, AnswerTyped DEF Serve
    <3>3. toServer' \in [Servers -> Seq(Requests)]
      BY <2>27, <3>1 DEF Serve
    <3>4. session' \subseteq Servers
      BY <2>27 DEF Serve
    <3>5. UNCHANGED <<socket, globals, threads, counts, history>>
      BY <2>27 DEF Serve
    <3> QED
      BY SMTT(30), <3>2, <3>3, <3>4, <3>5
  <2>28. CASE UNCHANGED vars
    BY <2>28 DEF vars
  <2> QED
    BY <2>1, <2>2, <2>3, <2>r, <2>4, <2>n, <2>5, <2>6, <2>7, <2>8, <2>9, <2>10,
       <2>11, <2>12, <2>13, <2>14, <2>15, <2>16, <2>17, <2>18, <2>19, <2>20, <2>21,
       <2>22, <2>23, <2>24, <2>25, <2>26, <2>27, <2>28
    DEF Next, Ui, Main, Recv, Keepalive, ConnectionStep, Environment,
        ServersAnswer, FreshIds
<1> QED
  BY <1>1, <1>2, PTL DEF Spec

(* The variables keep their types; the address is that of a server or of   *)
(* nobody in every state.                                                  *)
THEOREM TypeCorrect == Spec => []TypeOK
<1>1. TypeInv => TypeOK
  BY DEF TypeInv
<1> QED
  BY <1>1, TypeInvariant, PTL
-----------------------------------------------------------------------------
(* What a step does to the flag and the ids, when it is none of those that *)
(* connect, disconnect or ping.                                            *)
Connecting == {"farewell", "drop", "reset", "connect", "name", "check_in"}
Locked(th) == pc[th] \in {"reset", "name", "check_in"}

LEMMA OtherSteps ==
  ASSUME TypeInv, [Next]_vars,
         \A th \in Threads : ~ConnectionStep(th),
         ~PingCheck, ~PingConnect, ~PingRestore
  PROVE  /\ UNCHANGED <<connected, gameServerId, lastServerId, crossed>>
         /\ PingBorrowsSocket' <=> PingBorrowsSocket
         /\ PingBorrowsSocket => ping'.prev = ping.prev
         /\ \A th \in Threads :
              /\ pc[th] \in Connecting => pc'[th] = pc[th] /\ call'[th] = call[th]
              /\ pc'[th] \in Connecting => pc'[th] = pc[th]
<1> USE DEF Connecting
<1> USE DEF Threads, TypeInv, TypeOK, Goto, CallDisconnect, socket, globals,
            threads, history, PingBorrowsSocket
<1>1. CASE Ui
  BY <1>1 DEF Ui, OnConnect
<1>2. CASE CentralServerChanged \/ MenuLayerEntry
  BY <1>2 DEF CentralServerChanged, MenuLayerEntry, PopMessage
<1>3. CASE PingServers \/ ClearServers \/ FetchServers \/ GameMessage
  BY <1>3 DEF PingServers, PopMessage, ClearServers, FetchServers, GameMessage
<1>4. CASE PingList \/ PingsDone \/ PingSend
  BY <1>4 DEF PingList, PingsDone, PingSend
<1>5. ASSUME NEW s \in Servers, NEW id \in FreshIds, SendPingTo(s, id)
      PROVE  /\ UNCHANGED <<connected, gameServerId, lastServerId, crossed, call>>
             /\ pc' = [pc EXCEPT !["main"] = "ping_check"] /\ pc["main"] = "ping"
  BY <1>5 DEF SendPingTo
<1>6. CASE Recv
  <2>1. CASE \E s \in Servers : Receive(s)
    BY <2>1 DEF Receive
  <2>2. CASE HandleCheckedIn \/ HandleKeepaliveResponse \/ HandleGameResponse
    BY <2>2 DEF HandleCheckedIn, HandleKeepaliveResponse, HandleGameResponse, Handle
  <2>3. CASE HandlePingResponse \/ HandleServerDisconnect
    BY <2>3 DEF HandlePingResponse, HandleServerDisconnect, Handle
  <2> QED
    BY <1>6, <2>1, <2>2, <2>3 DEF Recv
<1>7. CASE Keepalive
  BY <1>7 DEF Keepalive, Heartbeat, CheckHeartbeat
<1>8. CASE Environment \/ ServersAnswer
  BY <1>8 DEF Environment, FifteenSecondsPass, ForgetClient, ServersAnswer, Serve
<1>9. CASE UNCHANGED vars
  BY <1>9 DEF vars
<1>10. CASE \E s \in Servers, id \in FreshIds : SendPingTo(s, id)
  BY <1>5, <1>10
<1> QED
  BY <1>1, <1>2, <1>3, <1>4, <1>6, <1>7, <1>8, <1>9, <1>10 DEF Next, Main

(* A step of connectToServer or disconnect takes its own thread on, and no *)
(* ping is sent, begun or ended by it.                                     *)
LEMMA OwnSteps ==
  ASSUME TypeInv, NEW th \in Threads, ConnectionStep(th)
  PROVE  /\ UNCHANGED ping
         /\ PingBorrowsSocket' <=> PingBorrowsSocket
         /\ \A other \in Threads \ {th} : pc'[other] = pc[other] /\ call'[other] = call[other]
<1> USE DEF TypeInv, TypeOK, Goto, Return, Threads, PingBorrowsSocket
<1>1. CASE Disconnect(th) \/ Farewell(th) \/ Drop(th) \/ Name(th)
  BY <1>1 DEF Disconnect, Farewell, Drop, Name
<1>2. CASE Reset(th)
  <2>1. call[th].then \in {"idle", "clear_servers"}
    BY DEF Calls
  <2> QED
    BY <1>2, <2>1 DEF Reset
<1>3. CASE Connect(th) \/ CheckIn(th)
  BY <1>3 DEF Connect, CheckIn
<1> QED
  BY <1>1, <1>2, <1>3 DEF ConnectionStep

(* g_gameServerMutex: one thread at most is at work under it.              *)
LockInv == \A th, other \in Threads : Locked(th) /\ Locked(other) => th = other

(* Which step takes the mutex, and which keeps it.                         *)
LEMMA LockedSteps ==
  ASSUME TypeInv, NEW th \in Threads, ConnectionStep(th), Locked(th)'
  PROVE  \/ GameServerMutexFree /\ (Drop(th) \/ Connect(th))
         \/ Locked(th) /\ Name(th)
<1> USE DEF TypeInv, TypeOK, Goto, Return, Locked
<1>1. ~Disconnect(th) /\ ~Farewell(th) /\ ~CheckIn(th)
  BY DEF Disconnect, Farewell, CheckIn
<1>2. ~Reset(th)
  BY DEF Reset, Calls
<1> QED
  BY <1>1, <1>2 DEF ConnectionStep, Drop, Connect, Name

LEMMA LockInvariant == Spec => []LockInv
<1>1. Init => LockInv
  BY DEF Init, LockInv, Locked, Threads
<1>2. TypeInv /\ LockInv /\ [Next]_vars => LockInv'
  <2> SUFFICES ASSUME TypeInv, LockInv, [Next]_vars PROVE LockInv'
    OBVIOUS
  <2>1. ASSUME NEW th \in Threads, ConnectionStep(th) PROVE LockInv'
    <3>1. CASE Locked(th)'
      BY <2>1, <3>1, LockedSteps, OwnSteps DEF LockInv, Locked, GameServerMutexFree
    <3>2. CASE ~Locked(th)'
      BY <2>1, <3>2, OwnSteps DEF LockInv, Locked
    <3> QED
      BY <3>1, <3>2
  <2>2. CASE PingCheck \/ PingConnect \/ PingRestore
    BY <2>2 DEF PingCheck, PingConnect, PingRestore, Goto, LockInv, Locked, Threads,
                TypeInv, TypeOK
  <2>3. CASE /\ \A th \in Threads : ~ConnectionStep(th)
             /\ ~PingCheck /\ ~PingConnect /\ ~PingRestore
    BY <2>3, OtherSteps DEF LockInv, Locked, Connecting
  <2> QED
    BY <2>1, <2>2, <2>3
<1> QED
  BY <1>1, <1>2, TypeInvariant, PTL DEF Spec

-----------------------------------------------------------------------------
(* The id of the server a thread checks in with stands meanwhile.  Where   *)
(* the saved id differs, somebody is about to set it, or to reset the      *)
(* other.                                                                  *)
SavedInv ==
  /\ \A th \in Threads : pc[th] = "check_in" => call[th].want = gameServerId
  /\ gameServerId # None =>
       \/ lastServerId = gameServerId
       \/ \E th \in Threads : pc[th] \in {"drop", "reset", "check_in"}

(* Between two commands the saved server is the current one.               *)
THEOREM SavedIsCurrent == Spec => []SavedServerIsCurrent
<1>1. Init => SavedInv
  BY DEF Init, SavedInv, Threads
<1>2. TypeInv /\ LockInv /\ SavedInv /\ [Next]_vars => SavedInv'
  <2> SUFFICES ASSUME TypeInv, LockInv, SavedInv, [Next]_vars PROVE SavedInv'
    OBVIOUS
  <2> USE DEF SavedInv, TypeInv, TypeOK, Goto, socket, globals, counts, network
  <2>1. ASSUME NEW th \in Threads, Disconnect(th) PROVE SavedInv'
    BY <2>1 DEF Disconnect
  <2>2. ASSUME NEW th \in Threads, Farewell(th) PROVE SavedInv'
    BY <2>2 DEF Farewell
  <2>3. ASSUME NEW th \in Threads, Drop(th) PROVE SavedInv'
    BY <2>3 DEF Drop
  <2>4. ASSUME NEW th \in Threads, Reset(th) PROVE SavedInv'
    <3>1. call[th].then # "check_in"
      BY DEF Calls
    <3>2. \A other \in Threads : pc[other] # "check_in"
      BY <2>4 DEF Reset, LockInv, Locked
    <3>3. \A other \in Threads : pc'[other] # "check_in"
      BY <2>4, <3>1, <3>2 DEF Reset, Return
    <3> QED
      BY <2>4, <3>3 DEF Reset
  <2>5. ASSUME NEW th \in Threads, Connect(th) PROVE SavedInv'
    BY <2>5 DEF Connect, Return
  <2>6. ASSUME NEW th \in Threads, Name(th) PROVE SavedInv'
    <3>1. \A other \in Threads : pc[other] # "check_in"
      BY <2>6 DEF Name, LockInv, Locked
    <3> QED
      BY <2>6, <3>1 DEF Name
  <2>7. ASSUME NEW th \in Threads, CheckIn(th) PROVE SavedInv'
    BY <2>7 DEF CheckIn, Return
  <2>8. CASE PingCheck \/ PingConnect \/ PingRestore
    BY <2>8 DEF PingCheck, PingConnect, PingRestore, Threads
  <2>9. CASE /\ \A th \in Threads : ~ConnectionStep(th)
             /\ ~PingCheck /\ ~PingConnect /\ ~PingRestore
    BY <2>9, OtherSteps DEF Connecting
  <2> QED
    BY <2>1, <2>2, <2>3, <2>4, <2>5, <2>6, <2>7, <2>8, <2>9 DEF ConnectionStep
<1>3. SavedInv => SavedServerIsCurrent
  BY DEF SavedInv, SavedServerIsCurrent, Idle
<1> QED
  BY <1>1, <1>2, <1>3, TypeInvariant, LockInvariant, PTL DEF Spec

-----------------------------------------------------------------------------
(* What the flag will be when the ping under way has given the socket back. *)
FlagAfterPing == IF PingBorrowsSocket THEN ping.prev # {} ELSE connected

(* With the mutex held, the flag is ahead of the id: it is cleared while   *)
(* the id is still there, and set while it is not there yet.               *)
Agreed ==
  FlagAfterPing <=> \/ \E th \in Threads : pc[th] = "name"
                    \/ gameServerId # None /\ \A th \in Threads : pc[th] # "reset"

AgreeInv ==
  /\ \A th \in Threads : pc[th] = "name" => call[th].want # None
  /\ ~crossed => /\ PingBorrowsSocket /\ ping.prev # {} => connected
                 /\ Agreed

(* However the four threads connect and disconnect and however often the   *)
(* socket is borrowed for pings: while no connect or disconnect falls into *)
(* a ping, the client is connected exactly when it has a current server.   *)
THEOREM ConnectedAgrees == Spec => []ConnectedToSomeServer
<1>1. Init => AgreeInv
  BY DEF Init, AgreeInv, Agreed, FlagAfterPing, PingBorrowsSocket, Threads
<1>2. TypeInv /\ LockInv /\ AgreeInv /\ [Next]_vars => AgreeInv'
  <2> SUFFICES ASSUME TypeInv, LockInv, AgreeInv, [Next]_vars PROVE AgreeInv'
    OBVIOUS
  <2>a. pc \in [Threads -> Labels] /\ call \in [Threads -> Calls] /\ connected \in BOOLEAN
    BY DEF TypeInv, TypeOK
  <2>b. \A th \in Threads : ConnectionStep(th) =>
          /\ UNCHANGED ping /\ (PingBorrowsSocket' <=> PingBorrowsSocket)
          /\ \A other \in Threads \ {th} :
               pc'[other] = pc[other] /\ call'[other] = call[other]
    BY OwnSteps
  <2> USE DEF AgreeInv, Agreed, FlagAfterPing
  <2>1. ASSUME NEW th \in Threads, Disconnect(th) \/ Farewell(th) PROVE AgreeInv'
    BY <2>1, <2>a, <2>b DEF ConnectionStep, Disconnect, Farewell, Goto, socket, history
  <2>2. ASSUME NEW th \in Threads, Drop(th) PROVE AgreeInv'
    <3>1. pc'[th] = "reset" /\ connected' = FALSE /\ crossed' = PingBorrowsSocket
      BY <2>2, <2>a DEF Drop, Goto
    <3>2. \A other \in Threads : pc[other] # "name"
      BY <2>2 DEF Drop, GameServerMutexFree
    <3> QED
      BY <2>2, <3>1, <3>2, <2>b DEF ConnectionStep
  <2>3. ASSUME NEW th \in Threads, Reset(th) PROVE AgreeInv'
    <3>1. /\ pc[th] = "reset" /\ pc'[th] \notin {"name", "reset"}
          /\ gameServerId' = None /\ UNCHANGED <<connected, crossed>>
      BY <2>3, <2>a DEF Reset, Goto, Return, Calls, socket, history
    <3>2. \A other \in Threads : pc[other] # "name"
      BY <3>1 DEF LockInv, Locked
    <3> QED
      BY <2>3, <3>1, <3>2, <2>b DEF ConnectionStep
  <2>4. ASSUME NEW th \in Threads, Connect(th) PROVE AgreeInv'
    <3>1. CASE call[th].want \in gameServers /\ call[th].want \notin Unreachable
      <4>1. /\ pc'[th] = "name" /\ call'[th] = call[th]
            /\ connected' = TRUE /\ crossed' = PingBorrowsSocket
        BY <2>4, <3>1, <2>a DEF Connect, ConnectTo, Goto
      <4>2. call[th].want # None
        BY <3>1, ServersFinite DEF TypeInv, TypeOK
      <4> QED
        BY <2>4, <4>1, <4>2, <2>b DEF ConnectionStep
    <3>2. CASE call[th].want \notin gameServers \/ call[th].want \in Unreachable
      <4>1. /\ pc[th] = "connect" /\ pc'[th] = "idle"
            /\ UNCHANGED <<connected, crossed, gameServerId>>
        BY <2>4, <3>2, <2>a DEF Connect, ConnectTo, Return, Goto, globals
      <4> QED
        BY <2>4, <4>1, <2>b DEF ConnectionStep
    <3> QED
      BY <3>1, <3>2
  <2>5. ASSUME NEW th \in Threads, Name(th) PROVE AgreeInv'
    <3>1. /\ pc[th] = "name" /\ pc'[th] = "check_in"
          /\ gameServerId' = call[th].want /\ UNCHANGED <<connected, crossed>>
      BY <2>5, <2>a DEF Name, Goto, socket, history
    <3>2. \A other \in Threads : pc[other] # "reset"
      BY <3>1 DEF LockInv, Locked
    <3> QED
      BY <2>5, <3>1, <3>2, <2>b DEF ConnectionStep
  <2>6. ASSUME NEW th \in Threads, CheckIn(th) PROVE AgreeInv'
    BY <2>6, <2>a, <2>b DEF ConnectionStep, CheckIn, Return, Goto, socket, history
  <2>7. CASE PingCheck
    <3>1. /\ pc["main"] = "ping_check" /\ pc' = [pc EXCEPT !["main"] = "ping_connect"]
          /\ ping'.prev # {} <=> connected
          /\ UNCHANGED <<connected, gameServerId, call, crossed>>
      BY <2>7 DEF PingCheck, Goto, socket, globals, history, TypeInv, TypeOK, Pings
    <3> QED
      BY <3>1, <2>a DEF PingBorrowsSocket, Threads
  <2>8. CASE PingConnect
    <3>1. /\ pc["main"] = "ping_connect" /\ pc' = [pc EXCEPT !["main"] = "ping_send"]
          /\ UNCHANGED <<ping, gameServerId, call, crossed>>
          /\ connected' = TRUE \/ connected' = connected
      BY <2>8 DEF PingConnect, ConnectTo, Goto, globals, history
    <3> QED
      BY <3>1, <2>a DEF PingBorrowsSocket, Threads
  <2>9. CASE PingRestore
    <3>1. /\ pc["main"] = "ping_restore" /\ pc' = [pc EXCEPT !["main"] = "ping"]
          /\ UNCHANGED <<gameServerId, call, crossed>>
          /\ \/ ping.prev # {} /\ UNCHANGED connected
             \/ ping.prev = {} /\ connected' = FALSE
      BY <2>9 DEF PingRestore, Goto, globals, history
    <3> QED
      BY <3>1, <2>a DEF PingBorrowsSocket, Threads
  <2>10. CASE /\ \A th \in Threads : ~ConnectionStep(th)
              /\ ~PingCheck /\ ~PingConnect /\ ~PingRestore
    BY <2>10, OtherSteps DEF Connecting
  <2> QED
    BY <2>1, <2>2, <2>3, <2>4, <2>5, <2>6, <2>7, <2>8, <2>9, <2>10 DEF ConnectionStep
<1>3. AgreeInv => ConnectedToSomeServer
  BY DEF AgreeInv, Agreed, FlagAfterPing, ConnectedToSomeServer, Idle, PingBorrowsSocket,
         Threads
<1> QED
  BY <1>1, <1>2, <1>3, TypeInvariant, LockInvariant, PTL DEF Spec
-----------------------------------------------------------------------------
(* The ids of pings, and of their answers, in a queue; whether each is     *)
(* there once, which only holds where no datagram is delivered twice.      *)
Carries(m, id) == m.kind \in {"Ping", "PingResponse"} /\ m.ping = id

Ids(queue) == {id \in PingIds : \E i \in 1..Len(queue) : Carries(queue[i], id)}

Once(queue) ==
  \/ Duplication
  \/ \A id \in PingIds : \A i, j \in 1..Len(queue) :
       Carries(queue[i], id) /\ Carries(queue[j], id) => i = j

LEMMA AppendedIds ==
  ASSUME NEW S, NEW queue \in Seq(S), NEW m \in S, Once(queue),
         Duplication \/ \A id \in Ids(queue) : ~Carries(m, id)
  PROVE  /\ Once(Append(queue, m))
         /\ \A id \in Ids(Append(queue, m)) : id \in Ids(queue) \/ Carries(m, id)
<1>1. /\ Len(queue) \in Nat
      /\ Len(Append(queue, m)) = Len(queue) + 1
      /\ \A i \in 1..Len(queue) : Append(queue, m)[i] = queue[i]
      /\ Append(queue, m)[Len(queue) + 1] = m
  BY AppendProperties, LenProperties
<1> QED
  BY <1>1 DEF Once, Ids

LEMMA DeliveredIds ==
  ASSUME NEW S, NEW queue \in Seq(S), queue # <<>>, Once(queue),
         NEW rest \in Delivered(queue)
  PROVE  /\ Once(rest)
         /\ Ids(rest) \subseteq Ids(queue)
         /\ \A id \in PingIds : Carries(Head(queue), id) =>
              id \in Ids(queue) /\ (Duplication \/ id \notin Ids(rest))
<1>1. /\ Len(queue) \in Nat \ {0} /\ Len(Tail(queue)) = Len(queue) - 1
      /\ \A i \in 1..Len(Tail(queue)) : Tail(queue)[i] = queue[i + 1]
      /\ Head(queue) = queue[1]
  BY HeadTailProperties, EmptySeq
<1>2. Once(Tail(queue)) /\ Ids(Tail(queue)) \subseteq Ids(queue)
  BY <1>1 DEF Once, Ids
<1>3. ASSUME NEW id \in PingIds, Carries(Head(queue), id)
      PROVE  id \in Ids(queue) /\ (Duplication \/ id \notin Ids(Tail(queue)))
  BY <1>1, <1>3 DEF Once, Ids
<1>4. rest = Tail(queue) \/ (Duplication /\ rest = queue)
  BY DEF Delivered
<1> QED
  BY <1>2, <1>3, <1>4

-----------------------------------------------------------------------------
(* The places of a ping's id: with the ping that is not sent yet, on the   *)
(* way to or from a server, in the packet that is handled.  There it is    *)
(* known to pingTimes, or, where datagrams are delivered twice, it may     *)
(* have been answered before.  Where they are not, the id is in one place  *)
(* at a time.                                                              *)
OutIds(s) == Ids(toServer[s])
InIds(s) == Ids(toClient[s])
PacketIds == {id \in PingIds : pc["recv"] = "handle" /\ Carries(packet, id)}
UnsentIds == {id \in PingIds : Unsent /\ ping.id = id}

Known == DOMAIN pingTimes \cup {id \in answered : Duplication}

IdsKnown ==
  /\ PacketIds \cup UnsentIds \subseteq Known
  /\ \A s \in Servers : OutIds(s) \cup InIds(s) \subseteq Known

IdsApart ==
  \/ Duplication
  \/ /\ PacketIds \cap UnsentIds = {}
     /\ \A s \in Servers : (PacketIds \cup UnsentIds) \cap (OutIds(s) \cup InIds(s)) = {}
     /\ \A s, t \in Servers : OutIds(s) \cap InIds(t) = {}
     /\ \A s, t \in Servers : s # t => /\ OutIds(s) \cap OutIds(t) = {}
                                       /\ InIds(s) \cap InIds(t) = {}

IdsOnce == \A s \in Servers : Once(toServer[s]) /\ Once(toClient[s])

PacketHandled == packet # None => pc["recv"] = "handle"

PingInv == IdsKnown /\ IdsApart /\ IdsOnce /\ PacketHandled

(* Where no id comes to a place and none is forgotten, all stays in order. *)
LEMMA NoIdMoves ==
  ASSUME PingInv, UNCHANGED <<pingTimes, answered>>,
         PacketIds' \subseteq PacketIds, UnsentIds' \subseteq UnsentIds,
         \A s \in Servers : /\ OutIds(s)' \subseteq OutIds(s)
                            /\ InIds(s)' \subseteq InIds(s)
  PROVE  IdsKnown' /\ IdsApart'
<1>1. Known' = Known
  BY DEF Known
<1> QED
  BY <1>1 DEF PingInv, IdsKnown, IdsApart

(* A datagram without an id adds none to the queue it is sent to.          *)
LEMMA SendNoId ==
  ASSUME TypeInv, PingInv, NEW kind \in {"CheckIn", "Disconnect", "Keepalive", "Game"},
         Send(kind)
  PROVE  \A s \in Servers : OutIds(s)' \subseteq OutIds(s) /\ Once(toServer'[s])
<1> DEFINE m == [kind |-> kind]
<1>1. m \in Requests /\ \A id \in PingIds : ~Carries(m, id)
  BY DEF Requests, Carries
<1>2. ASSUME NEW s \in Servers
      PROVE  /\ Once(Append(toServer[s], m))
             /\ Ids(Append(toServer[s], m)) \subseteq Ids(toServer[s])
  <2>1. toServer[s] \in Seq(Requests) /\ Once(toServer[s])
    BY DEF TypeInv, TypeOK, PingInv, IdsOnce
  <2>2. Ids(toServer[s]) \subseteq PingIds /\ Ids(Append(toServer[s], m)) \subseteq PingIds
    BY DEF Ids
  <2> HIDE DEF m
  <2> QED
    BY <1>1, <2>1, <2>2, AppendedIds
<1>3. CASE destAddr \in Servers
  <2>1. PICK queue \in Queued(toServer[destAddr], m) :
          toServer' = [toServer EXCEPT ![destAddr] = queue]
    BY <1>3 DEF Send, SendTo
  <2>2. queue \in {toServer[destAddr], Append(toServer[destAddr], m)}
    BY DEF Queued
  <2> HIDE DEF m
  <2> QED
    BY <1>2, <1>3, <2>1, <2>2 DEF OutIds, TypeInv, TypeOK, PingInv, IdsOnce
<1>4. CASE destAddr \notin Servers
  BY <1>4 DEF Send, SendTo, OutIds, PingInv, IdsOnce
<1> QED
  BY <1>3, <1>4
(* An answer without an id adds none to the queue it is sent to.           *)
LEMMA AnswerNoId ==
  ASSUME TypeInv, PingInv, NEW s \in Servers, NEW m \in Requests,
         NEW kind \in {"CheckedIn", "KeepaliveResponse", "ServerDisconnect",
                       "GameResponse"},
         m.kind # "Ping", Answer(s, m, kind)
  PROVE  \A t \in Servers : InIds(t)' \subseteq InIds(t) /\ Once(toClient'[t])
<1> DEFINE answer == [kind |-> kind]
<1>1. answer \in Answers /\ \A id \in PingIds : ~Carries(answer, id)
  BY DEF Answers, Carries
<1>2. PICK queue \in Queued(toClient[s], answer) :
        toClient' = [toClient EXCEPT ![s] = queue]
  BY DEF Answer
<1>3. queue \in {toClient[s], Append(toClient[s], answer)}
  BY <1>2 DEF Queued
<1>4. toClient[s] \in Seq(Answers) /\ Once(toClient[s])
  BY DEF TypeInv, TypeOK, PingInv, IdsOnce
<1>5. Ids(toClient[s]) \subseteq PingIds /\ Ids(Append(toClient[s], answer)) \subseteq PingIds
  BY DEF Ids
<1> HIDE DEF answer
<1>6. /\ Once(Append(toClient[s], answer))
      /\ Ids(Append(toClient[s], answer)) \subseteq Ids(toClient[s])
  BY <1>1, <1>4, <1>5, AppendedIds
<1> QED
  BY <1>2, <1>3, <1>6 DEF InIds, TypeInv, TypeOK, PingInv, IdsOnce

(* The first datagram of a server's queue is taken from it.                *)
LEMMA ServedIds ==
  ASSUME TypeInv, PingInv, NEW s \in Servers, toServer[s] # <<>>,
         NEW rest \in Delivered(toServer[s]), toServer' = [toServer EXCEPT ![s] = rest]
  PROVE  /\ \A t \in Servers : OutIds(t)' \subseteq OutIds(t) /\ Once(toServer'[t])
         /\ \A id \in PingIds : Carries(Head(toServer[s]), id) =>
              id \in OutIds(s) /\ (Duplication \/ id \notin OutIds(s)')
<1>1. toServer[s] \in Seq(Requests) /\ Once(toServer[s])
  BY DEF TypeInv, TypeOK, PingInv, IdsOnce
<1>2. /\ Once(rest) /\ Ids(rest) \subseteq Ids(toServer[s])
      /\ \A id \in PingIds : Carries(Head(toServer[s]), id) =>
           id \in Ids(toServer[s]) /\ (Duplication \/ id \notin Ids(rest))
  BY <1>1, DeliveredIds
<1>3. toServer'[s] = rest /\ \A t \in Servers \ {s} : toServer'[t] = toServer[t]
  BY DEF TypeInv, TypeOK
<1> QED
  BY <1>2, <1>3 DEF OutIds, TypeInv, TypeOK, PingInv, IdsOnce

LEMMA ReceivedIds ==
  ASSUME TypeInv, PingInv, NEW s \in Servers, toClient[s] # <<>>,
         NEW rest \in Delivered(toClient[s]), toClient' = [toClient EXCEPT ![s] = rest]
  PROVE  /\ \A t \in Servers : InIds(t)' \subseteq InIds(t) /\ Once(toClient'[t])
         /\ \A id \in PingIds : Carries(Head(toClient[s]), id) =>
              id \in InIds(s) /\ (Duplication \/ id \notin InIds(s)')
<1>1. toClient[s] \in Seq(Answers) /\ Once(toClient[s])
  BY DEF TypeInv, TypeOK, PingInv, IdsOnce
<1>2. /\ Once(rest) /\ Ids(rest) \subseteq Ids(toClient[s])
      /\ \A id \in PingIds : Carries(Head(toClient[s]), id) =>
           id \in Ids(toClient[s]) /\ (Duplication \/ id \notin Ids(rest))
  BY <1>1, DeliveredIds
<1>3. toClient'[s] = rest /\ \A t \in Servers \ {s} : toClient'[t] = toClient[t]
  BY DEF TypeInv, TypeOK
<1> QED
  BY <1>2, <1>3 DEF InIds, TypeInv, TypeOK, PingInv, IdsOnce

(* A thread goes on with something else than a ping or a packet.           *)
LEMMA GoesOn ==
  ASSUME TypeInv, PingInv, NEW th \in Threads, NEW label \in Labels,
         Goto(th, label) \/ Return(th, label),
         label \notin {"ping_check", "ping_connect", "ping_send", "handle"},
         \/ packet' = None /\ th = "recv"
         \/ UNCHANGED packet /\ (th = "recv" => pc[th] # "handle"),
         UNCHANGED ping
  PROVE  UnsentIds' \subseteq UnsentIds /\ PacketIds' \subseteq PacketIds /\ PacketHandled'
<1>1. /\ pc'[th] = label /\ \A other \in Threads \ {th} : pc'[other] = pc[other]
      /\ "recv" \in Threads /\ "main" \in Threads
  BY DEF TypeInv, TypeOK, Goto, Return, Threads
<1>2. UnsentIds' \subseteq UnsentIds
  BY <1>1 DEF UnsentIds, Unsent
<1>3. PacketIds' \subseteq PacketIds
  BY <1>1 DEF PacketIds
<1>4. PacketHandled'
  BY <1>1 DEF PacketHandled, PingInv
<1> QED
  BY <1>2, <1>3, <1>4

(* The queues, and what hangs on them alone.                               *)
LEMMA QueuesStay ==
  ASSUME PingInv
  PROVE  /\ UNCHANGED toServer =>
              \A s \in Servers : OutIds(s)' \subseteq OutIds(s) /\ Once(toServer'[s])
         /\ UNCHANGED toClient =>
              \A s \in Servers : InIds(s)' \subseteq InIds(s) /\ Once(toClient'[s])
BY DEF PingInv, IdsOnce, OutIds, InIds

LEMMA NothingMoves ==
  ASSUME TypeInv, PingInv, UNCHANGED <<pingTimes, answered>>,
         PacketIds' \subseteq PacketIds, UnsentIds' \subseteq UnsentIds, PacketHandled',
         \A s \in Servers : OutIds(s)' \subseteq OutIds(s) /\ Once(toServer'[s]),
         \A s \in Servers : InIds(s)' \subseteq InIds(s) /\ Once(toClient'[s])
  PROVE  PingInv'
BY NoIdMoves DEF PingInv, IdsOnce

LEMMA PingInvariant == Spec => []PingInv
<1>1. Init => PingInv
  <2> SUFFICES ASSUME Init PROVE PingInv
    OBVIOUS
  <2>1. Ids(<<>>) = {} /\ Once(<<>>)
    BY DEF Ids, Once
  <2>2. \A s \in Servers : /\ OutIds(s) = {} /\ InIds(s) = {}
                           /\ Once(toServer[s]) /\ Once(toClient[s])
    BY <2>1 DEF Init, OutIds, InIds
  <2>3. PacketIds = {} /\ UnsentIds = {} /\ PacketHandled
    BY DEF Init, PacketIds, UnsentIds, PacketHandled, Unsent, Threads
  <2> QED
    BY <2>2, <2>3 DEF PingInv, IdsKnown, IdsApart, IdsOnce
<1>2. TypeInv /\ PingInv /\ [Next]_vars => PingInv'
  <2> SUFFICES ASSUME TypeInv, PingInv, [Next]_vars PROVE PingInv'
    OBVIOUS
  <2> USE DEF socket, globals, threads, counts, network, history
  <2>a. /\ \A th \in Threads : call[th].then \in {"idle", "clear_servers"}
        /\ {"idle", "drop", "farewell", "reset", "name", "check_in", "connect",
            "disconnect", "clear_servers", "fetch_servers", "ping_list", "ping",
            "heartbeat_check"} \subseteq Labels
        /\ {"ui", "main", "recv", "keepalive"} = Threads
    BY DEF TypeInv, TypeOK, Calls, Labels, Threads
  <2>b. ASSUME NEW th \in Threads, NEW quiet, NEW save, NEW want, NEW then,
               CallDisconnect(th, quiet, save, want, then)
        PROVE  Goto(th, "disconnect")
    BY <2>b DEF CallDisconnect
  <2>1. ASSUME NEW th \in Threads, Disconnect(th) PROVE PingInv'
    BY <2>1, <2>a, GoesOn, QueuesStay, NothingMoves DEF Disconnect
  <2>2. ASSUME NEW th \in Threads, Farewell(th) PROVE PingInv'
    BY <2>2, <2>a, GoesOn, QueuesStay, NothingMoves, SendNoId DEF Farewell
  <2>3. ASSUME NEW th \in Threads, Drop(th) PROVE PingInv'
    BY <2>3, <2>a, GoesOn, QueuesStay, NothingMoves DEF Drop
  <2>r. ASSUME NEW th \in Threads, Reset(th) PROVE PingInv'
    BY <2>r, <2>a, GoesOn, QueuesStay, NothingMoves DEF Reset
  <2>4. ASSUME NEW th \in Threads, Connect(th) PROVE PingInv'
    BY <2>4, <2>a, GoesOn, QueuesStay, NothingMoves DEF Connect
  <2>n. ASSUME NEW th \in Threads, Name(th) PROVE PingInv'
    BY <2>n, <2>a, GoesOn, QueuesStay, NothingMoves DEF Name
  <2>5. ASSUME NEW th \in Threads, CheckIn(th) PROVE PingInv'
    BY <2>5, <2>a, GoesOn, QueuesStay, NothingMoves, SendNoId DEF CheckIn
  <2>6. CASE OnConnect
    BY <2>6, <2>a, <2>b, GoesOn, QueuesStay, NothingMoves DEF OnConnect
  <2>7. CASE CentralServerChanged \/ ClearServers \/ FetchServers
    BY <2>7, <2>a, <2>b, GoesOn, QueuesStay, NothingMoves
    DEF CentralServerChanged, ClearServers, FetchServers, PopMessage
  <2>c. ASSUME UNCHANGED <<pc, packet, ping>>
        PROVE  UnsentIds' = UnsentIds /\ PacketIds' = PacketIds /\ PacketHandled'
    BY <2>c DEF UnsentIds, PacketIds, PacketHandled, Unsent, PingInv
  <2>8. CASE MenuLayerEntry
    BY <2>8, <2>a, <2>b, <2>c, GoesOn, QueuesStay, NothingMoves DEF MenuLayerEntry
  <2>9. CASE PingServers
    BY <2>9, <2>a, GoesOn, QueuesStay, NothingMoves DEF PingServers
  <2>10. CASE GameMessage
    BY <2>10, <2>c, QueuesStay, NothingMoves, SendNoId DEF GameMessage
  <2>d. ASSUME pc'["recv"] = pc["recv"], UNCHANGED packet
        PROVE  PacketIds' = PacketIds /\ PacketHandled'
    BY <2>d DEF PacketIds, PacketHandled, PingInv
  <2>11. CASE PingList \/ PingsDone \/ PingRestore
    <3>1. UnsentIds' = {}
      BY <2>11, <2>a DEF PingList, PingsDone, PingRestore, Goto, UnsentIds, Unsent,
         TypeInv, TypeOK
    <3>2. PacketIds' = PacketIds /\ PacketHandled' /\ UNCHANGED <<pingTimes, answered, toServer, toClient>>
      BY <2>11, <2>a, <2>d DEF PingList, PingsDone, PingRestore, Goto, TypeInv, TypeOK
    <3> QED
      BY <3>1, <3>2, QueuesStay, NothingMoves
  <2>12. CASE PingCheck \/ PingConnect
    <3>1. UnsentIds' = UnsentIds
      BY <2>12, <2>a DEF PingCheck, PingConnect, Goto, UnsentIds, Unsent, TypeInv,
         TypeOK, Pings
    <3>2. PacketIds' = PacketIds /\ PacketHandled' /\ UNCHANGED <<pingTimes, answered, toServer, toClient>>
      BY <2>12, <2>a, <2>d DEF PingCheck, PingConnect, Goto, TypeInv, TypeOK
    <3> QED
      BY <3>1, <3>2, QueuesStay, NothingMoves
  <2>13. ASSUME NEW s \in Servers, NEW id \in FreshIds, SendPingTo(s, id)
         PROVE  PingInv'
    <3>1. UnsentIds' = {id}
      BY <2>13, <2>a DEF SendPingTo, Goto, UnsentIds, Unsent, TypeInv, TypeOK,
         Pings, FreshIds
    <3>2. /\ PacketIds' = PacketIds /\ PacketHandled'
          /\ \A t \in Servers : OutIds(t)' = OutIds(t) /\ InIds(t)' = InIds(t)
          /\ IdsOnce'
      BY <2>13, <2>a DEF SendPingTo, Goto, PacketIds, PacketHandled, PingInv,
         IdsOnce, OutIds, InIds
    <3>3. id \notin DOMAIN pingTimes /\ Known' = Known \cup {id}
      BY <2>13 DEF SendPingTo, FreshIds, Known
    <3>4. Duplication \/ id \notin Known
      BY <3>3 DEF Known
    <3>5. IdsKnown'
      BY <3>1, <3>2, <3>3 DEF PingInv, IdsKnown
    <3>6. IdsApart'
      BY <3>1, <3>2, <3>4 DEF PingInv, IdsKnown, IdsApart
    <3> QED
      BY <3>2, <3>5, <3>6 DEF PingInv
  <2>14. CASE PingSend
    <3> DEFINE m == [kind |-> "Ping", ping |-> ping.id]
    <3>1. /\ ping.id \in UnsentIds /\ UnsentIds' = {}
          /\ m \in Requests /\ \A id \in PingIds : Carries(m, id) => id = ping.id
      BY <2>14, <2>a DEF PingSend, Goto, UnsentIds, Unsent, TypeInv, TypeOK,
         Requests, Carries
    <3>2. PacketIds' = PacketIds /\ PacketHandled' /\ UNCHANGED <<pingTimes, answered, toClient>>
      BY <2>14, <2>a, <2>d DEF PingSend, Goto, TypeInv, TypeOK
    <3>3. CASE UNCHANGED toServer
      BY <3>1, <3>2, <3>3, QueuesStay, NothingMoves
    <3>4. ASSUME NEW d \in Servers,
                 toServer' = [toServer EXCEPT ![d] = Append(@, m)]
          PROVE  PingInv'
      <4> HIDE DEF m
      <4>1. toServer[d] \in Seq(Requests) /\ Once(toServer[d])
        BY <3>4 DEF TypeInv, TypeOK, PingInv, IdsOnce
      <4>2. Duplication \/ \A id \in Ids(toServer[d]) : ~Carries(m, id)
        <5>1. (Duplication \/ ping.id \notin OutIds(d)) /\ OutIds(d) \subseteq PingIds
          BY <3>1, <3>4 DEF PingInv, IdsApart, OutIds, Ids
        <5> QED
          BY <3>1, <5>1 DEF OutIds
      <4>3. /\ Once(Append(toServer[d], m))
            /\ Ids(Append(toServer[d], m)) \subseteq OutIds(d) \cup {ping.id}
        <5>1. Ids(Append(toServer[d], m)) \subseteq PingIds
          BY DEF Ids
        <5> QED
          BY <3>1, <4>1, <4>2, <5>1, AppendedIds DEF OutIds
      <4>4. /\ OutIds(d)' \subseteq OutIds(d) \cup {ping.id}
            /\ \A s \in Servers \ {d} : OutIds(s)' = OutIds(s)
            /\ \A s \in Servers : Once(toServer'[s])
        <5>1. /\ toServer'[d] = Append(toServer[d], m)
              /\ \A s \in Servers \ {d} : toServer'[s] = toServer[s]
          BY <3>4 DEF TypeInv, TypeOK
        <5> QED
          BY <4>3, <5>1 DEF OutIds, PingInv, IdsOnce
      <4>5. \A s \in Servers : InIds(s)' = InIds(s) /\ Once(toClient'[s])
        BY <3>2 DEF InIds, PingInv, IdsOnce
      <4>6. IdsKnown'
        BY <3>1, <3>2, <4>4, <4>5 DEF PingInv, IdsKnown, Known
      <4>7. IdsApart'
        BY <3>1, <3>2, <3>4, <4>4, <4>5 DEF PingInv, IdsApart
      <4> QED
        BY <3>2, <4>4, <4>5, <4>6, <4>7 DEF PingInv, IdsOnce
    <3>5. CASE destAddr \in Servers
      <4> HIDE DEF m
      <4>1. PICK queue \in Queued(toServer[destAddr], m) :
              toServer' = [toServer EXCEPT ![destAddr] = queue]
        BY <2>14, <3>5 DEF PingSend, SendTo, m
      <4>2. queue \in {toServer[destAddr], Append(toServer[destAddr], m)}
        BY DEF Queued
      <4>3. CASE queue = toServer[destAddr]
        <5>1. UNCHANGED toServer
          BY <4>1, <4>3 DEF TypeInv, TypeOK
        <5> QED
          BY <3>3, <5>1
      <4>4. CASE queue = Append(toServer[destAddr], m)
        BY <3>4, <3>5, <4>1, <4>4
      <4> QED
        BY <4>2, <4>3, <4>4
    <3>6. CASE destAddr \notin Servers
      BY <2>14, <3>3, <3>6 DEF PingSend, SendTo
    <3> QED
      BY <3>5, <3>6
  <2>15. ASSUME NEW s \in Servers, Receive(s) PROVE PingInv'
    <3>1. /\ \A t \in Servers : InIds(t)' \subseteq InIds(t) /\ Once(toClient'[t])
          /\ \A id \in PingIds : Carries(Head(toClient[s]), id) =>
               id \in InIds(s) /\ (Duplication \/ id \notin InIds(s)')
      <4>1. PICK rest \in Delivered(toClient[s]) :
              toClient' = [toClient EXCEPT ![s] = rest]
        BY <2>15 DEF Receive
      <4> QED
        BY <2>15, <4>1, ReceivedIds DEF Receive
    <3>2. PacketIds' = {id \in PingIds : Carries(Head(toClient[s]), id)} /\ PacketHandled'
      BY <2>15, <2>a DEF Receive, Goto, PacketIds, PacketHandled, TypeInv, TypeOK
    <3>3. UnsentIds' = UnsentIds
      BY <2>15, <2>a DEF Receive, Goto, UnsentIds, Unsent
    <3>4. \A t \in Servers : OutIds(t)' = OutIds(t) /\ Once(toServer'[t])
      BY <2>15 DEF Receive, OutIds, PingInv, IdsOnce
    <3>5. Known' = Known
      BY <2>15 DEF Receive, Known
    <3>6. /\ PacketIds' \subseteq InIds(s)
          /\ Duplication \/ PacketIds' \cap InIds(s)' = {}
      BY <3>1, <3>2
    <3>7. IdsKnown'
      BY <3>1, <3>3, <3>4, <3>5, <3>6 DEF PingInv, IdsKnown
    <3>8. IdsApart'
      BY <3>1, <3>3, <3>4, <3>6 DEF PingInv, IdsApart
    <3> QED
      BY <3>1, <3>2, <3>4, <3>7, <3>8 DEF PingInv, IdsOnce
  <2>16. CASE HandleCheckedIn \/ HandleKeepaliveResponse \/ HandleGameResponse
    BY <2>16, <2>a, GoesOn, QueuesStay, NothingMoves
    DEF HandleCheckedIn, HandleKeepaliveResponse, HandleGameResponse, Handle
  <2>17. CASE HandleServerDisconnect
    BY <2>17, <2>a, <2>b, GoesOn, QueuesStay, NothingMoves
    DEF HandleServerDisconnect, Handle
  <2>18. CASE HandlePingResponse
    <3>1. /\ PacketIds' = {} /\ UnsentIds' = UnsentIds /\ PacketHandled'
      BY <2>18, <2>a DEF HandlePingResponse, Handle, Goto, PacketIds, UnsentIds,
         Unsent, PacketHandled, TypeInv, TypeOK
    <3>2. IF Duplication THEN Known' = Known ELSE Known \ {packet.ping} \subseteq Known'
      BY <2>18 DEF HandlePingResponse, Restrict, Known
    <3>7. packet.ping \in PingIds => packet.ping \in PacketIds
      BY <2>18 DEF HandlePingResponse, Handle, PacketIds, Carries
    <3>3. /\ \A t \in Servers : OutIds(t)' = OutIds(t) /\ InIds(t)' = InIds(t)
          /\ IdsOnce'
      BY <2>18 DEF HandlePingResponse, OutIds, InIds, PingInv, IdsOnce
    <3>4. UnsentIds \subseteq PingIds /\ \A t \in Servers : OutIds(t) \cup InIds(t) \subseteq PingIds
      BY DEF UnsentIds, OutIds, InIds, Ids
    <3>5. IdsKnown'
      BY <3>1, <3>2, <3>3, <3>4, <3>7 DEF PingInv, IdsKnown, IdsApart
    <3>6. IdsApart'
      BY <3>1, <3>3 DEF PingInv, IdsApart
    <3> QED
      BY <3>1, <3>3, <3>5, <3>6 DEF PingInv
  <2>19. CASE Heartbeat
    BY <2>19, <2>a, GoesOn, QueuesStay, NothingMoves, SendNoId DEF Heartbeat
  <2>20. CASE CheckHeartbeat
    BY <2>20, <2>a, <2>b, GoesOn, QueuesStay, NothingMoves DEF CheckHeartbeat
  <2>21. CASE FifteenSecondsPass \/ \E s \in Servers : ForgetClient(s)
    BY <2>21, <2>c, QueuesStay, NothingMoves DEF FifteenSecondsPass, ForgetClient
  <2>22. ASSUME NEW s \in Servers, Serve(s) PROVE PingInv'
    <3> DEFINE m == Head(toServer[s])
    <3>1. /\ \A t \in Servers : OutIds(t)' \subseteq OutIds(t) /\ Once(toServer'[t])
          /\ \A id \in PingIds : Carries(m, id) =>
               id \in OutIds(s) /\ (Duplication \/ id \notin OutIds(s)')
      <4>1. PICK rest \in Delivered(toServer[s]) :
              toServer' = [toServer EXCEPT ![s] = rest]
        BY <2>22 DEF Serve
      <4> QED
        BY <2>22, <4>1, ServedIds DEF Serve
    <3>2. m \in Requests
      BY <2>22, HeadTailProperties DEF Serve, TypeInv, TypeOK
    <3>3. /\ UNCHANGED <<pc, packet, ping, pingTimes, answered>>
          /\ UnsentIds' = UnsentIds /\ PacketIds' = PacketIds /\ PacketHandled'
      BY <2>22, <2>c DEF Serve
    <3>4. \/ m.kind = "Ping" /\ Answer(s, m, "PingResponse")
          \/ m.kind # "Ping" /\ \/ UNCHANGED toClient
                                \/ Answer(s, m, "CheckedIn")
                                \/ Answer(s, m, "KeepaliveResponse")
                                \/ Answer(s, m, "GameResponse")
                                \/ Answer(s, m, "ServerDisconnect")
      BY <2>22 DEF Serve
    <3> HIDE DEF m
    <3>5. CASE m.kind # "Ping"
      BY <3>1, <3>2, <3>3, <3>4, <3>5, QueuesStay, AnswerNoId, NothingMoves
    <3>6. CASE m.kind = "Ping" /\ UNCHANGED toClient
      BY <3>1, <3>3, <3>6, QueuesStay, NothingMoves
    <3>7. CASE m.kind = "Ping" /\ ~UNCHANGED toClient
      <4> DEFINE answer == [kind |-> "PingResponse", ping |-> m.ping]
      <4>1. /\ toClient' = [toClient EXCEPT ![s] = Append(@, answer)]
            /\ m.ping \in PingIds /\ answer \in Answers
        <5>1. m \in [kind : {"Ping"}, ping : PingIds]
          BY <3>2, <3>7 DEF Requests
        <5>2. toClient' = [toClient EXCEPT ![s] = Append(toClient[s], answer)]
          BY <3>4, <3>7 DEF Answer, Queued, TypeInv, TypeOK
        <5> QED
          BY <5>1, <5>2 DEF Answers
      <4>2. Carries(m, m.ping) /\ \A id \in PingIds : Carries(answer, id) => id = m.ping
        BY <3>7 DEF Carries
      <4>3. m.ping \in OutIds(s) /\ (Duplication \/ m.ping \notin OutIds(s)')
        BY <3>1, <4>1, <4>2
      <4> HIDE DEF answer
      <4>4. toClient[s] \in Seq(Answers) /\ Once(toClient[s])
        BY DEF TypeInv, TypeOK, PingInv, IdsOnce
      <4>5. Duplication \/ \A id \in Ids(toClient[s]) : ~Carries(answer, id)
        <5>1. (Duplication \/ m.ping \notin InIds(s)) /\ InIds(s) \subseteq PingIds
          BY <4>3 DEF PingInv, IdsApart, InIds, Ids
        <5> QED
          BY <4>2, <5>1 DEF InIds
      <4>6. /\ Once(Append(toClient[s], answer))
            /\ Ids(Append(toClient[s], answer)) \subseteq InIds(s) \cup {m.ping}
        <5>1. Ids(Append(toClient[s], answer)) \subseteq PingIds
          BY DEF Ids
        <5> QED
          BY <4>1, <4>2, <4>4, <4>5, <5>1, AppendedIds DEF InIds
      <4>7. /\ InIds(s)' \subseteq InIds(s) \cup {m.ping}
            /\ \A t \in Servers \ {s} : InIds(t)' = InIds(t)
            /\ \A t \in Servers : Once(toClient'[t])
        BY <4>1, <4>6 DEF InIds, TypeInv, TypeOK, PingInv, IdsOnce
      <4>8. IdsKnown'
        BY <3>1, <3>3, <4>3, <4>7 DEF PingInv, IdsKnown, Known
      <4>9. IdsApart'
        BY <3>1, <3>3, <4>3, <4>7 DEF PingInv, IdsApart
      <4> QED
        BY <3>1, <3>3, <4>7, <4>8, <4>9 DEF PingInv, IdsOnce
    <3> QED
      BY <3>5, <3>6, <3>7
  <2>23. CASE UNCHANGED vars
    BY <2>23, <2>c, QueuesStay, NothingMoves DEF vars
  <2> QED
    BY <2>1, <2>2, <2>3, <2>r, <2>4, <2>n, <2>5, <2>6, <2>7, <2>8, <2>9, <2>10,
       <2>11, <2>12, <2>13, <2>14, <2>15, <2>16, <2>17, <2>18, <2>19, <2>20, <2>21,
       <2>22, <2>23
    DEF Next, Ui, Main, Recv, Keepalive, ConnectionStep, Environment, ServersAnswer
<1> QED
  BY <1>1, <1>2, TypeInvariant, PTL DEF Spec

(* pingTimes.at in recvPacket finds every ping that is answered, whatever  *)
(* the order of the answers, and whichever datagrams are lost; only where  *)
(* they are delivered twice it can miss one that was answered before.      *)
THEOREM AnswersFindTheirPing == Spec => []PingAnswersKnown
<1>1. TypeInv /\ PingInv => PingAnswersKnown
  <2> SUFFICES ASSUME TypeInv, PingInv, NEW s \in Servers,
                      NEW m \in Range(toServer[s]) \cup Range(toClient[s]) \cup {packet},
                      m # None, m.kind \in {"Ping", "PingResponse"}
               PROVE  m.ping \in Known
    BY DEF PingAnswersKnown, Known
  <2>1. m \in Requests \cup Answers
    <3>1. /\ toServer[s] \in [1..Len(toServer[s]) -> Requests]
          /\ toClient[s] \in [1..Len(toClient[s]) -> Answers]
      BY LenProperties DEF TypeInv, TypeOK
    <3> QED
      BY <3>1 DEF Range, TypeInv, TypeOK
  <2>2. m.ping \in PingIds /\ Carries(m, m.ping)
    BY <2>1 DEF Requests, Answers, Carries
  <2>3. CASE m \in Range(toServer[s])
    <3>1. \E i \in 1..Len(toServer[s]) : m = toServer[s][i]
      BY <2>3, LenProperties DEF Range, TypeInv, TypeOK
    <3> QED
      BY <2>2, <3>1 DEF OutIds, Ids, PingInv, IdsKnown
  <2>4. CASE m \in Range(toClient[s])
    <3>1. \E i \in 1..Len(toClient[s]) : m = toClient[s][i]
      BY <2>4, LenProperties DEF Range, TypeInv, TypeOK
    <3> QED
      BY <2>2, <3>1 DEF InIds, Ids, PingInv, IdsKnown
  <2>5. CASE m = packet
    BY <2>2, <2>5 DEF PingInv, PacketHandled, PacketIds, IdsKnown
  <2> QED
    BY <2>3, <2>4, <2>5
<1> QED
  BY <1>1, TypeInvariant, PingInvariant, PTL
=============================================================================
