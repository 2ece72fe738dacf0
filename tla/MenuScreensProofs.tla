------------------------- MODULE MenuScreensProofs -------------------------
(***************************************************************************)
(* Proofs about MenuScreens, for all sets of servers and levels and all    *)
(* central servers.                                                        *)
(***************************************************************************)
EXTENDS MenuScreensProperties, FiniteSetTheorems, TLAPS

-----------------------------------------------------------------------------
(* The levels screen: what it does, and what is done to it.                *)
LEMMA LevelsSteps ==
  ASSUME [Next]_vars
  PROVE  \/ UNCHANGED levelsMenu
         \/ OpenLevels \/ LeaveLevels \/ OnRefreshButton \/ Update
         \/ SendRequest \/ LoseAnswer \/ StoreList \/ TellLoaded
         \/ \E asked \in downloads :
              LoadListFinished(asked) \/ LoadListFailed(asked) \/ NobodyWaits(asked)
BY DEF Next, vars, UpdateButton, EnterMainMenu, OnGlobedMenuButton, BackToMain,
       OnOpenLevelsButton, BackToServers, ServersOnTop, LevelsOnTop, Network,
       LevelsNetwork, LevelsScreenStep, LevelsNetworkStep, Search

(* Requests and answers together keep to the bound; an answer to a search  *)
(* finds a layer, and waiting ends with an answer.                         *)
LevelsInv ==
  /\ LevelsTypeOK
  /\ requests + answers <= MaxRequests
  /\ SearchAnswersLayer
  /\ WaitingIsAnswered

LEMMA LevelsInvariant == Spec => []LevelsInv
<1>1. Init => LevelsInv
  <2> SUFFICES ASSUME LevelsInit PROVE LevelsInv
    BY DEF Init
  <2> USE DEF LevelsInit
  <2>1. /\ requests \in 0..MaxRequests /\ answers \in 0..MaxRequests
        /\ requests + answers <= MaxRequests
    BY LevelsFinite
  <2>4. LevelsTypeOK
    BY <2>1 DEF LevelsTypeOK
  <2>2. SearchAnswersLayer
    BY DEF SearchAnswersLayer
  <2>3. WaitingIsAnswered
    BY DEF WaitingIsAnswered
  <2> QED
    BY <2>1, <2>2, <2>3, <2>4 DEF LevelsInv
<1>2. LevelsInv /\ [Next]_vars => LevelsInv'
  <2> SUFFICES ASSUME LevelsInv, [Next]_vars PROVE LevelsInv'
    OBVIOUS
  <2> USE LevelsFinite, NoneIsNoLayer
      DEF LevelsInv, LevelsTypeOK, SearchAnswersLayer, WaitingIsAnswered
  <2>1. CASE UNCHANGED levelsMenu
    BY <2>1 DEF levelsMenu
  <2>2. CASE OpenLevels \/ OnRefreshButton
    <3>1. PICK l \in Layer : Ask(l) /\ ~l.fetchingLevels /\ ~l.loadingCircle
      <4>1. NewLayer \in Layer /\ ~NewLayer.fetchingLevels /\ ~NewLayer.loadingCircle
        BY DEF NewLayer, Layer
      <4>2. CASE OpenLevels
        BY <4>1, <4>2 DEF OpenLevels
      <4>3. CASE OnRefreshButton
        BY <4>3 DEF OnRefreshButton
      <4> QED
        BY <2>2, <4>2, <4>3
    <3>2. layer' \in Layer /\ ~layer'.fetchingLevels /\ ~layer'.loadingCircle
      BY <3>1 DEF Ask, Layer
    <3>3. requests' \in 0..MaxRequests /\ requests' + answers' <= MaxRequests
          /\ requests' + answers' > 0
      BY <2>2 DEF OpenLevels, OnRefreshButton, Ask
    <3> QED
      BY <2>2, <3>1, <3>2, <3>3 DEF OpenLevels, OnRefreshButton, Ask
  <2>3. CASE LeaveLevels
    BY <2>3 DEF LeaveLevels
  <2>4. CASE Update
    <3>1. layer' \in Layer /\ layer'.fetchingLevels /\ layer'.loadingCircle
      BY <2>4 DEF Update, Layer
    <3>2. downloads' \in SUBSET (SUBSET Levels) /\ downloads' # {}
      BY <2>4 DEF Update
    <3> QED
      BY <2>4, <3>1, <3>2 DEF Update
  <2>5. CASE SendRequest \/ LoseAnswer
    <3>1. /\ requests' \in 0..MaxRequests /\ answers' \in 0..MaxRequests
          /\ requests' + answers' <= MaxRequests
          /\ requests' + answers' > 0 \/ unanswered' \/ requests' + answers' = 0
      BY <2>5 DEF SendRequest, LoseAnswer
    <3>2. \/ requests' + answers' = requests + answers /\ unanswered' = unanswered
          \/ unanswered' = TRUE
      BY <2>5 DEF SendRequest, LoseAnswer
    <3>3. UNCHANGED <<layer, levelsLoading, levelsList, levelDataCache,
                      onlineDelegate, storing, downloads>>
      BY <2>5 DEF SendRequest, LoseAnswer
    <3>4. LevelsTypeOK' /\ SearchAnswersLayer'
      BY <3>1, <3>2, <3>3
    <3>5. WaitingIsAnswered'
      BY <3>2, <3>3
    <3> QED
      BY <3>1, <3>4, <3>5
  <2>6. CASE StoreList \/ TellLoaded
    <3>1. /\ answers' \in 0..MaxRequests
          /\ requests' + answers' <= MaxRequests
      BY <2>6 DEF StoreList, TellLoaded
    <3>2. UNCHANGED <<layer, levelDataCache, onlineDelegate, requests, downloads,
                      unanswered>>
      BY <2>6 DEF StoreList, TellLoaded
    <3>3. levelsList' \in SUBSET Levels
      BY <2>6 DEF StoreList, TellLoaded
    <3>4. \/ storing' = TRUE /\ levelsLoading' = levelsLoading
          \/ storing' = FALSE /\ levelsLoading' = FALSE
      BY <2>6 DEF StoreList, TellLoaded
    <3> QED
      BY <3>1, <3>2, <3>3, <3>4
  <2>7. ASSUME NEW asked \in downloads,
               LoadListFinished(asked) \/ LoadListFailed(asked) \/ NobodyWaits(asked)
        PROVE  LevelsInv'
    <3>1. ASSUME NEW cache \in SUBSET Levels, layer # None
          PROVE  /\ Loaded(cache) \in Layer
                 /\ ~Loaded(cache).fetchingLevels /\ ~Loaded(cache).loadingCircle
                 /\ ~Loaded(cache).stillLoading
      BY <3>1 DEF Loaded, Layer
    <3>2. CASE LoadListFinished(asked)
      <4>1. PICK found \in SUBSET asked :
              levelDataCache' = levelDataCache \cup found
              /\ layer' = Loaded(levelDataCache')
        BY <3>2 DEF LoadListFinished
      <4>2. levelDataCache' \in SUBSET Levels
        BY <4>1
      <4> QED
        BY <3>2, <4>1, <4>2, <3>1 DEF LoadListFinished
    <3>3. CASE LoadListFailed(asked)
      BY <3>3, <3>1 DEF LoadListFailed
    <3>4. CASE NobodyWaits(asked)
      BY <3>4 DEF NobodyWaits
    <3> QED
      BY <2>7, <3>2, <3>3, <3>4
  <2> QED
    BY <2>1, <2>2, <2>3, <2>4, <2>5, <2>6, <2>7, LevelsSteps
<1> QED
  BY <1>1, <1>2, PTL DEF Spec

(* No answer reaches a layer that is gone, and each layer that shows the   *)
(* loading circle gets one.                                                *)
THEOREM SearchesAnswered == Spec => []SearchAnswersLayer
<1>1. LevelsInv => SearchAnswersLayer
  BY DEF LevelsInv
<1> QED
  BY <1>1, LevelsInvariant, PTL

(* Only a lost request or answer makes the levels screen wait in vain.     *)
THEOREM WaitingEnds == Spec => []WaitingIsAnswered
<1>1. LevelsInv => WaitingIsAnswered
  BY DEF LevelsInv
<1> QED
  BY <1>1, LevelsInvariant, PTL

-----------------------------------------------------------------------------
(* What the network threads, and the menus, do to the globals.             *)
LEMMA NetworkSteps ==
  ASSUME [Next]_vars
  PROVE  \/ UNCHANGED network
         \/ Disconnect \/ \E s \in Servers : ConnectToServer(s)
         \/ CentralServerChanged
         \/ CheckedIn \/ CopyPing \/ KeepaliveResponse
         \/ \E s \in UNION serverLists : PingResponse(s)
         \/ LeaveForCentral \/ ForgetPings \/ ClearServers \/ FetchServers \/ FillServers
         \/ HardRefresh
BY DEF Next, vars, UpdateButton, EnterMainMenu, MenuLayerEntry, OnGlobedMenuButton,
       OpenServerList, BackToMain, CloseServerList, OnOpenLevelsButton, BackToServers,
       ServersOnTop, ServerListStep, MakeCells, RefreshWeak, EndRefresh, RefreshCell,
       OnConnect, ApplyCentralUrl, LevelsOnTop, Network, NetworkStep, LoseConnection,
       LevelsNetwork, network

LEMMA NetworkTypeCorrect == Spec => []NetworkTypeOK
<1>1. Init => NetworkTypeOK
  BY ListsOfServers DEF Init, NetworkInit, NetworkTypeOK
<1>2. NetworkTypeOK /\ [Next]_vars => NetworkTypeOK'
  <2> SUFFICES ASSUME NetworkTypeOK, [Next]_vars PROVE NetworkTypeOK'
    OBVIOUS
  <2> USE DEF NetworkTypeOK
  <2>0. serverLists \subseteq SUBSET Servers
    BY ListsOfServers
  <2>1. CASE UNCHANGED network
    BY <2>1 DEF network
  <2>2. PingsAfterDisconnect \in SUBSET Servers
    BY DEF PingsAfterDisconnect
  <2>3. CASE Disconnect
    BY <2>2, <2>3 DEF Disconnect, LeaveServer
  <2>4. ASSUME NEW s \in Servers, ConnectToServer(s) PROVE NetworkTypeOK'
    BY <2>2, <2>4 DEF ConnectToServer, LeaveServer
  <2>5. CASE CentralServerChanged
    BY <2>5 DEF CentralServerChanged
  <2>6. CASE CheckedIn
    BY <2>6 DEF CheckedIn
  <2>7. CASE CopyPing
    BY <2>7 DEF CopyPing
  <2>8. CASE KeepaliveResponse
    BY <2>8 DEF KeepaliveResponse
  <2>9. ASSUME NEW s \in UNION serverLists, PingResponse(s) PROVE NetworkTypeOK'
    BY <2>0, <2>9 DEF PingResponse
  <2>10. CASE LeaveForCentral
    BY <2>2, <2>10 DEF LeaveForCentral, LeaveServer
  <2>11. CASE ForgetPings \/ ClearServers \/ FetchServers
    BY <2>11 DEF ForgetPings, ClearServers, FetchServers
  <2>12. CASE FillServers
    BY <2>0, <2>12 DEF FillServers, PartsOfLists
  <2>13. CASE HardRefresh
    BY <2>0, <2>13 DEF HardRefresh, PartsOfLists
  <2> QED
    BY <2>1, <2>3, <2>4, <2>5, <2>6, <2>7, <2>8, <2>9, <2>10, <2>11, <2>12, <2>13,
       NetworkSteps
<1> QED
  BY <1>1, <1>2, PTL DEF Spec

-----------------------------------------------------------------------------
(* The server list: what it does, and what is done to it.                  *)
LEMMA ListSteps ==
  ASSUME [Next]_vars
  PROVE  \/ UNCHANGED <<menu, screen>> /\ UNCHANGED network
         \/ screen = "main" /\ UNCHANGED <<menu, screen>>
         \/ OnGlobedMenuButton \/ BackToMain \/ BackToServers
         \/ /\ UNCHANGED <<cells, levelsBtn, refresh, crashed>> /\ undisturbed' = FALSE
            /\ screen' # "main" \/ UNCHANGED screen
         \/ /\ ServersOnTop
            /\ \/ MakeCells \/ RefreshWeak \/ EndRefresh \/ HardRefresh
               \/ \E s \in Servers : RefreshCell(s)
               \/ ApplyCentralUrl
         \/ Network
BY DEF Next, vars, UpdateButton, EnterMainMenu, OnOpenLevelsButton,
       ServersOnTop, ServerListStep, OnConnect, LevelsOnTop,
       LevelsNetwork, menu

(* A button is there when the cell was last told that its server is        *)
(* online.                                                                 *)
TrueCell == {c \in Cell : c.button = "shown" <=> c.online}

CellsThere == \E shown \in SUBSET Servers : cells \in [shown -> TrueCell]

(* The cell of s shows what is true.                                       *)
Truth(s) ==
  /\ cells[s].active <=> Active(s)
  /\ cells[s].online <=> Online(s)
  /\ cells[s].button = "shown" <=> Online(s)

(* Of a refresh that nobody disturbs: the servers it has copied are those  *)
(* there are, and the cells it has been to show the truth.                 *)
Undisturbed ==
  /\ screen # "main"
  /\ ServersUnlocked
  /\ refresh.at # "idle" => refresh.servers = gameServers
  /\ refresh.at = "cells" =>
       \A s \in DOMAIN cells : s \in refresh.servers => s \in refresh.todo \/ Truth(s)

ListInv ==
  /\ MenuTypeOK
  /\ cells = None \/ CellsThere
  /\ refresh.at = "cells" => CellsThere
  /\ screen = "main" => refresh.at = "idle"
  /\ undisturbed => Undisturbed
  /\ RefreshShowsTruth

LEMMA NewCellTrue ==
  ASSUME NEW s PROVE NewCell(s) \in TrueCell
<1>1. NewCell(s) \in Cell
  BY DEF NewCell, Cell, Buttons, Active, Online
<1>2. NewCell(s).button = "shown" <=> NewCell(s).online
  BY DEF NewCell, Online, Active
<1> QED
  BY <1>1, <1>2 DEF TrueCell

LEMMA UpdatedTrue ==
  ASSUME NEW s, cells[s] \in TrueCell
  PROVE  /\ UpdateValues(s) \in TrueCell
         /\ UpdateValues(s).active <=> Active(s)
         /\ UpdateValues(s).online <=> Online(s)
         /\ UpdateValues(s).button = "shown" <=> Online(s)
<1> DEFINE kept == Active(s) = cells[s].active /\ Online(s) = cells[s].online
                     /\ cells[s].button # "none"
<1>1. cells[s] \in Cell /\ (cells[s].button = "shown" <=> cells[s].online)
  BY DEF TrueCell
<1>2. CASE kept
  BY <1>1, <1>2 DEF UpdateValues
<1>3. CASE ~kept
  <2> DEFINE new == [active |-> Active(s), online |-> Online(s),
                     button |-> IF Online(s) THEN "shown"
                                ELSE IF cells[s].button = "none" THEN "none" ELSE "freed"]
  <2>1. UpdateValues(s) = new
    BY <1>3 DEF UpdateValues
  <2>2. Active(s) \in BOOLEAN /\ Online(s) \in BOOLEAN
    BY DEF Active, Online
  <2>3. new \in Cell
    BY <2>2 DEF Cell, Buttons
  <2>4. new.button = "shown" <=> new.online
    OBVIOUS
  <2> QED
    BY <2>1, <2>3, <2>4 DEF TrueCell
<1> QED
  BY <1>2, <1>3

LEMMA SameServersEqual ==
  ASSUME CellsThere, refresh.servers \in SUBSET Servers, SameServers
  PROVE  DOMAIN cells = refresh.servers
<1> DEFINE D == DOMAIN cells
           R == refresh.servers
<1>1. IsFiniteSet(D) /\ IsFiniteSet(R)
  BY ListsOfServers, FS_Subset DEF CellsThere
<1>2. D \cap R = D
  BY <1>1, FS_Subset, D \cap R \in SUBSET D DEF SameServers
<1>3. D \in SUBSET R
  BY <1>2
<1> QED
  BY <1>1, <1>3, FS_Subset DEF SameServers

LEMMA ListInvariant == Spec => []ListInv
<1>1. Init => ListInv
  <2> SUFFICES ASSUME MenuInit PROVE ListInv
    BY DEF Init
  <2>1. refresh \in [at : {"idle", "cells", "make", "remake"},
                    servers : SUBSET Servers, todo : SUBSET Servers]
        /\ refresh.at = "idle"
    BY DEF MenuInit, NotRefreshing
  <2>2. MenuTypeOK
    BY <2>1 DEF MenuInit, MenuTypeOK
  <2> QED
    BY <2>1, <2>2 DEF MenuInit, ListInv, RefreshShowsTruth
<1>2. NetworkTypeOK /\ ListInv /\ [Next]_vars => ListInv'
  <2> SUFFICES ASSUME NetworkTypeOK, ListInv, [Next]_vars PROVE ListInv'
    OBVIOUS
  <2> DEFINE Frames == [at : {"idle", "cells", "make", "remake"},
                        servers : SUBSET Servers, todo : SUBSET Servers]
  <2>0. /\ gameServers \in SUBSET Servers /\ serverLists \subseteq SUBSET Servers
        /\ PartsOfLists \subseteq SUBSET Servers
    BY ListsOfServers DEF NetworkTypeOK, PartsOfLists
  <2>1. CASE UNCHANGED <<menu, screen>> /\ UNCHANGED network
    BY <2>1 DEF ListInv, menu, network, MenuTypeOK, CellsThere, Undisturbed,
                RefreshShowsTruth, Truth, Active, Online, ServersUnlocked
  <2>2. CASE screen = "main" /\ UNCHANGED <<menu, screen>>
    <3>1. undisturbed' = FALSE
      BY <2>2 DEF ListInv, Undisturbed, menu, MenuTypeOK
    <3> QED
      BY <2>2, <3>1 DEF ListInv, menu, MenuTypeOK, CellsThere, RefreshShowsTruth
  <2>3. CASE OnGlobedMenuButton
    <3>1. /\ refresh' \in Frames /\ refresh'.at = "make"
          /\ ServersUnlocked => refresh'.servers = gameServers'
      <4>1. PICK seen \in SeenServers :
              refresh' = [at |-> "make", servers |-> seen, todo |-> {}]
        BY <2>3 DEF OnGlobedMenuButton, OpenServerList, StartMaking
      <4>2. gameServers' = gameServers
        BY <2>3 DEF OnGlobedMenuButton, OpenServerList, network
      <4> QED
        BY <2>0, <4>1, <4>2 DEF SeenServers
    <3>2. DOMAIN cells' = {} /\ cells' \in [{} -> TrueCell] /\ cells' \in [{} -> Cell]
      BY <2>3 DEF OnGlobedMenuButton, OpenServerList
    <3>3. /\ screen' = "servers" /\ levelsBtn' = TRUE /\ crashed' = crashed
          /\ undisturbed' = ServersUnlocked /\ ServersUnlocked' = ServersUnlocked
      BY <2>3 DEF OnGlobedMenuButton, OpenServerList, network, ServersUnlocked
    <3>4. MenuTypeOK'
      BY <3>1, <3>2, <3>3 DEF ListInv, MenuTypeOK, ServersUnlocked
    <3>5. CellsThere'
      BY <3>2 DEF CellsThere
    <3> QED
      BY <3>1, <3>3, <3>4, <3>5 DEF ListInv, Undisturbed, RefreshShowsTruth
  <2>4. CASE BackToMain
    <3>1. /\ cells' = None /\ refresh' = refresh /\ refresh.at = "idle"
          /\ undisturbed' = FALSE /\ levelsBtn' = FALSE /\ crashed' = crashed
      BY <2>4 DEF BackToMain, CloseServerList
    <3> QED
      BY <3>1 DEF ListInv, MenuTypeOK, RefreshShowsTruth
  <2>5. CASE BackToServers
    BY <2>5 DEF BackToServers, ListInv, menu, network, MenuTypeOK, CellsThere, Undisturbed,
                RefreshShowsTruth, Truth, Active, Online, ServersUnlocked
  <2>6. CASE /\ UNCHANGED <<cells, levelsBtn, refresh, crashed>> /\ undisturbed' = FALSE
             /\ screen' # "main" \/ UNCHANGED screen
    BY <2>6 DEF ListInv, MenuTypeOK, CellsThere, RefreshShowsTruth
  <2>7. CASE ServersOnTop /\ MakeCells
    <3>1. /\ cells' \in [refresh.servers -> TrueCell]
          /\ \A s \in refresh.servers : cells'[s] = NewCell(s)
          /\ DOMAIN cells' = refresh.servers
      BY <2>7, NewCellTrue DEF MakeCells
    <3>2. cells' \in [refresh.servers -> Cell] /\ refresh.servers \in SUBSET Servers
      BY <3>1 DEF TrueCell, ListInv, MenuTypeOK
    <3>3. /\ refresh' = NotRefreshing /\ levelsBtn' \in BOOLEAN
          /\ UNCHANGED <<network, undisturbed, crashed, screen>> /\ refresh.at # "idle"
      BY <2>7 DEF MakeCells, ServersOnTop, ListInv, MenuTypeOK, NetworkTypeOK
    <3>4. MenuTypeOK'
      BY <3>2, <3>3 DEF MenuTypeOK, NotRefreshing, ListInv
    <3>5. CellsThere'
      BY <3>1, <3>2 DEF CellsThere
    <3>6. ASSUME NEW s \in refresh.servers PROVE Truth(s)'
      <4>1. Active(s)' = Active(s) /\ Online(s)' = Online(s)
        BY <3>3 DEF Active, Online, network
      <4>2. NewCell(s).active = Active(s) /\ NewCell(s).online = Online(s)
        BY DEF NewCell
      <4>3. NewCell(s).button = "shown" <=> Online(s)
        BY DEF NewCell
      <4> QED
        BY <3>1, <4>1, <4>2, <4>3 DEF Truth
    <3>7. RefreshShowsTruth'
      BY <3>1, <3>3, <3>6 DEF RefreshShowsTruth, Truth, ListInv, Undisturbed, network
    <3>8. undisturbed' => Undisturbed'
      BY <3>3 DEF ListInv, Undisturbed, NotRefreshing, ServersUnlocked, network
    <3> QED
      BY <3>3, <3>4, <3>5, <3>7, <3>8 DEF ListInv, NotRefreshing
  <2>8. CASE ServersOnTop /\ RefreshWeak
    <3>1. CellsThere /\ screen' = "servers" /\ ServersUnlocked
      BY <2>8 DEF RefreshWeak, ServersOnTop, ListInv
    <3>2. /\ refresh' = [at |-> "cells", servers |-> gameServers, todo |-> DOMAIN cells]
          /\ UNCHANGED <<network, cells, levelsBtn, crashed>> /\ undisturbed' = TRUE
      BY <2>8 DEF RefreshWeak
    <3>3. DOMAIN cells \in SUBSET Servers
      BY <3>1 DEF CellsThere
    <3>4. MenuTypeOK'
      BY <2>0, <3>2, <3>3 DEF MenuTypeOK, ListInv
    <3>5. CellsThere'
      BY <3>1, <3>2 DEF CellsThere
    <3>6. Undisturbed'
      BY <3>1, <3>2 DEF Undisturbed, ServersUnlocked, network
    <3> QED
      BY <3>1, <3>2, <3>4, <3>5, <3>6 DEF ListInv, RefreshShowsTruth
  <2>9. CASE ServersOnTop /\ EndRefresh
    <3>1. /\ UNCHANGED <<network, cells, undisturbed, crashed, screen>> /\ screen = "servers"
          /\ refresh.at = "cells" /\ refresh.todo = {} /\ CellsThere
          /\ refresh.servers \in SUBSET Servers
      BY <2>9 DEF EndRefresh, ServersOnTop, ListInv, MenuTypeOK
    <3>2. CellsThere'
      BY <3>1 DEF CellsThere
    <3>3. CASE SameServers
      <4>1. refresh' = NotRefreshing /\ levelsBtn' \in BOOLEAN
        BY <2>9, <3>3 DEF EndRefresh, NetworkTypeOK
      <4>2. MenuTypeOK'
        BY <3>1, <4>1 DEF MenuTypeOK, NotRefreshing, ListInv
      <4>3. ASSUME undisturbed
            PROVE  DOMAIN cells = gameServers /\ \A s \in gameServers : Truth(s)
        BY <3>1, <3>3, <4>3, SameServersEqual DEF ListInv, Undisturbed
      <4>4. RefreshShowsTruth'
        BY <3>1, <4>3 DEF RefreshShowsTruth, Truth, Active, Online, network
      <4>5. undisturbed' => Undisturbed'
        BY <3>1, <4>1 DEF ListInv, Undisturbed, NotRefreshing, ServersUnlocked, network
      <4> QED
        BY <3>1, <3>2, <4>1, <4>2, <4>4, <4>5 DEF ListInv, NotRefreshing
    <3>4. CASE ~SameServers
      <4>1. /\ refresh' \in Frames /\ refresh'.at = "remake" /\ levelsBtn' = levelsBtn
            /\ ServersUnlocked => refresh'.servers = gameServers
        BY <2>0, <2>9, <3>4 DEF EndRefresh, StartMaking, SeenServers
      <4>2. MenuTypeOK'
        BY <3>1, <4>1 DEF MenuTypeOK, ListInv
      <4>3. undisturbed' => Undisturbed'
        BY <3>1, <4>1 DEF ListInv, Undisturbed, ServersUnlocked, network
      <4> QED
        BY <3>1, <3>2, <4>1, <4>2, <4>3 DEF ListInv, RefreshShowsTruth
    <3> QED
      BY <3>3, <3>4
  <2>10. CASE ServersOnTop /\ HardRefresh
    <3>1. /\ gameServers' \in SUBSET Servers /\ undisturbed' = TRUE
          /\ refresh' = [at |-> "make", servers |-> gameServers', todo |-> {}]
          /\ UNCHANGED <<cells, levelsBtn, crashed, central>> /\ central # "filling"
          /\ screen' = "servers"
      BY <2>0, <2>10 DEF HardRefresh, ServersOnTop, ServersUnlocked
    <3>2. MenuTypeOK'
      BY <3>1 DEF MenuTypeOK, ListInv
    <3>3. cells' = None \/ CellsThere'
      BY <3>1 DEF CellsThere, ListInv
    <3> QED
      BY <3>1, <3>2, <3>3 DEF ListInv, Undisturbed, RefreshShowsTruth, ServersUnlocked
  <2>11. ASSUME NEW s \in Servers, ServersOnTop /\ RefreshCell(s) PROVE ListInv'
    <3>1. /\ CellsThere /\ refresh.at = "cells" /\ s \in refresh.todo
          /\ screen' = screen /\ UNCHANGED <<network, levelsBtn, undisturbed>>
          /\ refresh' = [refresh EXCEPT !.todo = @ \ {s}]
          /\ crashed' \in BOOLEAN
      BY <2>11 DEF RefreshCell, ServersOnTop, ListInv, MenuTypeOK
    <3>2. /\ refresh' \in Frames /\ refresh'.at = "cells"
          /\ refresh'.servers = refresh.servers /\ refresh'.todo = refresh.todo \ {s}
      BY <3>1 DEF ListInv, MenuTypeOK
    <3>3. PICK shown \in SUBSET Servers : cells \in [shown -> TrueCell]
      BY <3>1 DEF CellsThere
    <3>4. /\ cells' \in [shown -> TrueCell]
          /\ \A t \in shown : t # s => cells'[t] = cells[t]
          /\ s \in shown /\ s \in refresh.servers => cells'[s] = UpdateValues(s)
      BY <2>11, <3>3, UpdatedTrue DEF RefreshCell
    <3>5. cells' \in [shown -> Cell] /\ DOMAIN cells' = shown /\ DOMAIN cells = shown
      BY <3>3, <3>4 DEF TrueCell
    <3>6. MenuTypeOK'
      BY <3>1, <3>2, <3>5 DEF MenuTypeOK, ListInv
    <3>7. CellsThere'
      BY <3>4 DEF CellsThere
    <3>8. ASSUME undisturbed, NEW t \in shown, t \in refresh.servers, t \notin refresh'.todo
          PROVE  Truth(t)'
      <4>0. /\ Active(t)' = Active(t) /\ Online(t)' = Online(t)
        BY <3>1 DEF Active, Online, network
      <4>1. CASE t = s
        <5>1. cells'[t] = UpdateValues(t) /\ cells[t] \in TrueCell
          BY <3>3, <3>4, <3>8, <4>1
        <5> QED
          BY <4>0, <5>1, UpdatedTrue DEF Truth
      <4>2. CASE t # s
        <5>1. cells'[t] = cells[t] /\ Truth(t)
          BY <3>1, <3>2, <3>4, <3>5, <3>8, <4>2 DEF ListInv, Undisturbed
        <5> QED
          BY <4>0, <5>1 DEF Truth
      <4> QED
        BY <4>1, <4>2
    <3>9. undisturbed' => Undisturbed'
      BY <3>1, <3>2, <3>5, <3>8 DEF Undisturbed, ListInv, ServersUnlocked, network
    <3> QED
      BY <3>1, <3>2, <3>6, <3>7, <3>9 DEF ListInv, RefreshShowsTruth, Undisturbed
  <2>12. CASE ServersOnTop /\ ApplyCentralUrl
    <3>1. UNCHANGED <<menu, screen, gameServers, gameServerId, established, pings>>
          /\ central' # "filling"
      BY <2>12 DEF ApplyCentralUrl, CentralServerChanged, ServersOnTop
    <3> QED
      BY <3>1 DEF ListInv, menu, MenuTypeOK, CellsThere, Undisturbed,
                  RefreshShowsTruth, Truth, Active, Online, ServersUnlocked
  <2>13. CASE Network
    <3>1. UNCHANGED <<cells, levelsBtn, refresh, crashed, screen>>
          /\ undisturbed' \in BOOLEAN
      BY <2>13 DEF Network, ListInv, MenuTypeOK
    <3>2. undisturbed' => /\ undisturbed /\ central' # "filling"
                         /\ UNCHANGED <<gameServers, gameServerId, established, pings>>
      BY <2>13 DEF Network
    <3>3. MenuTypeOK' /\ (CellsThere' <=> CellsThere)
      BY <3>1 DEF MenuTypeOK, ListInv, CellsThere
    <3>4. undisturbed' => Undisturbed' /\ RefreshShowsTruth'
      BY <3>1, <3>2 DEF ListInv, Undisturbed, RefreshShowsTruth, Truth, Active, Online,
                        ServersUnlocked
    <3> QED
      BY <3>1, <3>3, <3>4 DEF ListInv, RefreshShowsTruth
  <2> QED
    BY <2>1, <2>2, <2>3, <2>4, <2>5, <2>6, <2>7, <2>8, <2>9, <2>10, <2>11, <2>12,
       <2>13, ListSteps
<1> QED
  BY <1>1, <1>2, NetworkTypeCorrect, PTL DEF Spec

(* Every server list that is ever shown, after a refresh that was left     *)
(* undisturbed, is right, however many servers there are and whatever the  *)
(* network threads and the user have done before.                          *)
THEOREM RefreshIsTrue == Spec => []RefreshShowsTruth
<1>1. ListInv => RefreshShowsTruth
  BY DEF ListInv
<1> QED
  BY <1>1, ListInvariant, PTL

(* The types of all variables of the menus.                                *)
THEOREM TypeCorrect == Spec => []TypeOK
<1> DEFINE ScreenOK == screen \in {"main", "servers", "levels"} /\ btnIsConnected \in BOOLEAN
<1>1. Init => ScreenOK
  BY DEF Init
<1>2. NetworkTypeOK /\ ScreenOK /\ [Next]_vars => ScreenOK'
  <2> SUFFICES ASSUME NetworkTypeOK, ScreenOK, [Next]_vars PROVE ScreenOK'
    OBVIOUS
  <2> QED
    BY DEF Next, vars, NetworkTypeOK, UpdateButton, EnterMainMenu, OnGlobedMenuButton,
           BackToMain, OnOpenLevelsButton, BackToServers, ServersOnTop, LevelsOnTop,
           Network, LevelsNetwork
<1>3. NetworkTypeOK /\ ListInv /\ LevelsInv /\ ScreenOK => TypeOK
  BY DEF TypeOK, ListInv, LevelsInv
<1> QED
  BY <1>1, <1>2, <1>3, NetworkTypeCorrect, ListInvariant, LevelsInvariant, PTL DEF Spec
=============================================================================
