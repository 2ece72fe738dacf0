----------------------------- MODULE ServerList -----------------------------
(***************************************************************************)
(* The server list (src/ui/menu/globed_menu_layer.cpp) and its cells       *)
(* (server_list_cell.hpp).  refreshWeak runs every tenth of a second: it   *)
(* copies the servers and then updates cell after cell, each with what the *)
(* network threads have written by then; when servers have come or gone,   *)
(* refreshServers makes all cells anew.  The button of a cell does what    *)
(* the cell last noted, not what is true when it is pressed.               *)
(*                                                                         *)
(* A cell that goes offline takes its button away but keeps the pointer,   *)
(* and the next change uses it: the outcome is that nothing more happens,  *)
(* or that the game crashes.                                               *)
(***************************************************************************)
EXTENDS MenuNetwork

VARIABLES
  cells,      \* the cells: server -> m_active, m_online, m_connectBtn; or None
  levelsBtn,  \* is m_serverLevelsBtn visible?
  refresh,    \* how far refreshWeak or refreshServers has come
  undisturbed,  \* no write of the network threads since the refresh began?
  crashed     \* a freed button has been used, and the game is gone

menu == <<cells, levelsBtn, refresh, undisturbed, crashed>>

Buttons == {"none", "shown", "freed"}
Cell == [active : BOOLEAN, online : BOOLEAN, button : Buttons]

(* at: what comes next, the cells one by one or all of them anew; servers: *)
(* m_internalServers; todo: cells not yet looked at.                       *)
NotRefreshing == [at |-> "idle", servers |-> {}, todo |-> {}]

MenuTypeOK ==
  /\ \/ cells = None
     \/ \E shown \in SUBSET Servers : cells \in [shown -> Cell]
  /\ refresh \in [at : {"idle", "cells", "make", "remake"},
                   servers : SUBSET Servers, todo : SUBSET Servers]
  /\ levelsBtn \in BOOLEAN /\ undisturbed \in BOOLEAN /\ crashed \in BOOLEAN

MenuInit ==
  /\ cells = None /\ levelsBtn = FALSE
  /\ refresh = NotRefreshing
  /\ undisturbed = FALSE /\ crashed = FALSE

-----------------------------------------------------------------------------
(* What a cell is told: active and online.                                 *)
Active(s) == established /\ gameServerId = s

Online(s) == Active(s) \/ s \in pings

(* ServerListCell::init.                                                   *)
NewCell(s) ==
  [active |-> Active(s), online |-> Online(s),
   button |-> IF Online(s) THEN "shown" ELSE "none"]

(* Faulty: the button is only renewed when the server comes or goes.       *)
UpdateOnline(s) ==
  IF Online(s) = cells[s].online /\ cells[s].button # "none" THEN cells[s]
  ELSE [active |-> Active(s), online |-> Online(s),
        button |-> IF Online(s) THEN "shown"
                   ELSE IF cells[s].button = "none" THEN "none" ELSE "freed"]

(* updateValues: the button is renewed when something has changed or there *)
(* is none.                                                                *)
UpdateValues(s) ==
  IF Active(s) = cells[s].active /\ Online(s) = cells[s].online
       /\ cells[s].button # "none"
    THEN cells[s]
  ELSE [active |-> Active(s), online |-> Online(s),
        button |-> IF Online(s) THEN "shown"
                   ELSE IF cells[s].button = "none" THEN "none" ELSE "freed"]

-----------------------------------------------------------------------------
(* m_internalServers = g_gameServers, in refreshServers without the mutex: *)
(* while the list is being filled, any part of it may be seen.             *)
SeenServers ==
  IF ServersUnlocked THEN {gameServers} ELSE PartsOfLists

StartMaking(at) ==
  \E seen \in SeenServers : refresh' = [at |-> at, servers |-> seen, todo |-> {}]

(* createServerList, under g_gameServerMutex, and, when refreshWeak called *)
(* for it, the rest of that.                                               *)
MakeCells ==
  /\ refresh.at \in {"make", "remake"} /\ ServersUnlocked
  /\ cells' = [s \in refresh.servers |-> NewCell(s)]
  /\ levelsBtn' = IF refresh.at = "remake" THEN established ELSE levelsBtn
  /\ refresh' = NotRefreshing
  /\ UNCHANGED <<network, undisturbed, crashed>>

OpenServerList ==
  /\ cells = None
  /\ cells' = [s \in {} |-> NewCell(s)]
  /\ StartMaking("make")
  /\ levelsBtn' = TRUE
  /\ undisturbed' = ServersUnlocked
  /\ UNCHANGED <<network, crashed>>

CloseServerList ==
  /\ cells # None /\ refresh.at = "idle"
  /\ cells' = None
  /\ levelsBtn' = FALSE /\ undisturbed' = FALSE
  /\ UNCHANGED <<network, refresh, crashed>>

RefreshWeak ==
  /\ cells # None /\ refresh.at = "idle" /\ ServersUnlocked
  /\ refresh' = [at |-> "cells", servers |-> gameServers, todo |-> DOMAIN cells]
  /\ undisturbed' = TRUE
  /\ UNCHANGED <<network, cells, levelsBtn, crashed>>

(* One turn of the loop.  A cell whose server is gone is left as it is.    *)
RefreshCell(s) ==
  /\ refresh.at = "cells" /\ s \in refresh.todo /\ ServersUnlocked
  /\ refresh' = [refresh EXCEPT !.todo = @ \ {s}]
  /\ IF s \in refresh.servers
       THEN /\ cells' = [cells EXCEPT ![s] = UpdateValues(s)]
            /\ \/ UNCHANGED crashed
               \/ /\ cells[s].button = "freed" /\ cells'[s] # cells[s]
                  /\ crashed' = TRUE
       ELSE UNCHANGED <<cells, crashed>>
  /\ UNCHANGED <<network, levelsBtn, undisturbed>>

(* Faulty: only the number of the servers is compared.                     *)
SameNumber == Cardinality(DOMAIN cells) = Cardinality(refresh.servers)

(* updated = count and count = m_internalServers.size().                   *)
SameServers ==
  /\ Cardinality(DOMAIN cells \cap refresh.servers) = Cardinality(DOMAIN cells)
  /\ Cardinality(DOMAIN cells) = Cardinality(refresh.servers)

EndRefresh ==
  /\ refresh.at = "cells" /\ refresh.todo = {}
  /\ IF SameServers
       THEN refresh' = NotRefreshing /\ levelsBtn' = established
       ELSE StartMaking("remake") /\ UNCHANGED levelsBtn
  /\ UNCHANGED <<network, cells, undisturbed, crashed>>

(* onHardRefreshButton asks the central server itself, then makes the list *)
(* anew.                                                                   *)
HardRefresh ==
  /\ cells # None /\ refresh.at = "idle" /\ ServersUnlocked
  /\ gameServers' \in PartsOfLists \cup {gameServers}
  /\ refresh' = [at |-> "make", servers |-> gameServers', todo |-> {}]
  /\ undisturbed' = TRUE
  /\ UNCHANGED <<serverLists, gameServerId, established, gamePing, pings, answerDue, copyPing,
                 central, cells, levelsBtn, crashed>>

(* onConnect.  The user can press a button that is there.                  *)
OnConnect(s) ==
  /\ cells # None /\ s \in DOMAIN cells /\ cells[s].button = "shown"
  /\ refresh.at = "idle"
  /\ IF cells[s].active THEN Disconnect ELSE ConnectToServer(s)
  /\ undisturbed' = FALSE
  /\ UNCHANGED <<cells, levelsBtn, refresh, crashed>>

(* The popup with the central server's address is on top of the list.      *)
ApplyCentralUrl ==
  /\ cells # None /\ refresh.at = "idle"
  /\ CentralServerChanged
  /\ UNCHANGED menu

ServerListStep ==
  \/ MakeCells
  \/ RefreshWeak \/ EndRefresh
  \/ \E s \in Servers : RefreshCell(s) \/ OnConnect(s)
  \/ HardRefresh
=============================================================================
