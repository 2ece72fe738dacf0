----------------------------- MODULE MenuScreens -----------------------------
(***************************************************************************)
(* The main menu (src/hooked/menu_layer.hpp) with the screens it leads to: *)
(* the server list, and from there the levels screen.  A screen is pushed  *)
(* on top of the one before, which stays but gets no input and none of its *)
(* timers until it is uncovered.  The network threads never wait.          *)
(***************************************************************************)
EXTENDS ServerList, LevelsMenu

CONSTANTS
  MaxServersForLevels  \* bound: see LevelsWorld

VARIABLES
  screen,         \* the one on top
  btnIsConnected  \* m_btnIsConnected: the colour of the button in the main menu

vars == <<network, menu, levelsMenu, screen, btnIsConnected>>

(* Bound: only with so few servers is the levels screen entered; in        *)
(* exchange the address of the central server is not changed there.        *)
LevelsWorld == Cardinality(UNION serverLists) <= MaxServersForLevels

TypeOK ==
  /\ NetworkTypeOK /\ MenuTypeOK /\ LevelsTypeOK
  /\ screen \in {"main", "servers", "levels"}
  /\ btnIsConnected \in BOOLEAN

Init ==
  /\ NetworkInit /\ MenuInit /\ LevelsInit
  /\ screen = "main" /\ btnIsConnected = FALSE

-----------------------------------------------------------------------------
(* updateStuff of the main menu.                                           *)
UpdateButton ==
  /\ screen = "main"
  /\ btnIsConnected # established
  /\ btnIsConnected' = established
  /\ UNCHANGED <<network, menu, levelsMenu, screen>>

(* The main menu, when it is entered, has tMain connect once more.         *)
EnterMainMenu ==
  /\ screen = "main"
  /\ \E s \in Servers : MenuLayerEntry(s)
  /\ UNCHANGED <<menu, levelsMenu, screen, btnIsConnected>>

OnGlobedMenuButton ==
  /\ screen = "main"
  /\ screen' = "servers"
  /\ OpenServerList
  /\ UNCHANGED <<levelsMenu, btnIsConnected>>

BackToMain ==
  /\ screen = "servers"
  /\ screen' = "main"
  /\ CloseServerList
  /\ UNCHANGED <<levelsMenu, btnIsConnected>>

OnOpenLevelsButton ==
  /\ screen = "servers" /\ refresh.at = "idle"
  /\ levelsBtn
  /\ LevelsWorld
  /\ screen' = "levels"
  /\ OpenLevels
  /\ undisturbed' = FALSE
  /\ UNCHANGED <<network, cells, levelsBtn, refresh, crashed, btnIsConnected>>

BackToServers ==
  /\ screen = "levels"
  /\ screen' = "servers"
  /\ LeaveLevels
  /\ UNCHANGED <<network, menu, btnIsConnected>>

ServersOnTop ==
  /\ screen = "servers"
  /\ ServerListStep \/ (~LevelsWorld /\ ApplyCentralUrl)
  /\ UNCHANGED <<levelsMenu, screen, btnIsConnected>>

LevelsOnTop ==
  /\ screen = "levels"
  /\ LevelsScreenStep
  /\ UNCHANGED <<network, menu, screen, btnIsConnected>>

(* A refresh is disturbed by a write to what it reads.                     *)
Network ==
  /\ NetworkStep
  /\ undisturbed' = (undisturbed /\ central' # "filling"
                      /\ UNCHANGED <<gameServers, gameServerId, established, pings>>)
  /\ UNCHANGED <<cells, levelsBtn, refresh, crashed, levelsMenu, screen, btnIsConnected>>

LevelsNetwork ==
  /\ LevelsNetworkStep
  /\ UNCHANGED <<network, menu, screen, btnIsConnected>>

Next ==
  /\ ~crashed
  /\ \/ UpdateButton \/ EnterMainMenu
     \/ OnGlobedMenuButton \/ BackToMain
     \/ OnOpenLevelsButton \/ BackToServers
     \/ ServersOnTop \/ LevelsOnTop
     \/ Network \/ LevelsNetwork

Spec == Init /\ [][Next]_vars
=============================================================================
