----------------------------- MODULE PlayLayer -----------------------------
(***************************************************************************)
(* The other players of a level in a Globed client: from the packets of    *)
(* the game server through the lists of the PlayerCorrector                *)
(* (src/correction/corrector.cpp) to the screen                            *)
(* (src/hooked/play_layer.hpp), and the mode in which one watches one of   *)
(* them.                                                                   *)
(*                                                                         *)
(* Two threads meet here.  The receiving thread feeds every LevelData      *)
(* packet to the corrector.  The game's UI thread enters and leaves        *)
(* levels, draws every frame (updateTick), and once a second (updateStuff) *)
(* takes the lists of new and gone players.  The corrector's mutex mtx is  *)
(* held while players are erased and while one is interpolated; nothing    *)
(* else is locked.  An action is what a thread does up to its next access  *)
(* to something the other one uses; a single call on one of the shared     *)
(* containers is taken to be atomic, which no lock makes it.               *)
(*                                                                         *)
(* The lists are vectors of ids.  All gone ids are handled before all new  *)
(* ones and repetitions are passed over, so they are sets here.            *)
(***************************************************************************)
EXTENDS FiniteSets

CONSTANTS
  Players,     \* the ids of the other players
  Crowd,       \* those of them who play while the two threads overlap
  Nobody       \* player id 0

ASSUME PlayersFinite == IsFiniteSet(Players) /\ Nobody \notin Players
ASSUME CrowdPlayers == Crowd \subseteq Players

VARIABLES
  playerData,      \* PlayerCorrector: the players it has frames of
  playersNew,      \*   those to be put on the screen
  playersGone,     \*   those to be taken off
  recv,            \* what the receiving thread does next
  data,            \* the players of the packet it feeds
  todo,            \* those of them, or of the gone ones, still to be done
  fed,             \* the one it is at
  ui,              \* what the UI thread does next
  copy,            \* its copy of a list, or the players still to be drawn
  drawn,           \* the one it interpolates, with mtx
  level,           \* the play layer: "out", "in" or (m_justExited) "leaving"
  readyForMP,      \* m_readyForMP
  players,         \* m_players: who is on the screen
  isDefault,       \* those on the screen with default icons
  accDataCache,    \* g_accDataCache: whose icons are known
  requests,        \* the requests for icons under way
  sent,            \* the last message about the level in g_netMsgQueue
  spectated,       \* g_spectatedPlayer
  popup,           \* the cell that will be clicked in the spectate popup
  wasSpectating,   \* m_wasSpectating
  testMode,        \* m_isTestMode: a completion does not count
  startPositions,  \* m_hasStartPositions
  helped,          \* has spectating moved the player in this attempt?
  overlapping      \* are the two threads at work at the same time?

corrector == <<playerData, playersNew, playersGone>>
feeding == <<recv, data, todo, fed>>
drawing == <<ui, copy, drawn>>
layer == <<level, readyForMP, startPositions, sent>>
screen == <<players, isDefault>>
icons == <<accDataCache, requests>>
spectating == <<spectated, popup, wasSpectating, testMode, helped>>
vars == <<corrector, feeding, drawing, layer, screen, icons, spectating,
          overlapping>>

(* A cell of the popup and what it was made for: to start or to stop.      *)
Cells == [player : Players, stop : BOOLEAN]

NoCell == [player |-> Nobody, stop |-> FALSE]

Init ==
  /\ playerData = {} /\ playersNew = {} /\ playersGone = {}
  /\ recv = "idle" /\ data = {} /\ todo = {} /\ fed = Nobody
  /\ ui = "idle" /\ copy = {} /\ drawn = Nobody
  /\ level = "out" /\ readyForMP = FALSE /\ startPositions = FALSE
  /\ sent = "nothing"
  /\ players = {} /\ isDefault = {} /\ accDataCache = {} /\ requests = {}
  /\ spectated = Nobody /\ popup = NoCell /\ wasSpectating = FALSE
  /\ testMode = FALSE /\ helped = FALSE
  /\ overlapping \in BOOLEAN

RecvAt(label) == recv = label /\ (overlapping \/ ui = "idle")

UiAt(label) == ui = label /\ (overlapping \/ recv = "idle")

Reported == IF overlapping THEN Crowd ELSE Players

-----------------------------------------------------------------------------
(* The receiving thread: LevelData, of this level or late, of the last.    *)
ReceiveLevelData(S) ==
  /\ RecvAt("idle")
  /\ recv' = "feed" /\ data' = S /\ todo' = S
  /\ UNCHANGED <<corrector, fed, drawing, layer, screen, icons, spectating,
                 overlapping>>

(* A player there are no frames of is new.                                 *)
FeedNew(p) ==
  /\ RecvAt("feed") /\ p \in todo \ playerData
  /\ playersNew' = playersNew \cup {p}
  /\ recv' = "insert" /\ fed' = p
  /\ UNCHANGED <<playerData, playersGone, data, todo, drawing, layer, screen,
                 icons, spectating, overlapping>>

FeedKnown(p) ==
  /\ RecvAt("feed") /\ p \in todo \cap playerData
  /\ recv' = "insert" /\ fed' = p
  /\ UNCHANGED <<corrector, data, todo, drawing, layer, screen, icons,
                 spectating, overlapping>>

(* insert for a new player; for a known one operator[], which makes the    *)
(* entry anew when the UI thread has cleared the map in the meantime.      *)
Insert ==
  /\ RecvAt("insert")
  /\ playerData' = playerData \cup {fed}
  /\ todo' = todo \ {fed} /\ fed' = Nobody /\ recv' = "feed"
  /\ UNCHANGED <<playersNew, playersGone, data, drawing, layer, screen, icons,
                 spectating, overlapping>>

(* toRemove: who was in an earlier packet and is not in this one.          *)
CollectGone ==
  /\ RecvAt("feed") /\ todo = {}
  /\ todo' = playerData \ data /\ data' = {}
  /\ recv' = IF todo' = {} THEN "idle" ELSE "lock"
  /\ UNCHANGED <<corrector, fed, drawing, layer, screen, icons, spectating,
                 overlapping>>

MtxFree == ui # "interpolate" /\ recv # "erase"

(* Faulty: without the lock.                                               *)
EraseUnlocked ==
  /\ RecvAt("lock")
  /\ recv' = "erase"
  /\ UNCHANGED <<corrector, data, todo, fed, drawing, layer, screen, icons,
                 spectating, overlapping>>

LockMtx ==
  /\ RecvAt("lock") /\ MtxFree
  /\ recv' = "erase"
  /\ UNCHANGED <<corrector, data, todo, fed, drawing, layer, screen, icons,
                 spectating, overlapping>>

EraseGone(p) ==
  /\ RecvAt("erase") /\ p \in todo
  /\ playersGone' = playersGone \cup {p}
  /\ playerData' = playerData \ {p}
  /\ todo' = todo \ {p}
  /\ recv' = IF todo' = {} THEN "idle" ELSE "erase"
  /\ UNCHANGED <<playersNew, data, fed, drawing, layer, screen, icons,
                 spectating, overlapping>>

(* The answer to a request for icons, and a request or answer that is lost *)
(* when it would have come.                                                *)
ReceiveAccountData(p) ==
  /\ RecvAt("idle") /\ p \in requests
  /\ accDataCache' = accDataCache \cup {p}
  /\ requests' = requests \ {p}
  /\ UNCHANGED <<corrector, feeding, drawing, layer, screen, spectating,
                 overlapping>>

LoseAccountData(p) ==
  /\ RecvAt("idle") /\ p \in requests
  /\ requests' = requests \ {p}
  /\ UNCHANGED <<corrector, feeding, drawing, layer, screen, accDataCache,
                 spectating, overlapping>>

-----------------------------------------------------------------------------
(* The UI thread.                                                          *)

(* Faulty: the lists are cleared and the map is not.                       *)
EnterKeepingData ==
  /\ UiAt("idle") /\ level = "out"
  /\ startPositions' \in BOOLEAN
  /\ testMode' = startPositions' /\ helped' = FALSE /\ wasSpectating' = FALSE
  /\ ui' = "joined"
  /\ UNCHANGED <<corrector, feeding, copy, drawn, level, readyForMP, sent,
                 screen, icons, spectated, popup, overlapping>>

(* init of a play layer, in which joinedLevel clears the map and the lists *)
(* one after the other.  Outside the editor and with a connection the      *)
(* layer is ready for the other players.                                   *)
EnterLevel ==
  /\ UiAt("idle") /\ level = "out"
  /\ startPositions' \in BOOLEAN
  /\ testMode' = startPositions' /\ helped' = FALSE /\ wasSpectating' = FALSE
  /\ playerData' = {}
  /\ ui' = "joined"
  /\ UNCHANGED <<playersNew, playersGone, feeding, copy, drawn, level,
                 readyForMP, sent, screen, icons, spectated, popup,
                 overlapping>>

JoinedLevel(ready) ==
  /\ UiAt("joined")
  /\ playersGone' = {} /\ playersNew' = {}
  /\ level' = "in" /\ readyForMP' = ready
  /\ sent' = IF ready THEN "entry" ELSE sent
  /\ ui' = "idle"
  /\ UNCHANGED <<playerData, feeding, copy, drawn, startPositions, screen,
                 icons, spectating, overlapping>>

(* Faulty: the attempt goes on from where spectating has led.              *)
LeaveWithoutReset ==
  /\ spectated' = Nobody /\ wasSpectating' = FALSE
  /\ testMode' = startPositions /\ helped' = helped

(* Faulty: test mode stays on.                                             *)
LeaveInTestMode ==
  /\ spectated' = Nobody /\ wasSpectating' = FALSE
  /\ testMode' = testMode /\ helped' = FALSE

(* resetLevel starts a new attempt.                                        *)
LeaveSpectate ==
  /\ spectated' = Nobody /\ wasSpectating' = FALSE
  /\ testMode' = startPositions /\ helped' = FALSE

(* Faulty: g_spectatedPlayer is left alone if no frame has been spectated. *)
QuitKeepingSpectated ==
  /\ UiAt("idle") /\ level = "in" /\ popup = NoCell
  /\ IF wasSpectating
       THEN LeaveSpectate
       ELSE UNCHANGED <<spectated, wasSpectating, testMode, helped>>
  /\ sent' = IF readyForMP THEN "exit" ELSE sent
  /\ level' = "leaving"
  /\ UNCHANGED <<corrector, feeding, drawing, readyForMP, startPositions,
                 screen, icons, popup, overlapping>>

(* onQuit.  The layer's scheduled functions run on until it is destroyed.  *)
Quit ==
  /\ UiAt("idle") /\ level = "in" /\ popup = NoCell
  /\ IF wasSpectating THEN LeaveSpectate
                      ELSE UNCHANGED <<wasSpectating, testMode, helped>>
  /\ sent' = IF readyForMP THEN "exit" ELSE sent
  /\ spectated' = Nobody
  /\ level' = "leaving"
  /\ UNCHANGED <<corrector, feeding, drawing, readyForMP, startPositions,
                 screen, icons, popup, overlapping>>

DestroyLayer ==
  /\ UiAt("idle") /\ level = "leaving"
  /\ level' = "out" /\ readyForMP' = FALSE
  /\ players' = {} /\ isDefault' = {}
  /\ UNCHANGED <<corrector, feeding, drawing, startPositions, sent, icons,
                 spectating, overlapping>>

Scheduled == UiAt("idle") /\ level # "out" /\ readyForMP

(* updateTick: interpolate everyone on the screen, then spectate.          *)
Tick ==
  /\ Scheduled
  /\ copy' = players /\ ui' = "tick"
  /\ UNCHANGED <<corrector, feeding, drawn, layer, screen, icons, spectating,
                 overlapping>>

Interpolate(p) ==
  /\ UiAt("tick") /\ p \in copy /\ MtxFree
  /\ IF p \in playerData
       THEN ui' = "interpolate" /\ drawn' = p /\ copy' = copy
       ELSE copy' = copy \ {p} /\ UNCHANGED <<ui, drawn>>
  /\ UNCHANGED <<corrector, feeding, layer, screen, icons, spectating,
                 overlapping>>

(* playerData.at(playerId), which throws if it is not there; then mtx is   *)
(* given up.                                                               *)
Interpolated ==
  /\ UiAt("interpolate") /\ drawn \in playerData
  /\ copy' = copy \ {drawn} /\ drawn' = Nobody /\ ui' = "tick"
  /\ UNCHANGED <<corrector, feeding, layer, screen, icons, spectating,
                 overlapping>>

(* The player follows the spectated one; when that one starts over, the    *)
(* level is reset, and for a moment the player is left where it is.        *)
Watch ==
  /\ spectated \in players
  /\ testMode' = TRUE /\ wasSpectating' = TRUE
  /\ helped' \in BOOLEAN
  /\ spectated' = spectated

StopWatching ==
  /\ spectated \notin players
  /\ spectated # Nobody \/ wasSpectating
  /\ LeaveSpectate

NotWatching ==
  /\ spectated = Nobody /\ ~wasSpectating
  /\ UNCHANGED <<spectated, wasSpectating, testMode, helped>>

TickSpectate ==
  /\ UiAt("tick") /\ copy = {}
  /\ Watch \/ StopWatching \/ NotWatching
  /\ ui' = "idle"
  /\ UNCHANGED <<corrector, feeding, copy, drawn, layer, screen, icons, popup,
                 overlapping>>

(* updateStuff: getGonePlayers copies the list and clears it, without mtx. *)
CopyGone ==
  /\ Scheduled
  /\ copy' = playersGone /\ ui' = "gone"
  /\ UNCHANGED <<corrector, feeding, drawn, layer, screen, icons, spectating,
                 overlapping>>

RemoveGone ==
  /\ UiAt("gone")
  /\ playersGone' = {}
  /\ players' = players \ copy /\ isDefault' = isDefault \ copy
  /\ copy' = {} /\ ui' = "stuff"
  /\ UNCHANGED <<playerData, playersNew, feeding, drawn, layer, icons,
                 spectating, overlapping>>

(* getNewPlayers does the same.                                            *)
CopyNew ==
  /\ UiAt("stuff")
  /\ copy' = playersNew /\ ui' = "new"
  /\ UNCHANGED <<corrector, feeding, drawn, layer, screen, icons, spectating,
                 overlapping>>

AddNew ==
  /\ UiAt("new")
  /\ playersNew' = {}
  /\ players' = players \cup copy
  /\ isDefault' = isDefault \cup (copy \ (players \cup accDataCache))
  /\ copy' = {} /\ ui' = "icons"
  /\ UNCHANGED <<playerData, playersGone, feeding, drawn, layer, icons,
                 spectating, overlapping>>

(* Faulty: asked for, and not looked at when they have come.               *)
RequestDefaults ==
  /\ UiAt("icons")
  /\ requests' = requests \cup (isDefault \ accDataCache)
  /\ ui' = "idle"
  /\ UNCHANGED <<corrector, feeding, copy, drawn, layer, screen,
                 accDataCache, spectating, overlapping>>

(* Icons that are known by now are shown, the others asked for (again).    *)
UpdateDefaults ==
  /\ UiAt("icons")
  /\ isDefault' = isDefault \ accDataCache
  /\ requests' = requests \cup isDefault'
  /\ ui' = "idle"
  /\ UNCHANGED <<corrector, feeding, copy, drawn, layer, players,
                 accDataCache, spectating, overlapping>>

(* Faulty: m_justExited is not looked at.                                  *)
SendUntilDestroyed ==
  /\ Scheduled
  /\ sent' = IF spectated # Nobody THEN "no data" ELSE "data"
  /\ UNCHANGED <<corrector, feeding, drawing, level, readyForMP,
                 startPositions, screen, icons, spectating, overlapping>>

(* The position, or word that one spectates.                               *)
SendPlayerData ==
  /\ Scheduled /\ level = "in"
  /\ sent' = IF spectated # Nobody THEN "no data" ELSE "data"
  /\ UNCHANGED <<corrector, feeding, drawing, level, readyForMP,
                 startPositions, screen, icons, spectating, overlapping>>

-----------------------------------------------------------------------------
(* What the user does.  The popup lists the corrector's players, not those *)
(* on the screen, and its cells are not brought up to date.                *)
OpenPopup(p) ==
  /\ UiAt("idle") /\ level = "in" /\ readyForMP /\ popup = NoCell
  /\ p \in playerData \cap accDataCache
  /\ popup' = [player |-> p, stop |-> spectated = p]
  /\ UNCHANGED <<corrector, feeding, drawing, layer, screen, icons, spectated,
                 wasSpectating, testMode, helped, overlapping>>

(* Faulty: the level is not reset.                                         *)
ClickWithoutReset ==
  /\ UiAt("idle") /\ popup # NoCell
  /\ spectated' = IF popup.stop THEN Nobody ELSE popup.player
  /\ popup' = NoCell
  /\ UNCHANGED <<corrector, feeding, drawing, layer, screen, icons,
                 wasSpectating, testMode, helped, overlapping>>

(* onSpectate.  togglePracticeMode(false) resets the level.                *)
ClickSpectate ==
  /\ UiAt("idle") /\ popup # NoCell
  /\ spectated' = IF popup.stop THEN Nobody ELSE popup.player
  /\ helped' = FALSE
  /\ popup' = NoCell
  /\ UNCHANGED <<corrector, feeding, drawing, layer, screen, icons,
                 wasSpectating, testMode, overlapping>>

ClosePopup ==
  /\ UiAt("idle") /\ popup # NoCell
  /\ popup' = NoCell
  /\ UNCHANGED <<corrector, feeding, drawing, layer, screen, icons, spectated,
                 wasSpectating, testMode, helped, overlapping>>

(* Restart and the practice buttons are dead while one spectates.          *)
Restart ==
  /\ UiAt("idle") /\ level = "in" /\ popup = NoCell /\ spectated = Nobody
  /\ helped' = FALSE
  /\ UNCHANGED <<corrector, feeding, drawing, layer, screen, icons, spectated,
                 popup, wasSpectating, testMode, overlapping>>

LevelComplete ==
  /\ UiAt("idle") /\ level = "in"
  /\ testMode' = (testMode \/ wasSpectating)
  /\ UNCHANGED <<corrector, feeding, drawing, layer, screen, icons, spectated,
                 popup, wasSpectating, helped, overlapping>>

-----------------------------------------------------------------------------
Receive ==
  \/ \E S \in SUBSET Reported : ReceiveLevelData(S)
  \/ \E p \in Players : ReceiveAccountData(p) \/ LoseAccountData(p)

Feed ==
  \/ \E p \in Players : FeedNew(p) \/ FeedKnown(p) \/ EraseGone(p)
  \/ Insert
  \/ CollectGone
  \/ LockMtx

UiStep ==
  \/ \E ready \in BOOLEAN : JoinedLevel(ready)
  \/ \E p \in Players : Interpolate(p)
  \/ Interpolated
  \/ TickSpectate
  \/ RemoveGone
  \/ CopyNew
  \/ AddNew
  \/ UpdateDefaults

User ==
  \/ EnterLevel
  \/ Quit
  \/ DestroyLayer
  \/ \E p \in Players : OpenPopup(p)
  \/ ClickSpectate
  \/ ClosePopup
  \/ Restart
  \/ LevelComplete

Next == Receive \/ Feed \/ User \/ UiStep \/ Tick \/ CopyGone \/ SendPlayerData

Spec == Init /\ [][Next]_vars

(* Each thread goes on with what it does, and gets mtx some time though    *)
(* the other one takes it again and again.  The scheduler calls            *)
(* updateStuff, frames or no frames in between.  Of the requests for the   *)
(* icons of a player, repeated as long as need be, one is answered.        *)
Fairness ==
  /\ SF_vars(Feed)
  /\ SF_vars(UiStep)
  /\ SF_vars(CopyGone)
  /\ \A p \in Players : SF_vars(ReceiveAccountData(p))

FairSpec == Spec /\ Fairness
=============================================================================
