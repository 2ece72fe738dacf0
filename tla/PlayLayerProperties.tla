------------------------ MODULE PlayLayerProperties ------------------------
(***************************************************************************)
(* What should hold of the players on the screen and of spectating,        *)
(* modelled in PlayLayer.                                                  *)
(***************************************************************************)
EXTENDS PlayLayer

(* Types.  Who has default icons is on the screen, and the screen is empty *)
(* outside of a level.                                                     *)
TypeOK ==
  /\ playerData \subseteq Players /\ playersNew \subseteq Players
  /\ playersGone \subseteq Players
  /\ recv \in {"idle", "feed", "insert", "lock", "erase"}
  /\ data \subseteq Players /\ todo \subseteq Players
  /\ fed \in Players \cup {Nobody} /\ (fed # Nobody <=> recv = "insert")
  /\ ui \in {"idle", "joined", "tick", "interpolate", "gone", "stuff", "new",
             "icons"}
  /\ copy \subseteq Players
  /\ drawn \in Players \cup {Nobody}
  /\ level \in {"out", "in", "leaving"} /\ readyForMP \in BOOLEAN
  /\ isDefault \subseteq players /\ players \subseteq Players
  /\ (level = "out" => players = {} /\ spectated = Nobody)
  /\ accDataCache \subseteq Players /\ requests \subseteq Players
  /\ sent \in {"nothing", "entry", "data", "no data", "exit"}
  /\ spectated \in Players \cup {Nobody} /\ popup \in Cells \cup {NoCell}
  /\ {wasSpectating, testMode, startPositions, helped, overlapping}
       \subseteq BOOLEAN

(* interpolate looks its player up, and then up again with at(), which     *)
(* throws out of the frame if the player has been erased in between: mtx   *)
(* keeps the receiving thread from that.                                   *)
InterpolateFindsPlayer == ui = "interpolate" => drawn \in playerData

AtRest == ui = "idle" /\ recv = "idle"

(* While the threads do not get in each other's way, a player the server   *)
(* reports is on the screen or will be with the next updateStuff: coming   *)
(* and going within a second, leaving a level and entering another, and    *)
(* packets of the level just left do not make the client forget one.       *)
NoPlayerForgotten ==
  ~overlapping /\ AtRest /\ level # "out" =>
    playerData \subseteq players \cup playersNew

(* "remove players that left the level": who is on the screen and not in   *)
(* the level any more is to be taken off with the next updateStuff.        *)
GoneNotShown ==
  ~overlapping /\ AtRest => players \subseteq playerData \cup playersGone

(* An attempt in which the player was moved along with somebody else's     *)
(* icon is never completed as a real one.                                  *)
HelpDoesNotCount == helped => testMode \/ wasSpectating

(* Spectating disables progress for as long as it lasts: after it, however *)
(* it ended, an attempt counts again if it did before.                     *)
TestModeRestored ==
  level # "out" /\ ~wasSpectating => testMode = startPositions

(* The other players never get to see the player where spectating has put  *)
(* it: player data is sent from an attempt of its own only.                *)
SpectatorNotShown == [][sent' = "data" => ~helped]_sent

(* After PlayerLevelExit the functions that go on being scheduled send     *)
(* nothing that would make the server take the player for one of the level.*)
ExitIsLast == [][sent = "exit" => sent' = "entry"]_sent

(* Whoever is put on the screen with default icons gets their own, or      *)
(* leaves it, although requests and answers may be lost.                   *)
IconsLoaded == \A p \in Players : p \in isDefault ~> p \notin isDefault
=============================================================================
