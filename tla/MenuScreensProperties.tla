----------------------- MODULE MenuScreensProperties -----------------------
(***************************************************************************)
(* What should hold of the menus of MenuScreens.tla.                       *)
(***************************************************************************)
EXTENDS MenuScreens

(* A refresh of the server list during which no other thread writes what   *)
(* it reads leaves the truth behind, whatever was shown before and however *)
(* stale it was: exactly the servers there are, each with its button       *)
(* there, and saying what pressing it will do, exactly when it is online.  *)
RefreshShowsTruth ==
  undisturbed /\ refresh.at = "idle" =>
    /\ DOMAIN cells = gameServers
    /\ \A s \in gameServers :
         /\ cells[s].active <=> Active(s)
         /\ cells[s].online <=> Online(s)
         /\ cells[s].button = "shown" <=> Online(s)

(* The loading circle turns exactly while a search is under way whose      *)
(* answer will reach the layer and take the circle away, however many      *)
(* searches of layers that are gone are answered in between; and no answer *)
(* reaches a layer that was left while its levels were being downloaded.   *)
SearchAnswersLayer ==
  /\ onlineDelegate # "gone"
  /\ onlineDelegate = "layer" => layer # None
  /\ layer # None =>
       /\ layer.loadingCircle <=> layer.fetchingLevels
       /\ layer.fetchingLevels => downloads # {} /\ onlineDelegate = "layer"

(* While the levels screen waits for the server's list, the request or its *)
(* answer is still on its way or one was lost: nothing else can make it    *)
(* wait for ever, not even the requests of screens that were left.         *)
WaitingIsAnswered ==
  layer # None /\ layer.stillLoading /\ levelsLoading =>
    requests + answers > 0 \/ storing \/ unanswered
=============================================================================
