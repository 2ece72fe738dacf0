----------------------------- MODULE LevelsMenu -----------------------------
(***************************************************************************)
(* The levels screen (src/ui/levels/globed_levels_layer.cpp): it asks the  *)
(* server which levels are played, downloads those it has not cached from  *)
(* the game's own servers, and shows what it then has.                     *)
(*                                                                         *)
(* The request goes through g_netMsgQueue and tMain, the answer through    *)
(* tRecv; the download through GameLevelManager (external), which answers  *)
(* whatever object m_onlineListDelegate points to by then.  None of them   *)
(* knows of the layer, which the user may leave and open again meanwhile.  *)
(* While a second levels screen is open on top of a first, the first one   *)
(* has loaded, or there had been no level to press: one layer is enough.   *)
(*                                                                         *)
(* Player counts, and the order they put the levels in, are left out.      *)
(***************************************************************************)
EXTENDS MenuNetwork, Naturals

CONSTANTS
  Levels,       \* the levels that are played
  MaxRequests   \* bound: requests and answers under way

Layer == [fetchingLevels : BOOLEAN, stillLoading : BOOLEAN,
          loadingCircle : BOOLEAN, list : SUBSET Levels]

ASSUME LevelsFinite == IsFiniteSet(Levels) /\ MaxRequests \in Nat \ {0}
ASSUME NoneIsNoLayer == None \notin Layer

VARIABLES
  layer,            \* the fields of the GlobedLevelsLayer, or None
  levelsLoading,    \* g_levelsLoading
  levelsList,       \* g_levelsList
  levelDataCache,   \* g_levelDataCache
  onlineDelegate,   \* m_onlineListDelegate: "none", "layer" or "gone"
  requests,         \* NMRequestLevelList in g_netMsgQueue
  answers,          \* requests the server has not answered yet
  storing,          \* tRecv has stored an answer and will say so
  downloads,        \* searches the game's servers have not answered yet
  unanswered        \* has a request or an answer been lost?

levelsMenu == <<layer, levelsLoading, levelsList, levelDataCache, onlineDelegate,
                requests, answers, storing, downloads, unanswered>>

LevelsTypeOK ==
  /\ layer \in Layer \cup {None}
  /\ levelsList \in SUBSET Levels /\ levelDataCache \in SUBSET Levels
  /\ onlineDelegate \in {"none", "layer", "gone"}
  /\ requests \in 0..MaxRequests /\ answers \in 0..MaxRequests
  /\ downloads \in SUBSET (SUBSET Levels)
  /\ levelsLoading \in BOOLEAN /\ storing \in BOOLEAN /\ unanswered \in BOOLEAN

LevelsInit ==
  /\ layer = None /\ levelsLoading = FALSE
  /\ levelsList = {} /\ levelDataCache = {}
  /\ onlineDelegate = "none"
  /\ requests = 0 /\ answers = 0 /\ storing = FALSE
  /\ downloads = {} /\ unanswered = FALSE

-----------------------------------------------------------------------------
(* What a layer that has just been made does to begin with.                *)
NewLayer == [fetchingLevels |-> FALSE, stillLoading |-> FALSE,
             loadingCircle |-> FALSE, list |-> {}]

(* onRefreshButton of the layer l.                                         *)
Ask(l) ==
  /\ requests + answers < MaxRequests
  /\ layer' = [l EXCEPT !.stillLoading = TRUE, !.list = {}]
  /\ levelsLoading' = TRUE
  /\ requests' = requests + 1

OnRefreshButton ==
  /\ layer # None
  /\ ~levelsLoading /\ ~layer.fetchingLevels
  /\ Ask(layer)
  /\ UNCHANGED <<levelsList, levelDataCache, onlineDelegate, answers, storing,
                 downloads, unanswered>>

(* The destructor of the layer before has reset g_levelsLoading.           *)
OpenLevels ==
  /\ layer = None /\ ~levelsLoading
  /\ Ask(NewLayer)
  /\ UNCHANGED <<levelsList, levelDataCache, onlineDelegate, answers, storing,
                 downloads, unanswered>>

(* Faulty: the game still has a pointer to the layer.                      *)
LeaveQuickly ==
  /\ layer # None
  /\ layer' = None
  /\ levelsLoading' = FALSE
  /\ onlineDelegate' = IF onlineDelegate = "layer" THEN "gone" ELSE onlineDelegate
  /\ UNCHANGED <<levelsList, levelDataCache, requests, answers, storing,
                 downloads, unanswered>>

(* ~GlobedLevelsLayer.                                                     *)
LeaveLevels ==
  /\ layer # None
  /\ layer' = None
  /\ levelsLoading' = FALSE
  /\ onlineDelegate' = "none"
  /\ UNCHANGED <<levelsList, levelDataCache, requests, answers, storing,
                 downloads, unanswered>>

(* Every frame: fetchLevelList, once the server has answered.              *)
Update ==
  /\ layer # None
  /\ ~levelsLoading /\ ~layer.fetchingLevels /\ layer.stillLoading
  /\ layer' = [layer EXCEPT !.fetchingLevels = TRUE, !.loadingCircle = TRUE]
  /\ onlineDelegate' = "layer"
  /\ downloads' = downloads \cup {levelsList \ levelDataCache}
  /\ UNCHANGED <<levelsLoading, levelsList, levelDataCache, requests, answers,
                 storing, unanswered>>

(* updateLevelList, with what is cached by then.                           *)
Loaded(cache) ==
  [layer EXCEPT !.fetchingLevels = FALSE, !.loadingCircle = FALSE,
                !.stillLoading = FALSE, !.list = levelsList \cap cache]

(* loadListFinished: the search found some of what was asked for.          *)
LoadListFinished(asked) ==
  /\ asked \in downloads
  /\ onlineDelegate = "layer"
  /\ \E found \in SUBSET asked :
       /\ levelDataCache' = levelDataCache \cup found
       /\ layer' = Loaded(levelDataCache')
  /\ downloads' = downloads \ {asked}
  /\ UNCHANGED <<levelsLoading, levelsList, onlineDelegate, requests, answers,
                 storing, unanswered>>

(* Faulty: the layer goes on fetching.                                     *)
LoadListGivenUp(asked) ==
  /\ asked \in downloads
  /\ onlineDelegate = "layer"
  /\ layer' = [layer EXCEPT !.loadingCircle = FALSE]
  /\ downloads' = downloads \ {asked}
  /\ UNCHANGED <<levelsLoading, levelsList, levelDataCache, onlineDelegate,
                 requests, answers, storing, unanswered>>

LoadListFailed(asked) ==
  /\ asked \in downloads
  /\ onlineDelegate = "layer"
  /\ layer' = Loaded(levelDataCache)
  /\ downloads' = downloads \ {asked}
  /\ UNCHANGED <<levelsLoading, levelsList, levelDataCache, onlineDelegate,
                 requests, answers, storing, unanswered>>

(* GameLevelManager has nobody to tell.                                    *)
NobodyWaits(asked) ==
  /\ asked \in downloads
  /\ onlineDelegate = "none"
  /\ downloads' = downloads \ {asked}
  /\ UNCHANGED <<layer, levelsLoading, levelsList, levelDataCache, onlineDelegate,
                 requests, answers, storing, unanswered>>

-----------------------------------------------------------------------------
(* tMain sends the request while the client is established, once and over  *)
(* UDP, and throws it away otherwise.                                      *)
SendRequest ==
  /\ requests > 0
  /\ requests' = requests - 1
  /\ IF established THEN answers' = answers + 1 /\ UNCHANGED unanswered
     ELSE unanswered' = TRUE /\ UNCHANGED answers
  /\ UNCHANGED <<layer, levelsLoading, levelsList, levelDataCache, onlineDelegate,
                 storing, downloads>>

LoseAnswer ==
  /\ answers > 0
  /\ answers' = answers - 1
  /\ unanswered' = TRUE
  /\ UNCHANGED <<layer, levelsLoading, levelsList, levelDataCache, onlineDelegate,
                 requests, storing, downloads>>

(* tRecv: the list first, then g_levelsLoading.                            *)
StoreList ==
  /\ answers > 0 /\ ~storing
  /\ levelsList' \in SUBSET Levels
  /\ answers' = answers - 1
  /\ storing' = TRUE
  /\ UNCHANGED <<layer, levelsLoading, levelDataCache, onlineDelegate, requests,
                 downloads, unanswered>>

(* Faulty: an empty list does not count as an answer.                      *)
TellUnlessEmpty ==
  /\ storing
  /\ storing' = FALSE
  /\ levelsLoading' = (levelsLoading /\ levelsList = {})
  /\ UNCHANGED <<layer, levelsList, levelDataCache, onlineDelegate, requests,
                 answers, downloads, unanswered>>

TellLoaded ==
  /\ storing
  /\ storing' = FALSE
  /\ levelsLoading' = FALSE
  /\ UNCHANGED <<layer, levelsList, levelDataCache, onlineDelegate, requests,
                 answers, downloads, unanswered>>

Search ==
  \E asked \in downloads :
    LoadListFinished(asked) \/ LoadListFailed(asked) \/ NobodyWaits(asked)

LevelsScreenStep == OnRefreshButton \/ Update

LevelsNetworkStep ==
  SendRequest \/ LoseAnswer \/ StoreList \/ TellLoaded \/ Search
=============================================================================
