-------------------------- MODULE PlayLayerProofs --------------------------
(***************************************************************************)
(* Proofs about PlayLayer, for all sets of players.                        *)
(***************************************************************************)
EXTENDS PlayLayerProperties, TLAPS

-----------------------------------------------------------------------------
(* Types.  Frames and seconds are handled inside of a level, and a popup   *)
(* that is open keeps one there.                                           *)
TypeInv ==
  /\ TypeOK
  /\ level # "in" => spectated = Nobody /\ popup = NoCell
  /\ ui = "joined" <=> ui # "idle" /\ level = "out"

LEMMA TypeInvariant == Spec => []TypeInv
<1>1. Init => TypeInv
  BY DEF Init, TypeInv, TypeOK
<1>2. TypeInv /\ [Next]_vars => TypeInv'
  <2> SUFFICES ASSUME TypeInv, [Next]_vars PROVE TypeInv'
    OBVIOUS
  <2> USE PlayersFinite, CrowdPlayers
      DEF TypeInv, TypeOK, RecvAt, UiAt, corrector, feeding, drawing, layer,
          screen, icons, spectating
  <2>1. ASSUME NEW S \in SUBSET Reported, ReceiveLevelData(S) PROVE TypeInv'
    BY ZenonT(40), <2>1 DEF ReceiveLevelData, Reported
  <2>2. ASSUME NEW p \in Players, ReceiveAccountData(p) \/ LoseAccountData(p)
        PROVE  TypeInv'
    BY ZenonT(40), <2>2 DEF ReceiveAccountData, LoseAccountData
  <2>3. ASSUME NEW p \in Players, FeedNew(p) \/ FeedKnown(p) PROVE TypeInv'
    BY ZenonT(40), <2>3 DEF FeedNew, FeedKnown
  <2>4. CASE Insert
    BY ZenonT(40), <2>4 DEF Insert
  <2>5. ASSUME NEW p \in Players, EraseGone(p) PROVE TypeInv'
    BY ZenonT(40), <2>5 DEF EraseGone
  <2>6. CASE CollectGone \/ LockMtx
    BY ZenonT(40), <2>6 DEF CollectGone, LockMtx
  <2>7. CASE EnterLevel
    BY <2>7 DEF EnterLevel
  <2>8. ASSUME NEW ready \in BOOLEAN, JoinedLevel(ready) PROVE TypeInv'
    BY <2>8 DEF JoinedLevel
  <2>9. CASE Quit
    BY <2>9 DEF Quit, LeaveSpectate
  <2>10. CASE DestroyLayer
    BY <2>10 DEF DestroyLayer
  <2>11. CASE Tick \/ CopyGone
    BY <2>11 DEF Tick, CopyGone, Scheduled
  <2>12. CASE SendPlayerData
    BY <2>12 DEF SendPlayerData, Scheduled
  <2>13. ASSUME NEW p \in Players, Interpolate(p) PROVE TypeInv'
    BY <2>13 DEF Interpolate
  <2>14. CASE Interpolated
    BY <2>14 DEF Interpolated
  <2>15. CASE TickSpectate
    <3>1. CASE Watch
      BY ZenonT(40), <2>15, <3>1 DEF TickSpectate, Watch
    <3>2. CASE StopWatching
      BY <2>15, <3>2 DEF TickSpectate, StopWatching, LeaveSpectate
    <3>3. CASE NotWatching
      BY <2>15, <3>3 DEF TickSpectate, NotWatching
    <3> QED
      BY <2>15, <3>1, <3>2, <3>3 DEF TickSpectate
  <2>16. CASE RemoveGone
    BY ZenonT(40), <2>16 DEF RemoveGone
  <2>17. CASE CopyNew
    BY ZenonT(40), <2>17 DEF CopyNew
  <2>18. CASE AddNew
    BY <2>18 DEF AddNew
  <2>19. CASE UpdateDefaults
    BY ZenonT(40), <2>19 DEF UpdateDefaults
  <2>20. ASSUME NEW p \in Players, OpenPopup(p) PROVE TypeInv'
    BY <2>20 DEF OpenPopup, Cells, NoCell
  <2>21. CASE ClickSpectate
    BY <2>21 DEF ClickSpectate, Cells, NoCell
  <2>22. CASE ClosePopup \/ Restart \/ LevelComplete
    BY ZenonT(40), <2>22 DEF ClosePopup, Restart, LevelComplete
  <2>23. CASE UNCHANGED vars
    <3>1. {wasSpectating', testMode', startPositions', helped', overlapping'}
            \subseteq BOOLEAN
      BY <2>23 DEF vars
    <3>2. readyForMP' \in BOOLEAN
      BY <2>23 DEF vars
    <3>3. /\ level' = "out" => players' = {} /\ spectated' = Nobody
          /\ level' # "in" => spectated' = Nobody /\ popup' = NoCell
          /\ ui' = "joined" <=> ui' # "idle" /\ level' = "out"
          /\ level' \in {"out", "in", "leaving"}
      BY <2>23 DEF vars
    <3>4. /\ recv' \in {"idle", "feed", "insert", "lock", "erase"}
          /\ fed' \in Players \cup {Nobody}
          /\ fed' # Nobody <=> recv' = "insert"
          /\ ui' \in {"idle", "joined", "tick", "interpolate", "gone", "stuff",
                      "new", "icons"}
          /\ sent' \in {"nothing", "entry", "data", "no data", "exit"}
      BY <2>23 DEF vars
    <3>5. /\ playerData' \subseteq Players /\ playersNew' \subseteq Players
          /\ playersGone' \subseteq Players /\ data' \subseteq Players
          /\ todo' \subseteq Players /\ copy' \subseteq Players
          /\ drawn' \in Players \cup {Nobody}
      BY <2>23 DEF vars
    <3>6. /\ isDefault' \subseteq players' /\ players' \subseteq Players
          /\ accDataCache' \subseteq Players /\ requests' \subseteq Players
          /\ spectated' \in Players \cup {Nobody}
          /\ popup' \in Cells \cup {NoCell}
      BY <2>23 DEF vars
    <3> QED
      BY <3>1, <3>2, <3>3, <3>4, <3>5, <3>6
  <2> QED
    BY <2>1, <2>2, <2>3, <2>4, <2>5, <2>6, <2>7, <2>8, <2>9, <2>10, <2>11,
       <2>12, <2>13, <2>14, <2>15, <2>16, <2>17, <2>18, <2>19, <2>20, <2>21,
       <2>22, <2>23
    DEF Next, Receive, Feed, User, UiStep
<1> QED
  BY <1>1, <1>2, PTL DEF Spec

(* The variables keep their types, default icons belong to players on the  *)
(* screen, and nobody is shown or spectated outside of a level.            *)
THEOREM TypeCorrect == Spec => []TypeOK
<1>1. TypeInv => TypeOK
  BY DEF TypeInv
<1> QED
  BY <1>1, TypeInvariant, PTL

-----------------------------------------------------------------------------
(* mtx.  Its two holders exclude each other, and who holds it for drawing  *)
(* has seen the player it draws.                                           *)
MtxInv ==
  ui = "interpolate" => recv # "erase" /\ drawn \in playerData

(* The at() of interpolate never throws, whatever packets come meanwhile.  *)
THEOREM InterpolationSafe == Spec => []InterpolateFindsPlayer
<1>1. Init => MtxInv
  BY DEF Init, MtxInv
<1>2. MtxInv /\ [Next]_vars => MtxInv'
  <2> SUFFICES ASSUME MtxInv, [Next]_vars PROVE MtxInv'
    OBVIOUS
  <2>1. CASE Receive
    BY <2>1 DEF Receive, ReceiveLevelData, ReceiveAccountData,
       LoseAccountData, RecvAt, MtxInv, corrector, feeding, drawing
  <2>2. CASE Feed
    BY <2>2 DEF Feed, FeedNew, FeedKnown, EraseGone, Insert, CollectGone,
       LockMtx, MtxFree, RecvAt, MtxInv, corrector, drawing
  <2>3. CASE User
    BY <2>3 DEF User, EnterLevel, Quit, DestroyLayer, OpenPopup,
       ClickSpectate, ClosePopup, Restart, LevelComplete, UiAt, MtxInv,
       corrector, feeding, drawing
  <2>4. CASE UiStep
    BY <2>4 DEF UiStep, JoinedLevel, Interpolate, Interpolated, TickSpectate,
       RemoveGone, CopyNew, AddNew, UpdateDefaults, MtxFree, UiAt, MtxInv,
       corrector, feeding
  <2>5. CASE Tick \/ CopyGone \/ SendPlayerData
    BY <2>5 DEF Tick, CopyGone, SendPlayerData, Scheduled, UiAt, MtxInv,
       corrector, feeding, drawing
  <2>6. CASE UNCHANGED vars
    BY <2>6 DEF vars, MtxInv, corrector, feeding, drawing
  <2> QED
    BY <2>1, <2>2, <2>3, <2>4, <2>5, <2>6 DEF Next
<1>3. MtxInv => InterpolateFindsPlayer
  BY DEF MtxInv, InterpolateFindsPlayer
<1> QED
  BY <1>1, <1>2, <1>3, PTL DEF Spec

-----------------------------------------------------------------------------
(* Spectating.  A fresh layer is as after spectating.                      *)
ModeInv ==
  /\ testMode \in BOOLEAN /\ startPositions \in BOOLEAN
  /\ HelpDoesNotCount
  /\ level # "out" \/ ui = "joined" =>
       wasSpectating \/ testMode = startPositions

(* What updateTick does of spectating keeps the modes in order.            *)
LEMMA SpectatingKeepsMode ==
  ASSUME ModeInv, Watch \/ StopWatching \/ NotWatching,
         UNCHANGED <<level, startPositions>>, ui # "joined", ui' # "joined"
  PROVE  ModeInv'
<1>1. CASE Watch
  BY <1>1 DEF ModeInv, HelpDoesNotCount, Watch
<1>2. CASE StopWatching
  BY <1>2 DEF ModeInv, HelpDoesNotCount, StopWatching, LeaveSpectate
<1>3. CASE NotWatching
  BY <1>3 DEF ModeInv, HelpDoesNotCount, NotWatching
<1> QED
  BY <1>1, <1>2, <1>3

(* The inductive invariant of spectating holds in every behaviour.         *)
LEMMA ModeInvariant == Spec => []ModeInv
<1>1. Init => ModeInv
  BY DEF Init, ModeInv, HelpDoesNotCount
<1>2. ModeInv /\ [Next]_vars => ModeInv'
  <2> SUFFICES ASSUME ModeInv, [Next]_vars PROVE ModeInv'
    OBVIOUS
  <2> USE DEF ModeInv, HelpDoesNotCount, layer, spectating, drawing
  <2>1. CASE Receive
    BY <2>1 DEF Receive, ReceiveLevelData, ReceiveAccountData,
       LoseAccountData
  <2>2. CASE Feed
    BY <2>2 DEF Feed, FeedNew, FeedKnown, EraseGone, Insert, CollectGone,
       LockMtx
  <2>3. CASE EnterLevel
    BY <2>3 DEF EnterLevel
  <2>4. CASE Quit
    BY <2>4 DEF Quit, LeaveSpectate, UiAt
  <2>5. CASE LevelComplete
    BY <2>5 DEF LevelComplete, UiAt
  <2>6. CASE \/ DestroyLayer \/ ClickSpectate \/ ClosePopup \/ Restart
             \/ \E p \in Players : OpenPopup(p)
    BY <2>6 DEF DestroyLayer, ClickSpectate, ClosePopup, Restart, OpenPopup,
       UiAt
  <2>7. CASE TickSpectate
    BY <2>7, SpectatingKeepsMode DEF TickSpectate, UiAt
  <2>8. CASE \E ready \in BOOLEAN : JoinedLevel(ready)
    BY <2>8 DEF JoinedLevel, UiAt
  <2>9. CASE \/ Interpolated \/ RemoveGone \/ CopyNew \/ AddNew
             \/ UpdateDefaults \/ \E p \in Players : Interpolate(p)
    BY <2>9 DEF Interpolate, Interpolated, RemoveGone, CopyNew, AddNew,
       UpdateDefaults
  <2>10. CASE Tick \/ CopyGone \/ SendPlayerData
    <3>1. /\ UNCHANGED <<level, startPositions, spectating>>
          /\ level # "out"
      BY <2>10 DEF Tick, CopyGone, SendPlayerData, Scheduled
    <3> QED
      BY <3>1
  <2>11. CASE UNCHANGED vars
    BY <2>11 DEF vars
  <2> QED
    BY <2>1, <2>2, <2>3, <2>4, <2>5, <2>6, <2>7, <2>8, <2>9, <2>10, <2>11
    DEF Next, User, UiStep
<1> QED
  BY <1>1, <1>2, PTL DEF Spec

(* No attempt that spectating has moved along is completed as a real one.  *)
THEOREM HelpNeverCounts == Spec => []HelpDoesNotCount
<1>1. ModeInv => HelpDoesNotCount
  BY DEF ModeInv
<1> QED
  BY <1>1, ModeInvariant, PTL

(* Test mode is as it was, once spectating is over.                        *)
THEOREM TestModeComesBack == Spec => []TestModeRestored
<1>1. ModeInv => TestModeRestored
  BY DEF ModeInv, TestModeRestored
<1> QED
  BY <1>1, ModeInvariant, PTL

-----------------------------------------------------------------------------
(* The lists, while the threads take turns.  A player of whom the list of  *)
(* gone ones still speaks and who is there again is in the list of new     *)
(* ones too: so it does no harm that the gone ones are handled first.      *)
ScreenInv ==
  ~overlapping =>
    /\ ui = "idle" \/ recv = "idle"
    /\ recv = "insert" => fed \in playerData \cup playersNew
    /\ ui = "joined" => playerData = {}
    /\ ui = "gone" => copy = playersGone
    /\ ui \in {"stuff", "new"} => playersGone = {}
    /\ ui = "new" => copy = playersNew
    /\ level # "out" =>
         /\ playerData \subseteq players \cup playersNew
         /\ playersGone \cap playerData \subseteq playersNew

(* Whoever is reported is on the screen or due to be, if the threads take  *)
(* turns.                                                                  *)
THEOREM NobodyForgotten == Spec => []NoPlayerForgotten
<1>1. Init => ScreenInv
  BY DEF Init, ScreenInv
<1>2. ScreenInv /\ [Next]_vars => ScreenInv'
  <2> SUFFICES ASSUME ScreenInv, [Next]_vars PROVE ScreenInv'
    OBVIOUS
  <2> USE DEF ScreenInv, RecvAt, UiAt, corrector, feeding, drawing, layer,
              screen
  <2>1. CASE Receive
    BY <2>1 DEF Receive, ReceiveLevelData, ReceiveAccountData,
       LoseAccountData
  <2>2. ASSUME NEW p \in Players, FeedNew(p) PROVE ScreenInv'
    BY <2>2 DEF FeedNew
  <2>3. ASSUME NEW p \in Players, FeedKnown(p) PROVE ScreenInv'
    BY <2>3 DEF FeedKnown
  <2>4. CASE Insert
    BY <2>4 DEF Insert
  <2>5. ASSUME NEW p \in Players, EraseGone(p) PROVE ScreenInv'
    BY <2>5 DEF EraseGone
  <2>6. CASE CollectGone \/ LockMtx
    BY <2>6 DEF CollectGone, LockMtx
  <2>7. CASE User
    BY <2>7 DEF User, EnterLevel, Quit, DestroyLayer, OpenPopup,
       ClickSpectate, ClosePopup, Restart, LevelComplete
  <2>8. CASE \E ready \in BOOLEAN : JoinedLevel(ready)
    BY <2>8 DEF JoinedLevel
  <2>9. CASE \/ Interpolated \/ TickSpectate
             \/ \E p \in Players : Interpolate(p)
    BY <2>9 DEF Interpolate, Interpolated, TickSpectate
  <2>10. CASE RemoveGone
    BY <2>10 DEF RemoveGone
  <2>11. CASE CopyNew
    BY <2>11 DEF CopyNew
  <2>12. CASE AddNew
    BY <2>12 DEF AddNew
  <2>13. CASE UpdateDefaults
    BY <2>13 DEF UpdateDefaults
  <2>14. CASE Tick \/ CopyGone \/ SendPlayerData
    BY <2>14 DEF Tick, CopyGone, SendPlayerData, Scheduled
  <2>15. CASE UNCHANGED vars
    BY <2>15 DEF vars
  <2> QED
    BY <2>1, <2>2, <2>3, <2>4, <2>5, <2>6, <2>7, <2>8, <2>9, <2>10, <2>11,
       <2>12, <2>13, <2>14, <2>15
    DEF Next, Feed, UiStep
<1>3. ScreenInv => NoPlayerForgotten
  BY DEF ScreenInv, NoPlayerForgotten
<1> QED
  BY <1>1, <1>2, <1>3, PTL DEF Spec

-----------------------------------------------------------------------------
(* What the others get to see.  Only who spectates has been moved along,   *)
(* and after the exit of a level that others saw, none is played that they *)
(* see.                                                                    *)
MovedInv == helped => wasSpectating /\ spectated # Nobody

ExitInv == sent = "exit" => level # "in" \/ ~readyForMP

LEMMA MovedInvariant == Spec => []MovedInv
<1>1. Init => MovedInv
  BY DEF Init, MovedInv
<1>2. TypeInv /\ MovedInv /\ [Next]_vars => MovedInv'
  <2> SUFFICES ASSUME TypeInv, MovedInv, [Next]_vars PROVE MovedInv'
    OBVIOUS
  <2> USE DEF MovedInv, spectating
  <2>1. CASE Receive \/ Feed
    BY <2>1 DEF Receive, ReceiveLevelData, ReceiveAccountData, LoseAccountData,
       Feed, FeedNew, FeedKnown, EraseGone, Insert, CollectGone, LockMtx
  <2>2. CASE EnterLevel \/ ClickSpectate \/ Restart
    BY <2>2 DEF EnterLevel, ClickSpectate, Restart
  <2>3. CASE Quit
    BY <2>3 DEF Quit, LeaveSpectate
  <2>4. CASE DestroyLayer \/ ClosePopup \/ LevelComplete \/ \E p \in Players : OpenPopup(p)
    BY <2>4 DEF DestroyLayer, ClosePopup, LevelComplete, OpenPopup
  <2>5. CASE TickSpectate
    <3>1. Nobody \notin players
      BY PlayersFinite DEF TypeInv, TypeOK
    <3>2. CASE Watch
      BY <3>1, <3>2 DEF Watch
    <3>3. CASE StopWatching \/ NotWatching
      BY <3>3 DEF StopWatching, LeaveSpectate, NotWatching
    <3> QED
      BY <2>5, <3>2, <3>3 DEF TickSpectate
  <2>6. CASE \/ \E ready \in BOOLEAN : JoinedLevel(ready)
             \/ \E p \in Players : Interpolate(p)
             \/ Interpolated \/ RemoveGone \/ CopyNew \/ AddNew \/ UpdateDefaults
    BY <2>6 DEF JoinedLevel, Interpolate, Interpolated, RemoveGone, CopyNew, AddNew,
       UpdateDefaults
  <2>7. CASE Tick \/ CopyGone \/ SendPlayerData
    BY <2>7 DEF Tick, CopyGone, SendPlayerData
  <2>8. CASE UNCHANGED vars
    BY <2>8 DEF vars
  <2> QED
    BY <2>1, <2>2, <2>3, <2>4, <2>5, <2>6, <2>7, <2>8 DEF Next, User, UiStep
<1> QED
  BY <1>1, <1>2, TypeInvariant, PTL DEF Spec

LEMMA ExitInvariant == Spec => []ExitInv
<1>1. Init => ExitInv
  BY DEF Init, ExitInv
<1>2. ExitInv /\ [Next]_vars => ExitInv'
  <2> SUFFICES ASSUME ExitInv, [Next]_vars PROVE ExitInv'
    OBVIOUS
  <2> USE DEF ExitInv, layer
  <2>1. CASE Receive \/ Feed
    BY <2>1 DEF Receive, ReceiveLevelData, ReceiveAccountData, LoseAccountData,
       Feed, FeedNew, FeedKnown, EraseGone, Insert, CollectGone, LockMtx
  <2>2. CASE User
    BY <2>2 DEF User, EnterLevel, Quit, DestroyLayer, OpenPopup, ClickSpectate,
       ClosePopup, Restart, LevelComplete
  <2>3. CASE UiStep
    BY <2>3 DEF UiStep, JoinedLevel, Interpolate, Interpolated, TickSpectate,
       RemoveGone, CopyNew, AddNew, UpdateDefaults
  <2>4. CASE Tick \/ CopyGone \/ SendPlayerData
    BY <2>4 DEF Tick, CopyGone, SendPlayerData
  <2>5. CASE UNCHANGED vars
    BY <2>5 DEF vars
  <2> QED
    BY <2>1, <2>2, <2>3, <2>4, <2>5 DEF Next
<1> QED
  BY <1>1, <1>2, PTL DEF Spec

(* What is sent in a step: the data of one who is not spectating, or       *)
(* something that ends or begins the stay in a level.                      *)
LEMMA SentSteps ==
  ASSUME [Next]_vars, sent' # sent
  PROVE  SendPlayerData \/ Quit \/ \E ready \in BOOLEAN : JoinedLevel(ready)
BY DEF Next, vars, layer, Receive, ReceiveLevelData, ReceiveAccountData, LoseAccountData,
       Feed, FeedNew, FeedKnown, EraseGone, Insert, CollectGone, LockMtx,
       User, EnterLevel, DestroyLayer, OpenPopup, ClickSpectate, ClosePopup, Restart,
       LevelComplete, UiStep, Interpolate, Interpolated, TickSpectate,
       RemoveGone, CopyNew, AddNew, UpdateDefaults, Tick, CopyGone

(* Nobody else sees where spectating has put the player.                   *)
THEOREM SpectatorNeverShown == Spec => SpectatorNotShown
<1>1. MovedInv /\ [Next]_vars => [sent' = "data" => ~helped]_sent
  BY SentSteps DEF MovedInv, SendPlayerData, Quit, JoinedLevel
<1> QED
  BY <1>1, MovedInvariant, PTL DEF Spec, SpectatorNotShown

(* The server hears no more of a level after its exit.                     *)
THEOREM NothingAfterExit == Spec => ExitIsLast
<1>1. ExitInv /\ [Next]_vars => [sent = "exit" => sent' = "entry"]_sent
  BY SentSteps DEF ExitInv, SendPlayerData, Quit, JoinedLevel, Scheduled
<1> QED
  BY <1>1, ExitInvariant, PTL DEF Spec, ExitIsLast
=============================================================================
