----------------------------- MODULE OtherPlayer -----------------------------
(***************************************************************************)
(* One other player of the level, from that player's client to the screen  *)
(* of this one: its data is sent and kept by the server, comes back with   *)
(* every tick of the server, is put in order by the PlayerCorrector        *)
(* (src/correction/corrector.cpp), and drawn with two RemotePlayers        *)
(* (RemotePlayer.tla) by the play layer (src/hooked/play_layer.hpp).       *)
(*                                                                         *)
(* PlayLayer.tla has the threads, with players as names; here the threads  *)
(* take turns and the player has a look: all that PlayerData says of it    *)
(* but for positions.  Of a position the model knows whether it is a       *)
(* number.  Data sent in step with the server's ticks, or with one of them *)
(* left out, is Delay or 2 * Delay later; times that are near each other   *)
(* in the code are equal here.                                             *)
(***************************************************************************)
EXTENDS RemotePlayer, Integers

CONSTANTS
  Looks,      \* what PlayerData says of a player
  Relayed,    \* the look that arrives when a look is sent (PlayerCodec)
  EmptyLook,  \* PlayerData::empty() of the server
  Delay,      \* targetUpdateDelay
  Steps,      \* how much later the next data that arrives has been sent
  MaxTime,    \* bound: the player stands still then
  NaN,        \* the floating-point value
  None        \* no entry, no icons, no look

IconLooks == [gameMode : Modes, isHidden : BOOLEAN, isGrounded : BOOLEAN]

ASSUME LooksOfPlayers ==
  Looks \subseteq [player1 : IconLooks, player2 : IconLooks, isPractice : BOOLEAN,
                  isDead : BOOLEAN, isPaused : BOOLEAN]
ASSUME RelayedLooks == Relayed \in [Looks -> Looks]
ASSUME TimesAreNumbers ==
  Delay \in Nat \ {0} /\ Steps \subseteq Nat \ {0} /\ MaxTime \in Nat /\ NaN \notin Int
ASSUME NoneIsNone == None \notin Looks /\ EmptyLook \in Looks

VARIABLES
  stored,     \* the server's entry in the level, or None
  entry,      \* playerData[id] of the corrector, or None
  unseen,     \* how many packets in a row have had a look that is not drawn
  newcomer,   \* is the id in playersNew?
  gone,       \* is it in playersGone?
  cached,     \* are its icons in g_accDataCache?
  icons,      \* m_players[id]: the two RemotePlayers, or None
  spectated,  \* g_spectatedPlayer
  set,        \* RemotePlayerSettings
  last,       \* the look in the last frame, or None if it is not drawn yet
  watched     \* was it spectated in the last frame, and ever since?

corrector == <<entry, unseen, newcomer, gone>>
frames == <<last, watched>>
vars == <<stored, corrector, cached, icons, spectated, set, frames>>

Init ==
  /\ stored = None /\ entry = None /\ unseen = 0
  /\ newcomer = FALSE /\ gone = FALSE
  /\ cached = FALSE /\ icons = None /\ spectated = FALSE
  /\ set \in Settings
  /\ last = None /\ watched = FALSE

-----------------------------------------------------------------------------
(* The other client and the server.  On entry to the level the server      *)
(* stores empty data of time 0.                                            *)
PlayerEnters ==
  /\ stored = None
  /\ stored' = [time |-> 0, look |-> EmptyLook]
  /\ UNCHANGED <<corrector, cached, icons, spectated, set, frames>>

(* sendPlayerData; a packet that is lost only makes the next step longer.  *)
(* A player who spectates sends no data, and the entry stays as it is.     *)
PlayerData(look, step) ==
  /\ stored # None /\ stored.time + step <= MaxTime
  /\ stored' = [time |-> stored.time + step, look |-> Relayed[look]]
  /\ UNCHANGED <<corrector, cached, icons, spectated, set, frames>>

PlayerLeaves ==
  /\ stored # None
  /\ stored' = None
  /\ UNCHANGED <<corrector, cached, icons, spectated, set, frames>>

-----------------------------------------------------------------------------
(* The corrector.  Differences with NaN are NaN and not near anything.     *)
CloseEqual(later, earlier, delta) ==
  later # NaN /\ earlier # NaN /\ later - earlier = delta

(* Faulty: without a limit on the frames that are made up.                 *)
EstimatedAlways(data, fresh) ==
  \E delta \in {0, 2 * Delay} : CloseEqual(fresh.time, data.newerFrame.time, delta)

Estimated(data, fresh) ==
  /\ data.extrapolatedFrames <= 3
  /\ \E delta \in {0, 2 * Delay} :
       CloseEqual(fresh.time, data.newerFrame.time, delta)

GetMidPoint(older, newer) ==
  [newer EXCEPT !.time = (older.time + newer.time) \div 2]

(* passedTimeRatio divides by the difference of the times: without one,    *)
(* std::lerp takes infinity times zero, which is no number.  (Libraries    *)
(* that return the second value then do so for values other than 0.)       *)
GetExtrapolatedFrame(olderTime, newer) ==
  [newer EXCEPT !.time =
     IF olderTime \in {NaN, newer.time} THEN NaN ELSE newer.time + Delay]

(* Faulty: a frame that is not a number goes on to be extrapolated.        *)
EstimateFromNaN(data, fresh) ==
  IF data.newerFrame.time = NaN THEN data.newerFrame
  ELSE IF ~Estimated(data, fresh) THEN fresh
  ELSE IF fresh.time = data.newerFrame.time
    THEN GetExtrapolatedFrame(data.olderTime, data.newerFrame)
    ELSE GetMidPoint(data.newerFrame, fresh)

(* Faulty: what is older than the last frame, made up or not, is dropped.  *)
EstimateNewest(data, fresh) ==
  IF NaN \notin {fresh.time, data.newerFrame.time} /\ fresh.time < data.newerFrame.time
    THEN data.newerFrame
  ELSE IF ~Estimated(data, fresh) THEN fresh
  ELSE IF fresh.time = data.newerFrame.time
    THEN GetExtrapolatedFrame(data.olderTime, data.newerFrame)
    ELSE GetMidPoint(data.newerFrame, fresh)

(* maybeEstimateFrame *)
MaybeEstimateFrame(data, fresh) ==
  IF ~Estimated(data, fresh) THEN fresh
  ELSE IF fresh.time = data.newerFrame.time
    THEN GetExtrapolatedFrame(data.olderTime, data.newerFrame)
    ELSE GetMidPoint(data.newerFrame, fresh)

(* Of the older frame, emptyPlayerData at first, only the time matters but *)
(* for positions.                                                          *)
NewEntry(fresh) ==
  [newerFrame |-> fresh, olderTime |-> 0, extrapolatedFrames |-> 0]

NextEntry(data, fresh) ==
  [newerFrame |-> MaybeEstimateFrame(data, fresh),
   olderTime |-> data.newerFrame.time,
   extrapolatedFrames |->
     IF Estimated(data, fresh) THEN data.extrapolatedFrames + 1 ELSE 0]

(* feedRealData with the next LevelData; one that is lost never comes.     *)
FeedRealData ==
  /\ stored # None
  /\ entry' = IF entry = None THEN NewEntry(stored) ELSE NextEntry(entry, stored)
  /\ newcomer' = (newcomer \/ entry = None)
  /\ unseen' = IF entry'.newerFrame.look = stored.look THEN 0 ELSE unseen + 1
  /\ UNCHANGED <<stored, gone, cached, icons, spectated, set, frames>>

FeedWithoutPlayer ==
  /\ stored = None /\ entry # None
  /\ entry' = None /\ gone' = TRUE /\ unseen' = 0
  /\ UNCHANGED <<stored, newcomer, cached, icons, spectated, set, frames>>

ReceiveAccountData ==
  /\ cached' = TRUE
  /\ UNCHANGED <<stored, corrector, icons, spectated, set, frames>>

-----------------------------------------------------------------------------
(* The screen. *)
Of(look, k) == IF k = 1 THEN look.player1 ELSE look.player2

CreateBoth(areDefaults) ==
  [k \in {1, 2} |-> Create(k = 2, areDefaults, set)]

UpdateBoth(both) ==
  [k \in {1, 2} |-> UpdateData(both[k], FALSE, set)]

(* updateStuff: who is gone is taken off, who is new is put on, and those  *)
(* with default icons get their own once they are known.                   *)
UpdateStuff ==
  LET kept == IF gone THEN None ELSE icons
      there == IF newcomer /\ kept = None THEN CreateBoth(~cached) ELSE kept
      Renew == there # None /\ cached /\ \E k \in {1, 2} : there[k].isDefault
  IN /\ icons' = IF Renew THEN UpdateBoth(there) ELSE there
     /\ newcomer' = FALSE /\ gone' = FALSE
     /\ IF there = icons THEN UNCHANGED frames
        ELSE last' = None /\ watched' = FALSE
  /\ UNCHANGED <<stored, entry, unseen, cached, spectated, set>>

(* Faulty: hidden once the icon has been drawn, if at all.                 *)
InterpolateLate(rp, look, k) ==
  LET drawn == TickIcon(rp, Of(look, k), look, set)
  IN IF Of(look, k).isHidden THEN drawn ELSE SetVisible(drawn, ~look.isDead)

(* interpolateSpecific, positions left out.  Before a first tick the       *)
(* position is taken in any case.                                          *)
InterpolateSpecific(rp, look, k) ==
  [TickIcon(SetVisible(rp, ~Of(look, k).isHidden /\ ~look.isDead),
            Of(look, k), look, set)
   EXCEPT !.haltedMovement = (look.isDead \/ look.isPaused) /\ ~rp.firstTick]

(* Faulty: the sound is played and justDied stays.                         *)
SpectateForgetful(both) ==
  [both EXCEPT ![1].justRespawned = FALSE]

(* The spectated player's signals are taken.                               *)
Spectate(both) ==
  [both EXCEPT ![1].justDied = FALSE, ![1].justRespawned = FALSE]

(* What there is to be seen and heard of a frame, if one is drawn now.     *)
Drawn ==
  [k \in {1, 2} |-> InterpolateSpecific(icons[k], entry.newerFrame.look, k)]

EffectPlayed ==
  \E k \in {1, 2} : DeathEffectPlayed(icons[k], entry.newerFrame.look, set)

SoundPlayed == spectated /\ Drawn[1].justDied

LevelReset == spectated /\ Drawn[1].justRespawned

(* updateTick of a frame in which the player is drawn.  The level is reset *)
(* as well when the player is seen to go back, which is left out here.     *)
Frame ==
  /\ icons # None /\ entry # None
  /\ icons' = IF spectated THEN Spectate(Drawn) ELSE Drawn
  /\ last' = entry.newerFrame.look /\ watched' = spectated
  /\ UNCHANGED <<stored, corrector, cached, spectated, set>>

(* g_spectatedPlayer is not on the screen: leaveSpectate.                  *)
FrameWithoutPlayer ==
  /\ icons = None /\ spectated
  /\ spectated' = FALSE /\ watched' = FALSE
  /\ UNCHANGED <<stored, corrector, cached, icons, set, last>>

(* The button of the user list.  It is there for who has an entry.         *)
ToggleSpectate ==
  /\ spectated \/ entry # None
  /\ spectated' = ~spectated /\ watched' = FALSE
  /\ UNCHANGED <<stored, corrector, cached, icons, set, last>>

-----------------------------------------------------------------------------
Others ==
  \/ PlayerEnters
  \/ \E look \in Looks, step \in Steps : PlayerData(look, step)
  \/ PlayerLeaves

Receive == FeedRealData \/ FeedWithoutPlayer \/ ReceiveAccountData

Screen == UpdateStuff \/ Frame \/ FrameWithoutPlayer \/ ToggleSpectate

Next == Others \/ Receive \/ Screen

Spec == Init /\ [][Next]_vars
=============================================================================
