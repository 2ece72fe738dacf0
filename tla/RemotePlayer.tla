---------------------------- MODULE RemotePlayer ----------------------------
(***************************************************************************)
(* One icon of another player on the screen                                *)
(* (src/ui/game/remote_player.cpp): a RemotePlayer as a record, and its    *)
(* functions as operators from the record before to the record after.      *)
(*                                                                         *)
(* Of the nodes below a RemotePlayer the model keeps what there is to be   *)
(* seen: which of the seven sprites is shown, the status icons, the name   *)
(* label, and the visibility of each of the three groups.  Positions,      *)
(* sizes and colours are left out, but for the colour that is not set.     *)
(***************************************************************************)
EXTENDS Naturals

CONSTANTS
  Modes,      \* IconGameMode, without NONE
  Settings    \* the values of RemotePlayerSettings

ASSUME NoneIsNoMode == "NONE" \notin Modes
ASSUME SettingsAreFlags ==
  Settings \subseteq [practiceIcon : BOOLEAN, secondNameEnabled : BOOLEAN,
                     namesEnabled : BOOLEAN, deathEffects : BOOLEAN,
                     defaultDeathEffects : BOOLEAN]

Hidden == "hidden"      \* there, and setVisible(false)
Visible == "visible"
Absent == "absent"      \* a null pointer

Shown(visible) == IF visible THEN Visible ELSE Hidden

(* updateIconsLayout throws the status icons away and makes them anew,     *)
(* visible, for what was last drawn.                                       *)
UpdateIconsLayout(rp, set) ==
  LET status == {i \in {"practice", "paused"} :
                   IF i = "practice" THEN rp.wasPractice ELSE rp.wasPaused}
  IN IF set.practiceIcon /\ status # {}
       THEN [rp EXCEPT !.status = status, !.iconsNode = Visible]
       ELSE [rp EXCEPT !.status = {}, !.iconsNode = Absent]

HasName(second, set) ==
  set.namesEnabled /\ (second => set.secondNameEnabled)

(* Faulty: the sprites are made anew, hidden, and lastMode is kept.        *)
UpdateDataOnly(rp, areDefaults, set) ==
  [UpdateIconsLayout([rp EXCEPT !.firstTick = TRUE], set) EXCEPT
     !.isDefault = rp.isDefault /\ areDefaults,
     !.sprite = "none",
     !.labelName = IF HasName(rp.isSecond, set) THEN Visible ELSE Absent]

(* Faulty: everything that is noted of the player is reset.                *)
UpdateDataAnew(rp, areDefaults, set) ==
  [UpdateDataOnly([rp EXCEPT !.wasDead = FALSE], areDefaults, set) EXCEPT
     !.lastMode = "NONE"]

(* updateData: new sprites, all of them hidden, and a new label.           *)
UpdateData(rp, areDefaults, set) ==
  [UpdateIconsLayout([rp EXCEPT !.firstTick = TRUE], set) EXCEPT
     !.isDefault = rp.isDefault /\ areDefaults,
     !.sprite = "none", !.lastMode = "NONE",
     !.labelName = IF HasName(rp.isSecond, set) THEN Visible ELSE Absent]

(* create and init.  data == DEFAULT_PLAYER_ACCOUNT_DATA compares the      *)
(* icons and the name.                                                     *)
Create(second, areDefaults, set) ==
  UpdateData(
    [isSecond |-> second, isDefault |-> areDefaults,
     innerNode |-> Visible, sprite |-> "none", lastMode |-> "NONE",
     labelName |-> Absent, iconsNode |-> Absent, status |-> {},
     wasPractice |-> FALSE, wasPaused |-> FALSE, wasGrounded |-> FALSE,
     wasDead |-> FALSE, firstTick |-> TRUE,
     justDied |-> FALSE, justRespawned |-> FALSE, haltedMovement |-> FALSE],
    areDefaults, set)

(* Hides or shows what there is.                                           *)
SetVisible(rp, visible) ==
  [rp EXCEPT
     !.innerNode = Shown(visible),
     !.iconsNode = IF @ = Absent THEN Absent ELSE Shown(visible),
     !.labelName = IF @ = Absent THEN Absent ELSE Shown(visible)]

(* setActiveIcon: one sprite is shown, all others are hidden.              *)
SetActiveIcon(rp, mode) ==
  IF mode = rp.lastMode THEN rp
  ELSE [rp EXCEPT !.lastMode = mode, !.sprite = mode]

(* The flags are noted before they are (to no effect) cleared for the      *)
(* second icon.                                                            *)
NoteStatus(rp, frame, set) ==
  IF /\ set.practiceIcon
     /\ \/ rp.firstTick
        \/ frame.isPractice # rp.wasPractice \/ frame.isPaused # rp.wasPaused
    THEN UpdateIconsLayout([rp EXCEPT !.wasPractice = frame.isPractice,
                                      !.wasPaused = frame.isPaused], set)
    ELSE rp

(* The robot and the spider run or fall.                                   *)
NoteGrounded(rp, icon) ==
  [rp EXCEPT !.wasGrounded = icon.isGrounded]

DeathEffectPlayed(rp, frame, set) ==
  frame.isDead /\ ~rp.wasDead /\ set.deathEffects /\ ~rp.isSecond

NoteDeath(rp, frame, set) ==
  [rp EXCEPT
     !.wasDead = frame.isDead,
     !.justDied = @ \/ DeathEffectPlayed(rp, frame, set),
     !.justRespawned = @ \/ (rp.wasDead /\ ~frame.isDead)]

(* tick *)
TickIcon(rp, icon, frame, set) ==
  [NoteDeath(NoteGrounded(NoteStatus(SetActiveIcon(rp, icon.gameMode),
                                     frame, set), icon), frame, set)
   EXCEPT !.firstTick = FALSE]

-----------------------------------------------------------------------------
(* playDeathEffect.  The animation by death effect: its frames, the sprite *)
(* it starts from, and whether that fades out.  A random first frame is a  *)
(* set.                                                                    *)
Animation(first, last, root, fadesOut) ==
  [first |-> first, last |-> last, root |-> root, fadesOut |-> fadesOut]

FirstFrame(id) ==
  CASE id \in {2, 5, 8} -> {1, 2}
    [] id = 6 -> {2, 3}
    [] id \in {3, 9, 10, 14, 16, 17} -> {2}
    [] id \in {4, 7, 11, 12, 13} -> {1}
    [] id = 15 -> {3}

LastFrame(id) ==
  CASE id = 5 -> 9
    [] id \in {3, 4, 6} -> 10
    [] id \in {8, 9} -> 11
    [] id \in {2, 11, 12, 13, 14} -> 12
    [] id \in {7, 10} -> 13
    [] id = 15 -> 15
    [] id = 16 -> 16
    [] id = 17 -> 19

(* Faulty: the last case is missing.                                       *)
FewerAnimations ==
  [id \in 2..16 |-> Animation(FirstFrame(id), LastFrame(id),
                              IF id = 15 THEN 2 ELSE 1, id # 16)]

(* The switch.  There is no default.                                       *)
Animations ==
  [id \in 2..17 |-> Animation(FirstFrame(id), LastFrame(id),
                              IF id \in {15, 17} THEN 2 ELSE 1, id # 16)]

(* Effect 1, or every one if the settings say so, is a circle wave only.   *)
CircleOnly(id, set) == set.defaultDeathEffects \/ id <= 1

(* An effect with no case leaves animDelay without a value, and the rest   *)
(* of the animation as the variables were declared.                        *)
PlayDeathEffect(id, set) ==
  IF CircleOnly(id, set) THEN Animation({}, 0, 0, FALSE)
  ELSE IF id \in DOMAIN Animations THEN Animations[id]
  ELSE Animation({1}, 10, 1, TRUE)

AnimDelayIsSet(id, set) == CircleOnly(id, set) \/ id \in DOMAIN Animations
=============================================================================
