------------------------ MODULE OtherPlayerProperties ------------------------
(***************************************************************************)
(* What should hold of another player on the screen, modelled in           *)
(* OtherPlayer.                                                            *)
(***************************************************************************)
EXTENDS OtherPlayer

Frames == [time : Int \cup {NaN}, look : Looks]

Icons ==
  [isSecond : BOOLEAN, isDefault : BOOLEAN,
   innerNode : {Visible, Hidden}, sprite : Modes \cup {"none"},
   lastMode : Modes \cup {"NONE"},
   labelName : {Visible, Hidden, Absent}, iconsNode : {Visible, Hidden, Absent},
   status : SUBSET {"practice", "paused"},
   wasPractice : BOOLEAN, wasPaused : BOOLEAN, wasGrounded : BOOLEAN,
   wasDead : BOOLEAN, firstTick : BOOLEAN,
   justDied : BOOLEAN, justRespawned : BOOLEAN, haltedMovement : BOOLEAN]

(* Types. *)
TypeOK ==
  /\ stored \in [time : Nat, look : Looks] \cup {None}
  /\ \/ entry = None
     \/ entry \in [newerFrame : Frames, olderTime : Int \cup {NaN},
                   extrapolatedFrames : 0..4]
  /\ unseen \in Nat
  /\ newcomer \in BOOLEAN /\ gone \in BOOLEAN
  /\ cached \in BOOLEAN /\ spectated \in BOOLEAN
  /\ icons \in [{1, 2} -> Icons] \cup {None}
  /\ set \in Settings
  /\ last \in Looks \cup {None} /\ watched \in BOOLEAN

(* An icon shows the sprite of the game mode the other player had in the   *)
(* last frame, unless that player was dead or hidden.  The code remembers  *)
(* what it has shown so as not to show it again, while updateData replaces *)
(* and hides the sprites between two frames.                               *)
ShownAsSent ==
  icons # None /\ last # None =>
    \A k \in {1, 2} :
      ~icons[k].firstTick =>
        /\ icons[k].sprite = Of(last, k).gameMode
        /\ icons[k].innerNode = Shown(~Of(last, k).isHidden /\ ~last.isDead)

(* Nothing is left of a player who is dead or hidden, no name and no       *)
(* status icon: no frame leaves something to be seen.  One frame is        *)
(* granted, with a new look or new icons: in it, the status icons are made *)
(* anew after the visibility was set.                                      *)
HiddenNotDrawn ==
  [][\A k \in {1, 2} :
       /\ last # None /\ last' = last
       /\ Of(last, k).isHidden \/ last.isDead
       /\ icons # None /\ icons' # None /\ ~icons[1].firstTick
       /\ Visible \in {icons'[k].innerNode, icons'[k].iconsNode, icons'[k].labelName}
       => ~Frame]_vars

(* A death of the other player is shown once: in the frame in which it is  *)
(* first seen dead, not in the next ones, and not again when the icons     *)
(* are replaced while it is dead.                                          *)
DeathShownOnce ==
  icons # None /\ entry # None =>
    (EffectPlayed <=> /\ set.deathEffects /\ entry.newerFrame.look.isDead
                      /\ last = None \/ ~last.isDead)

(* While one watches the other player, the sound is played with the death  *)
(* effect, and the level starts over in the frame in which the other       *)
(* player is alive again; not a frame later or twice.                      *)
SignalsTakenAtOnce ==
  watched /\ icons # None /\ entry # None =>
    /\ SoundPlayed <=> EffectPlayed
    /\ LevelReset <=> last.isDead /\ ~entry.newerFrame.look.isDead

(* A made-up frame has the look of the frame before: whether the player is *)
(* dead or paused is kept back for as long as frames are made up, although *)
(* the server has sent it, and that ends after four of them.               *)
LooksNotKeptBack == unseen <= 4

(* How far a frame that is no number is from being gone: what is drawn     *)
(* lies between the older and the newer frame.                             *)
Badness(data) ==
  IF data.newerFrame.time = NaN THEN 2 ELSE IF data.olderTime = NaN THEN 1 ELSE 0

(* A frame whose time, and with it every position, is no number is gone    *)
(* after two packets that are not the last one again: the first takes its  *)
(* place, and no frame is made up from it.  From a packet that is repeated *)
(* one is, when the bad frame is the older one, so that a player who sends *)
(* nothing new can be drawn nowhere for as long as that lasts; therefore   *)
(* the property speaks of new packets only.                                *)
BadFramesFade ==
  [][FeedRealData /\ entry # None /\ stored.time # entry.newerFrame.time
       => Badness(entry') \in {0, Badness(entry) - 1}]_vars

=============================================================================
