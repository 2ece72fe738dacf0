-------------------------- MODULE OtherPlayerProofs --------------------------
(***************************************************************************)
(* Proofs about another player on the screen, for all looks a player can   *)
(* have, all settings and all times at which its data may arrive.          *)
(***************************************************************************)
EXTENDS OtherPlayerProperties, TLAPS

Entries ==
  [newerFrame : Frames, olderTime : Int \cup {NaN}, extrapolatedFrames : 0..4]

(* What the corrector keeps, and for how long it has kept a look back.     *)
CorrectorInv ==
  /\ stored \in [time : Nat, look : Looks] \cup {None}
  /\ entry = None \/ entry \in Entries
  /\ unseen \in 0..4
  /\ entry # None => unseen <= entry.extrapolatedFrames

-----------------------------------------------------------------------------
LEMMA NextFrame ==
  ASSUME NEW data \in Entries, NEW fresh \in [time : Nat, look : Looks]
  PROVE  /\ NextEntry(data, fresh) \in Entries
         /\ ~Estimated(data, fresh) => NextEntry(data, fresh).newerFrame = fresh
         /\ NextEntry(data, fresh).extrapolatedFrames =
              IF Estimated(data, fresh) THEN data.extrapolatedFrames + 1 ELSE 0
         /\ Estimated(data, fresh) => data.newerFrame.time # NaN
<1>1. fresh \in Frames
  BY DEF Frames
<1>2. Estimated(data, fresh) => data.newerFrame.time # NaN /\ data.extrapolatedFrames <= 3
  BY DEF Estimated, CloseEqual
<1>3. ASSUME Estimated(data, fresh)
      PROVE  /\ GetExtrapolatedFrame(data.olderTime, data.newerFrame) \in Frames
             /\ GetMidPoint(data.newerFrame, fresh) \in Frames
  <2>1. data.newerFrame.time \in Int /\ data.newerFrame \in Frames
    BY <1>2, <1>3 DEF Entries, Frames
  <2>2. data.newerFrame.time + Delay \in Int
        /\ (data.newerFrame.time + fresh.time) \div 2 \in Int
    BY <2>1, TimesAreNumbers
  <2>3. ASSUME NEW f \in Frames, NEW t \in Int \cup {NaN} PROVE [f EXCEPT !.time = t] \in Frames
    BY DEF Frames
  <2> QED
    BY <1>1, <2>1, <2>2, <2>3 DEF GetExtrapolatedFrame, GetMidPoint
<1>4. MaybeEstimateFrame(data, fresh) \in Frames
  BY <1>1, <1>3 DEF MaybeEstimateFrame
<1>5. data.newerFrame.time \in Int \cup {NaN}
  BY DEF Entries, Frames
<1>6. (IF Estimated(data, fresh) THEN data.extrapolatedFrames + 1 ELSE 0) \in 0..4
  BY <1>2 DEF Entries
<1> QED
  BY <1>2, <1>4, <1>5, <1>6 DEF NextEntry, Entries, MaybeEstimateFrame

(* What is done to the corrector.                                          *)
LEMMA CorrectorSteps ==
  ASSUME [Next]_vars
  PROVE  \/ UNCHANGED <<stored, entry, unseen>>
         \/ PlayerEnters \/ PlayerLeaves
         \/ \E look \in Looks, step \in Steps : PlayerData(look, step)
         \/ FeedRealData \/ FeedWithoutPlayer
BY DEF Next, Others, Receive, Screen, ReceiveAccountData, UpdateStuff, Frame,
       FrameWithoutPlayer, ToggleSpectate, vars, corrector

LEMMA CorrectorInvariant == Spec => []CorrectorInv
<1>1. Init => CorrectorInv
  BY DEF Init, CorrectorInv
<1>2. CorrectorInv /\ [Next]_vars => CorrectorInv'
  <2> SUFFICES ASSUME CorrectorInv, [Next]_vars PROVE CorrectorInv'
    OBVIOUS
  <2> USE DEF CorrectorInv
  <2>1. CASE UNCHANGED <<stored, entry, unseen>>
    BY <2>1
  <2>2. CASE PlayerEnters \/ PlayerLeaves
    BY <2>2, NoneIsNone DEF PlayerEnters, PlayerLeaves, corrector
  <2>3. ASSUME NEW look \in Looks, NEW step \in Steps, PlayerData(look, step)
        PROVE  CorrectorInv'
    <3>1. stored.time + step \in Nat /\ Relayed[look] \in Looks
      BY <2>3, TimesAreNumbers, RelayedLooks DEF PlayerData
    <3> QED
      BY <2>3, <3>1 DEF PlayerData, corrector
  <2>4. CASE FeedRealData
    <3>1. stored' = stored /\ stored \in [time : Nat, look : Looks]
      BY <2>4 DEF FeedRealData
    <3>2. CASE entry = None
      <4>1. entry' = NewEntry(stored) /\ NewEntry(stored) \in Entries
            /\ NewEntry(stored).newerFrame = stored
        BY <2>4, <3>1, <3>2 DEF FeedRealData, NewEntry, Entries, Frames
      <4>2. unseen' = 0
        BY <2>4, <4>1 DEF FeedRealData
      <4> QED
        BY <3>1, <4>1, <4>2 DEF Entries
    <3>3. CASE entry # None
      <4>1. entry' = NextEntry(entry, stored) /\ entry \in Entries
        BY <2>4, <3>3 DEF FeedRealData
      <4>2. entry' \in Entries
        BY <3>1, <4>1, NextFrame
      <4>3. CASE Estimated(entry, stored)
        <5>1. entry'.extrapolatedFrames = entry.extrapolatedFrames + 1
          BY <3>1, <4>1, <4>3, NextFrame
        <5>2. unseen' \in Nat /\ unseen' <= unseen + 1
          BY <2>4 DEF FeedRealData
        <5>3. unseen' <= entry'.extrapolatedFrames
          BY <3>3, <4>1, <5>1, <5>2 DEF Entries
        <5>4. entry'.extrapolatedFrames \in 0..4
          BY <4>2 DEF Entries
        <5>5. unseen' \in 0..4
          BY <5>2, <5>3, <5>4
        <5> QED
          BY <3>1, <4>2, <5>3, <5>5
      <4>4. CASE ~Estimated(entry, stored)
        <5>1. unseen' = 0 /\ entry'.extrapolatedFrames \in Nat
          BY <2>4, <3>1, <4>1, <4>2, <4>4, NextFrame DEF FeedRealData, Entries
        <5> QED
          BY <3>1, <4>2, <5>1
      <4> QED
        BY <4>3, <4>4
    <3> QED
      BY <3>2, <3>3
  <2>5. CASE FeedWithoutPlayer
    BY <2>5 DEF FeedWithoutPlayer
  <2> QED
    BY <2>1, <2>2, <2>3, <2>4, <2>5, CorrectorSteps
<1> QED
  BY <1>1, <1>2, PTL DEF Spec

(* The look of a player is kept back for four packets at most, whenever    *)
(* they are sent and whatever they say.                                    *)
THEOREM NeverKeptBackLonger == Spec => []LooksNotKeptBack
<1>1. CorrectorInv => LooksNotKeptBack
  BY DEF CorrectorInv, LooksNotKeptBack, Entries
<1> QED
  BY <1>1, CorrectorInvariant, PTL

(* Two new packets are enough to get rid of a frame that is not a number:  *)
(* the first takes its place, the second that of the older frame.          *)
THEOREM NaNFades == Spec => BadFramesFade
<1>1. ASSUME CorrectorInv, FeedRealData, entry # None,
             stored.time # entry.newerFrame.time
      PROVE  Badness(entry') \in {0, Badness(entry) - 1}
  <2>1. entry' = NextEntry(entry, stored) /\ entry \in Entries
        /\ stored \in [time : Nat, look : Looks]
    BY <1>1 DEF FeedRealData, CorrectorInv
  <2>2. entry'.olderTime = entry.newerFrame.time
    BY <2>1 DEF NextEntry
  <2>3. stored.time \in Int /\ stored.time # NaN
    BY <2>1, TimesAreNumbers
  <2>4. entry'.newerFrame.time # NaN
    <3>1. CASE ~Estimated(entry, stored)
      BY <2>1, <2>3, <3>1, NextFrame
    <3>2. CASE Estimated(entry, stored)
      <4>1. entry.newerFrame.time \in Int /\ entry.newerFrame \in Frames
        BY <2>1, <3>2, NextFrame DEF Entries, Frames
      <4>2. entry'.newerFrame = GetMidPoint(entry.newerFrame, stored)
        BY <1>1, <2>1, <3>2 DEF NextEntry, MaybeEstimateFrame
      <4>3. entry'.newerFrame.time = (entry.newerFrame.time + stored.time) \div 2
        BY <2>1, <4>2 DEF GetMidPoint
      <4>4. (entry.newerFrame.time + stored.time) \div 2 \in Int
        BY <2>3, <4>1
      <4> QED
        BY <4>3, <4>4, TimesAreNumbers
    <3> QED
      BY <3>1, <3>2
  <2>5. CASE entry.newerFrame.time = NaN
    BY <2>2, <2>4, <2>5 DEF Badness
  <2>6. CASE entry.newerFrame.time # NaN
    BY <2>2, <2>4, <2>6 DEF Badness
  <2> QED
    BY <2>5, <2>6
<1>2. CorrectorInv /\ [Next]_vars =>
        [FeedRealData /\ entry # None /\ stored.time # entry.newerFrame.time
           => Badness(entry') \in {0, Badness(entry) - 1}]_vars
  BY <1>1
<1> QED
  BY <1>2, CorrectorInvariant, PTL DEF Spec, BadFramesFade

-----------------------------------------------------------------------------
(* What the functions of a RemotePlayer do to one that is well-typed, and  *)
(* what they leave alone.                                                  *)
Kept(new, old) ==
  /\ new.isSecond = old.isSecond /\ new.wasDead = old.wasDead
  /\ new.justDied = old.justDied /\ new.justRespawned = old.justRespawned

KeptSprite(new, old) ==
  /\ new.sprite = old.sprite /\ new.lastMode = old.lastMode
  /\ new.innerNode = old.innerNode /\ new.labelName = old.labelName

KeptStatus(new, old) ==
  new.wasPractice = old.wasPractice /\ new.wasPaused = old.wasPaused

LEMMA LayoutOfIcons ==
  ASSUME NEW rp \in Icons, NEW s
  PROVE  /\ UpdateIconsLayout(rp, s) \in Icons
         /\ Kept(UpdateIconsLayout(rp, s), rp)
         /\ KeptSprite(UpdateIconsLayout(rp, s), rp)
         /\ KeptStatus(UpdateIconsLayout(rp, s), rp)
         /\ UpdateIconsLayout(rp, s).firstTick = rp.firstTick
<1> DEFINE With(st, n) == [rp EXCEPT !.status = st, !.iconsNode = n]
<1>1. ASSUME NEW st \in SUBSET {"practice", "paused"}, NEW n \in {Visible, Hidden, Absent}
      PROVE  /\ With(st, n) \in Icons
             /\ Kept(With(st, n), rp) /\ KeptSprite(With(st, n), rp)
             /\ KeptStatus(With(st, n), rp) /\ With(st, n).firstTick = rp.firstTick
  <2>1. With(st, n) \in Icons
    BY DEF Icons
  <2>2. Kept(With(st, n), rp) /\ KeptSprite(With(st, n), rp)
        /\ KeptStatus(With(st, n), rp) /\ With(st, n).firstTick = rp.firstTick
    BY DEF Icons, Kept, KeptSprite, KeptStatus
  <2> QED
    BY <2>1, <2>2
<1> DEFINE status == {i \in {"practice", "paused"} :
                       IF i = "practice" THEN rp.wasPractice ELSE rp.wasPaused}
<1>2. CASE s.practiceIcon /\ status # {}
  <2>1. UpdateIconsLayout(rp, s) = With(status, Visible)
    BY <1>2 DEF UpdateIconsLayout
  <2>2. status \in SUBSET {"practice", "paused"} /\ Visible \in {Visible, Hidden, Absent}
    OBVIOUS
  <2> HIDE DEF With, status
  <2> QED
    BY <2>1, <2>2, <1>1
<1>3. CASE ~(s.practiceIcon /\ status # {})
  <2>1. UpdateIconsLayout(rp, s) = With({}, Absent)
    BY <1>3 DEF UpdateIconsLayout
  <2>2. {} \in SUBSET {"practice", "paused"} /\ Absent \in {Visible, Hidden, Absent}
    OBVIOUS
  <2> HIDE DEF With, status
  <2> QED
    BY <2>1, <2>2, <1>1
<1> QED
  BY <1>2, <1>3

LEMMA DataOfIcons ==
  ASSUME NEW rp \in Icons, NEW areDefaults \in BOOLEAN, NEW s
  PROVE  /\ UpdateData(rp, areDefaults, s) \in Icons
         /\ Kept(UpdateData(rp, areDefaults, s), rp)
         /\ KeptStatus(UpdateData(rp, areDefaults, s), rp)
         /\ UpdateData(rp, areDefaults, s).lastMode = "NONE"
         /\ UpdateData(rp, areDefaults, s).firstTick = TRUE
<1> DEFINE first == [rp EXCEPT !.firstTick = TRUE]
           laid == UpdateIconsLayout(first, s)
           New(d, l) == [laid EXCEPT !.isDefault = d, !.sprite = "none",
                                     !.lastMode = "NONE", !.labelName = l]
<1>1. first \in Icons /\ Kept(first, rp) /\ KeptStatus(first, rp) /\ first.firstTick = TRUE
  BY DEF Icons, Kept, KeptStatus
<1> HIDE DEF first
<1>2. laid \in Icons /\ Kept(laid, rp) /\ KeptStatus(laid, rp) /\ laid.firstTick = TRUE
  BY <1>1, LayoutOfIcons DEF Kept, KeptStatus
<1> HIDE DEF laid
<1>3. ASSUME NEW d \in BOOLEAN, NEW l \in {Visible, Absent}
      PROVE  New(d, l) \in Icons
  BY <1>2 DEF Icons
<1>4. ASSUME NEW d, NEW l
      PROVE  /\ Kept(New(d, l), rp) /\ KeptStatus(New(d, l), rp)
             /\ New(d, l).lastMode = "NONE" /\ New(d, l).firstTick = TRUE
  BY <1>2 DEF Icons, Kept, KeptStatus
<1>5. UpdateData(rp, areDefaults, s) =
        New(rp.isDefault /\ areDefaults,
            IF HasName(rp.isSecond, s) THEN Visible ELSE Absent)
  BY DEF UpdateData, laid, first
<1>6. (rp.isDefault /\ areDefaults) \in BOOLEAN
      /\ (IF HasName(rp.isSecond, s) THEN Visible ELSE Absent) \in {Visible, Absent}
  OBVIOUS
<1> HIDE DEF New
<1> QED
  BY ZenonT(40), <1>3, <1>4, <1>5, <1>6

LEMMA CreatedIcons ==
  ASSUME NEW second \in BOOLEAN, NEW areDefaults \in BOOLEAN, NEW s
  PROVE  /\ Create(second, areDefaults, s) \in Icons
         /\ Create(second, areDefaults, s).isSecond = second
         /\ Create(second, areDefaults, s).wasDead = FALSE
         /\ Create(second, areDefaults, s).lastMode = "NONE"
         /\ Create(second, areDefaults, s).firstTick = TRUE
<1> DEFINE rp ==
      [isSecond |-> second, isDefault |-> areDefaults,
       innerNode |-> Visible, sprite |-> "none", lastMode |-> "NONE",
       labelName |-> Absent, iconsNode |-> Absent, status |-> {},
       wasPractice |-> FALSE, wasPaused |-> FALSE, wasGrounded |-> FALSE,
       wasDead |-> FALSE, firstTick |-> TRUE,
       justDied |-> FALSE, justRespawned |-> FALSE, haltedMovement |-> FALSE]
<1>1. /\ "none" \in Modes \cup {"none"} /\ "NONE" \in Modes \cup {"NONE"}
      /\ {} \in SUBSET {"practice", "paused"}
  OBVIOUS
<1>2. rp \in Icons
  BY <1>1 DEF Icons
<1>3. rp.isSecond = second /\ rp.wasDead = FALSE
  OBVIOUS
<1>4. Create(second, areDefaults, s) = UpdateData(rp, areDefaults, s)
  BY DEF Create
<1> HIDE DEF rp
<1> DEFINE u == UpdateData(rp, areDefaults, s)
<1>5. u \in Icons /\ Kept(u, rp) /\ u.lastMode = "NONE" /\ u.firstTick = TRUE
  BY <1>2, DataOfIcons
<1> HIDE DEF u
<1>6. u.isSecond = second /\ u.wasDead = FALSE
  BY <1>3, <1>5 DEF Kept
<1> QED
  BY <1>4, <1>5, <1>6 DEF u

(* A frame: the sprite is that of the mode, the visibility that of the     *)
(* look, and what is noted of the player is the look.                      *)
TickedFrom(new, old, icon, look, visible, s) ==
  /\ new.isSecond = old.isSecond /\ new.firstTick = FALSE
  /\ new.wasDead = look.isDead
  /\ new.justDied = (old.justDied \/ DeathEffectPlayed(old, look, s))
  /\ new.justRespawned = (old.justRespawned \/ (old.wasDead /\ ~look.isDead))
  /\ new.lastMode = icon.gameMode
  /\ old.lastMode \in {"NONE", old.sprite} => new.sprite = icon.gameMode
  /\ new.innerNode = Shown(visible)
  /\ s.practiceIcon => new.wasPractice = look.isPractice /\ new.wasPaused = look.isPaused
  /\ /\ ~visible /\ ~old.firstTick
     /\ s.practiceIcon => old.wasPractice = look.isPractice /\ old.wasPaused = look.isPaused
     => Visible \notin {new.innerNode, new.iconsNode, new.labelName}

LEMMA VisibilityOfIcons ==
  ASSUME NEW rp \in Icons, NEW visible \in BOOLEAN
  PROVE  /\ SetVisible(rp, visible) \in Icons
         /\ Kept(SetVisible(rp, visible), rp) /\ KeptStatus(SetVisible(rp, visible), rp)
         /\ SetVisible(rp, visible).firstTick = rp.firstTick
         /\ SetVisible(rp, visible).sprite = rp.sprite
         /\ SetVisible(rp, visible).lastMode = rp.lastMode
         /\ SetVisible(rp, visible).innerNode = Shown(visible)
         /\ ~visible => Visible \notin {SetVisible(rp, visible).iconsNode,
                                       SetVisible(rp, visible).labelName}
<1> DEFINE v == SetVisible(rp, visible)
<1>1. Shown(visible) \in {Visible, Hidden} /\ (~visible => Shown(visible) # Visible)
      /\ Absent # Visible
  BY DEF Shown, Visible, Hidden, Absent
<1>2. v \in Icons
  BY ZenonT(40), <1>1 DEF SetVisible, Icons
<1>3. /\ Kept(v, rp) /\ KeptStatus(v, rp)
      /\ v.firstTick = rp.firstTick /\ v.sprite = rp.sprite /\ v.lastMode = rp.lastMode
      /\ v.innerNode = Shown(visible)
  BY DEF SetVisible, Icons, Kept, KeptStatus
<1>4. /\ v.iconsNode = IF rp.iconsNode = Absent THEN Absent ELSE Shown(visible)
      /\ v.labelName = IF rp.labelName = Absent THEN Absent ELSE Shown(visible)
  BY DEF SetVisible, Icons
<1> HIDE DEF v
<1>5. ~visible => Visible \notin {v.iconsNode, v.labelName}
  BY <1>1, <1>4
<1> QED
  BY <1>2, <1>3, <1>5 DEF v

LEMMA ActiveIcon ==
  ASSUME NEW rp \in Icons, NEW mode \in Modes
  PROVE  /\ SetActiveIcon(rp, mode) \in Icons
         /\ Kept(SetActiveIcon(rp, mode), rp) /\ KeptStatus(SetActiveIcon(rp, mode), rp)
         /\ SetActiveIcon(rp, mode).firstTick = rp.firstTick
         /\ SetActiveIcon(rp, mode).innerNode = rp.innerNode
         /\ SetActiveIcon(rp, mode).iconsNode = rp.iconsNode
         /\ SetActiveIcon(rp, mode).labelName = rp.labelName
         /\ SetActiveIcon(rp, mode).lastMode = mode
         /\ rp.lastMode \in {"NONE", rp.sprite} => SetActiveIcon(rp, mode).sprite = mode
<1>1. CASE mode = rp.lastMode
  BY <1>1, NoneIsNoMode DEF SetActiveIcon, Kept, KeptStatus
<1>2. CASE mode # rp.lastMode
  <2> DEFINE a == [rp EXCEPT !.lastMode = mode, !.sprite = mode]
  <2>1. SetActiveIcon(rp, mode) = a
    BY <1>2 DEF SetActiveIcon
  <2>2. a \in Icons
    BY DEF Icons
  <2>3. /\ Kept(a, rp) /\ KeptStatus(a, rp) /\ a.firstTick = rp.firstTick
        /\ a.innerNode = rp.innerNode /\ a.iconsNode = rp.iconsNode
        /\ a.labelName = rp.labelName /\ a.lastMode = mode /\ a.sprite = mode
    BY DEF Icons, Kept, KeptStatus
  <2> HIDE DEF a
  <2> QED
    BY <2>1, <2>2, <2>3
<1> QED
  BY <1>1, <1>2

LEMMA StatusOfIcons ==
  ASSUME NEW rp \in Icons, NEW look \in Looks, NEW s
  PROVE  /\ NoteStatus(rp, look, s) \in Icons
         /\ Kept(NoteStatus(rp, look, s), rp) /\ KeptSprite(NoteStatus(rp, look, s), rp)
         /\ s.practiceIcon =>
              /\ NoteStatus(rp, look, s).wasPractice = look.isPractice
              /\ NoteStatus(rp, look, s).wasPaused = look.isPaused
         /\ /\ ~rp.firstTick
            /\ s.practiceIcon => rp.wasPractice = look.isPractice /\ rp.wasPaused = look.isPaused
            => NoteStatus(rp, look, s).iconsNode = rp.iconsNode
<1> DEFINE noted == [rp EXCEPT !.wasPractice = look.isPractice, !.wasPaused = look.isPaused]
           changed == /\ s.practiceIcon
                      /\ \/ rp.firstTick
                         \/ look.isPractice # rp.wasPractice \/ look.isPaused # rp.wasPaused
<1>1. look.isPractice \in BOOLEAN /\ look.isPaused \in BOOLEAN
  BY LooksOfPlayers
<1>2. noted \in Icons
  BY <1>1 DEF Icons
<1>3. /\ Kept(noted, rp) /\ KeptSprite(noted, rp)
      /\ noted.wasPractice = look.isPractice /\ noted.wasPaused = look.isPaused
  BY DEF Icons, Kept, KeptSprite
<1> HIDE DEF noted
<1>4. CASE changed
  <2>1. NoteStatus(rp, look, s) = UpdateIconsLayout(noted, s)
    BY <1>4 DEF NoteStatus, noted
  <2>2. ~(/\ ~rp.firstTick
          /\ s.practiceIcon => rp.wasPractice = look.isPractice /\ rp.wasPaused = look.isPaused)
    BY <1>4
  <2> QED
    BY <1>2, <1>3, <2>1, <2>2, LayoutOfIcons DEF Kept, KeptSprite, KeptStatus
<1>5. CASE ~changed
  <2>1. NoteStatus(rp, look, s) = rp
    BY <1>5 DEF NoteStatus
  <2>2. s.practiceIcon => rp.wasPractice = look.isPractice /\ rp.wasPaused = look.isPaused
    BY <1>5
  <2> QED
    BY <2>1, <2>2 DEF Kept, KeptSprite
<1> QED
  BY <1>4, <1>5

LEMMA NotedDeath ==
  ASSUME NEW rp \in Icons, NEW icon \in IconLooks, NEW look \in Looks, NEW s \in Settings
  PROVE  LET new == [NoteDeath(NoteGrounded(rp, icon), look, s) EXCEPT !.firstTick = FALSE]
         IN /\ new \in Icons /\ KeptSprite(new, rp) /\ KeptStatus(new, rp)
            /\ new.isSecond = rp.isSecond /\ new.firstTick = FALSE
            /\ new.iconsNode = rp.iconsNode
            /\ new.wasDead = look.isDead
            /\ new.justDied = (rp.justDied \/ DeathEffectPlayed(rp, look, s))
            /\ new.justRespawned = (rp.justRespawned \/ (rp.wasDead /\ ~look.isDead))
<1> DEFINE on == NoteGrounded(rp, icon)
           died == DeathEffectPlayed(on, look, s)
           new == [NoteDeath(on, look, s) EXCEPT !.firstTick = FALSE]
<1>1. on \in Icons
  BY DEF Icons, NoteGrounded, IconLooks
<1>2. /\ Kept(on, rp) /\ KeptSprite(on, rp) /\ KeptStatus(on, rp)
      /\ on.iconsNode = rp.iconsNode
  BY DEF Icons, NoteGrounded, Kept, KeptSprite, KeptStatus
<1> HIDE DEF on
<1>3. look.isDead \in BOOLEAN /\ died = DeathEffectPlayed(rp, look, s) /\ died \in BOOLEAN
  BY <1>2, LooksOfPlayers DEF DeathEffectPlayed, Kept
<1>4. (on.justDied \/ died) \in BOOLEAN /\ (on.justRespawned \/ (on.wasDead /\ ~look.isDead)) \in BOOLEAN
  OBVIOUS
<1>5. new = [on EXCEPT !.wasDead = look.isDead, !.justDied = on.justDied \/ died,
                       !.justRespawned = on.justRespawned \/ (on.wasDead /\ ~look.isDead),
                       !.firstTick = FALSE]
  BY <1>1 DEF NoteDeath, Icons
<1> HIDE DEF died, new
<1>6. new \in Icons
  <2>1. ASSUME NEW a \in BOOLEAN, NEW b \in BOOLEAN, NEW c \in BOOLEAN
        PROVE  [on EXCEPT !.wasDead = a, !.justDied = b, !.justRespawned = c,
                          !.firstTick = FALSE] \in Icons
    BY ZenonT(40), <1>1 DEF Icons
  <2> QED
    BY <1>3, <1>4, <1>5, <2>1
<1>7. /\ KeptSprite(new, on) /\ KeptStatus(new, on)
      /\ new.isSecond = on.isSecond /\ new.firstTick = FALSE
      /\ new.iconsNode = on.iconsNode
      /\ new.wasDead = look.isDead
      /\ new.justDied = (on.justDied \/ died)
      /\ new.justRespawned = (on.justRespawned \/ (on.wasDead /\ ~look.isDead))
  BY <1>1, <1>5 DEF Icons, KeptSprite, KeptStatus
<1> QED
  BY <1>2, <1>3, <1>6, <1>7 DEF Kept, KeptSprite, KeptStatus, new, on

LEMMA FrameOfIcons ==
  ASSUME NEW rp \in Icons, NEW look \in Looks, NEW k \in {1, 2}, set \in Settings
  PROVE  /\ InterpolateSpecific(rp, look, k) \in Icons
         /\ TickedFrom(InterpolateSpecific(rp, look, k), rp, Of(look, k), look,
                       ~Of(look, k).isHidden /\ ~look.isDead, set)
<1> DEFINE visible == ~Of(look, k).isHidden /\ ~look.isDead
           seen == SetVisible(rp, visible)
           active == SetActiveIcon(seen, Of(look, k).gameMode)
           noted == NoteStatus(active, look, set)
           ticked == [NoteDeath(NoteGrounded(noted, Of(look, k)), look, set)
                      EXCEPT !.firstTick = FALSE]
           halted == (look.isDead \/ look.isPaused) /\ ~rp.firstTick
           new == [ticked EXCEPT !.haltedMovement = halted]
<1>1. Of(look, k) \in IconLooks /\ visible \in BOOLEAN /\ halted \in BOOLEAN
      /\ Of(look, k).gameMode \in Modes
  BY LooksOfPlayers DEF Of, IconLooks
<1>2. InterpolateSpecific(rp, look, k) = new
  BY DEF InterpolateSpecific, TickIcon
<1> HIDE DEF visible, halted
<1>3. seen \in Icons /\ Kept(seen, rp) /\ KeptStatus(seen, rp)
      /\ seen.firstTick = rp.firstTick /\ seen.sprite = rp.sprite
      /\ seen.lastMode = rp.lastMode /\ seen.innerNode = Shown(visible)
      /\ (~visible => Visible \notin {seen.iconsNode, seen.labelName})
  BY <1>1, VisibilityOfIcons
<1> HIDE DEF seen
<1>4. active \in Icons /\ Kept(active, seen) /\ KeptStatus(active, seen)
      /\ active.firstTick = seen.firstTick
      /\ active.innerNode = seen.innerNode /\ active.iconsNode = seen.iconsNode
      /\ active.labelName = seen.labelName /\ active.lastMode = Of(look, k).gameMode
      /\ (seen.lastMode \in {"NONE", seen.sprite} => active.sprite = Of(look, k).gameMode)
  BY <1>1, <1>3, ActiveIcon
<1> HIDE DEF active
<1>5. noted \in Icons /\ Kept(noted, active) /\ KeptSprite(noted, active)
      /\ (set.practiceIcon =>
            noted.wasPractice = look.isPractice /\ noted.wasPaused = look.isPaused)
      /\ (/\ ~active.firstTick
          /\ set.practiceIcon => /\ active.wasPractice = look.isPractice
                                /\ active.wasPaused = look.isPaused
          => noted.iconsNode = active.iconsNode)
  BY <1>4, StatusOfIcons
<1> HIDE DEF noted
<1>6. ticked \in Icons /\ KeptSprite(ticked, noted) /\ KeptStatus(ticked, noted)
      /\ ticked.isSecond = noted.isSecond /\ ticked.firstTick = FALSE
      /\ ticked.iconsNode = noted.iconsNode
      /\ ticked.wasDead = look.isDead
      /\ ticked.justDied = (noted.justDied \/ DeathEffectPlayed(noted, look, set))
      /\ ticked.justRespawned = (noted.justRespawned \/ (noted.wasDead /\ ~look.isDead))
  BY <1>1, <1>5, NotedDeath
<1> HIDE DEF ticked
<1>7. new \in Icons
  BY <1>1, <1>6 DEF Icons
<1>8. Kept(new, ticked) /\ KeptSprite(new, ticked) /\ KeptStatus(new, ticked)
      /\ new.firstTick = ticked.firstTick /\ new.iconsNode = ticked.iconsNode
  BY <1>6 DEF Icons, Kept, KeptSprite, KeptStatus
<1> HIDE DEF new
<1>9. Kept(noted, rp)
  BY <1>3, <1>4, <1>5 DEF Kept
<1>10. DeathEffectPlayed(noted, look, set) = DeathEffectPlayed(rp, look, set)
  BY <1>9 DEF DeathEffectPlayed, Kept
<1>11. /\ new.isSecond = rp.isSecond /\ new.firstTick = FALSE
       /\ new.wasDead = look.isDead
  BY <1>6, <1>8, <1>9 DEF Kept
<1>12. /\ new.justDied = (rp.justDied \/ DeathEffectPlayed(rp, look, set))
       /\ new.justRespawned = (rp.justRespawned \/ (rp.wasDead /\ ~look.isDead))
  BY <1>6, <1>8, <1>9, <1>10 DEF Kept
<1>13. /\ new.lastMode = Of(look, k).gameMode
       /\ rp.lastMode \in {"NONE", rp.sprite} => new.sprite = Of(look, k).gameMode
       /\ new.innerNode = Shown(visible)
  BY <1>3, <1>4, <1>5, <1>6, <1>8 DEF KeptSprite
<1>14. set.practiceIcon => new.wasPractice = look.isPractice /\ new.wasPaused = look.isPaused
  BY <1>5, <1>6, <1>8 DEF KeptStatus
<1>15. ASSUME ~visible, ~rp.firstTick,
              set.practiceIcon => rp.wasPractice = look.isPractice /\ rp.wasPaused = look.isPaused
       PROVE  Visible \notin {new.innerNode, new.iconsNode, new.labelName}
  <2>1. noted.iconsNode = active.iconsNode
    BY <1>3, <1>4, <1>5, <1>15 DEF KeptStatus
  <2>2. new.innerNode # Visible
    BY <1>13, <1>15 DEF Shown, Visible, Hidden
  <2>3. new.iconsNode = seen.iconsNode /\ new.labelName = seen.labelName
    BY <1>4, <1>5, <1>6, <1>8, <2>1 DEF KeptSprite
  <2> QED
    BY <1>3, <1>15, <2>2, <2>3
<1> QED
  BY <1>2, <1>7, <1>11, <1>12, <1>13, <1>14, <1>15 DEF TickedFrom, visible

-----------------------------------------------------------------------------
(* What an icon has noted is the look of the last frame it was drawn in,   *)
(* and new sprites wait for the first tick.                                *)
IconInv(icon, k, drawn) ==
  /\ icon.isSecond <=> k = 2
  /\ icon.lastMode \in {"NONE", icon.sprite}
  /\ icon.wasDead <=> drawn # None /\ drawn.isDead
  /\ drawn # None /\ ~icon.firstTick =>
       /\ icon.sprite = Of(drawn, k).gameMode
       /\ icon.innerNode = Shown(~Of(drawn, k).isHidden /\ ~drawn.isDead)
       /\ set.practiceIcon => /\ icon.wasPractice = drawn.isPractice
                             /\ icon.wasPaused = drawn.isPaused

IconsInv(both, drawn, seen) ==
  /\ both \in [{1, 2} -> Icons]
  /\ \A k \in {1, 2} : IconInv(both[k], k, drawn)
  /\ both[1].firstTick = both[2].firstTick
  /\ seen => ~both[1].justDied /\ ~both[1].justRespawned

(* While one watches, no signal has been left over.                        *)
ScreenInv ==
  /\ newcomer \in BOOLEAN /\ gone \in BOOLEAN
  /\ cached \in BOOLEAN /\ spectated \in BOOLEAN
  /\ set \in Settings
  /\ last \in Looks \cup {None} /\ watched \in BOOLEAN
  /\ watched => spectated /\ last # None
  /\ icons = None \/ icons \in [{1, 2} -> Icons]
  /\ icons # None => IconsInv(icons, last, watched)

LEMMA ScreenSteps ==
  ASSUME [Next]_vars
  PROVE  /\ \/ UNCHANGED <<icons, spectated, last, watched>>
            \/ UpdateStuff \/ Frame \/ FrameWithoutPlayer \/ ToggleSpectate
         /\ set' = set
BY DEF Next, Others, PlayerEnters, PlayerData, PlayerLeaves, Receive, FeedRealData,
       FeedWithoutPlayer, Screen, ReceiveAccountData, UpdateStuff, Frame,
       FrameWithoutPlayer, ToggleSpectate, vars, corrector, frames

LEMMA FlagsTyped ==
  ASSUME newcomer \in BOOLEAN, gone \in BOOLEAN, cached \in BOOLEAN, [Next]_vars
  PROVE  newcomer' \in BOOLEAN /\ gone' \in BOOLEAN /\ cached' \in BOOLEAN
BY DEF Next, Others, PlayerEnters, PlayerData, PlayerLeaves, Receive, FeedRealData,
       FeedWithoutPlayer, Screen, ReceiveAccountData, UpdateStuff, Frame,
       FrameWithoutPlayer, ToggleSpectate, vars, corrector, frames

(* New sprites for both icons: nothing else that was noted is lost.        *)
LEMMA RenewedIcons ==
  ASSUME NEW both, NEW drawn, NEW seen \in BOOLEAN, IconsInv(both, drawn, seen)
  PROVE  IconsInv(UpdateBoth(both), drawn, seen)
<1> DEFINE u == UpdateBoth(both)
<1>1. \A k \in {1, 2} : /\ u[k] \in Icons /\ Kept(u[k], both[k])
                        /\ u[k].lastMode = "NONE" /\ u[k].firstTick = TRUE
  BY DataOfIcons DEF UpdateBoth, IconsInv
<1>2. u \in [{1, 2} -> Icons]
  BY <1>1 DEF UpdateBoth
<1> HIDE DEF u
<1>3. ASSUME NEW k \in {1, 2} PROVE IconInv(u[k], k, drawn)
  BY <1>1 DEF IconsInv, IconInv, Kept
<1>4. u[1].firstTick = u[2].firstTick
  BY <1>1
<1>5. u[1].justDied = both[1].justDied /\ u[1].justRespawned = both[1].justRespawned
  BY <1>1 DEF Kept
<1> QED
  BY <1>2, <1>3, <1>4, <1>5 DEF IconsInv, u

LEMMA NewIcons ==
  ASSUME NEW areDefaults \in BOOLEAN
  PROVE  IconsInv(CreateBoth(areDefaults), None, FALSE)
<1> DEFINE c == CreateBoth(areDefaults)
<1>1. \A k \in {1, 2} : /\ c[k] \in Icons /\ (c[k].isSecond = (k = 2))
                        /\ c[k].wasDead = FALSE
                        /\ c[k].lastMode = "NONE" /\ c[k].firstTick = TRUE
  BY CreatedIcons DEF CreateBoth
<1>2. c \in [{1, 2} -> Icons]
  BY <1>1 DEF CreateBoth
<1> HIDE DEF c
<1>3. ASSUME NEW k \in {1, 2} PROVE IconInv(c[k], k, None)
  BY <1>1 DEF IconInv
<1> QED
  BY <1>1, <1>2, <1>3 DEF IconsInv, c

LEMMA TakenSignals ==
  ASSUME NEW rp \in Icons,
         NEW taken, taken = [rp EXCEPT !.justDied = FALSE, !.justRespawned = FALSE]
  PROVE  /\ taken \in Icons
         /\ taken.isSecond = rp.isSecond /\ taken.lastMode = rp.lastMode
         /\ taken.sprite = rp.sprite /\ taken.wasDead = rp.wasDead
         /\ taken.firstTick = rp.firstTick /\ taken.innerNode = rp.innerNode
         /\ taken.wasPractice = rp.wasPractice /\ taken.wasPaused = rp.wasPaused
         /\ taken.justDied = FALSE /\ taken.justRespawned = FALSE
<1>1. taken \in Icons
  BY DEF Icons
<1>2. /\ taken.isSecond = rp.isSecond /\ taken.lastMode = rp.lastMode
      /\ taken.sprite = rp.sprite /\ taken.wasDead = rp.wasDead
      /\ taken.firstTick = rp.firstTick /\ taken.innerNode = rp.innerNode
      /\ taken.wasPractice = rp.wasPractice /\ taken.wasPaused = rp.wasPaused
      /\ taken.justDied = FALSE /\ taken.justRespawned = FALSE
  BY DEF Icons
<1> QED
  BY <1>1, <1>2

(* A frame: both icons show and have noted the look.                       *)
LEMMA DrawnIcons ==
  ASSUME NEW both, NEW look \in Looks, NEW drawn, NEW seen, set \in Settings,
         IconsInv(both, drawn, seen), None \notin Looks,
         NEW d, d = [k \in {1, 2} |-> InterpolateSpecific(both[k], look, k)]
  PROVE  IconsInv(d, look, FALSE) /\ IconsInv(Spectate(d), look, TRUE)
<1>1. \A k \in {1, 2} :
        /\ d[k] \in Icons
        /\ TickedFrom(d[k], both[k], Of(look, k), look,
                      ~Of(look, k).isHidden /\ ~look.isDead, set)
  BY FrameOfIcons DEF IconsInv
<1>2. d \in [{1, 2} -> Icons]
  BY <1>1
<1>3. ASSUME NEW k \in {1, 2} PROVE IconInv(d[k], k, look)
  <2>1. both[k].isSecond <=> k = 2
    BY DEF IconsInv, IconInv
  <2>2. d[k].isSecond <=> k = 2
    BY <1>1, <2>1 DEF TickedFrom
  <2>3. both[k].lastMode \in {"NONE", both[k].sprite}
    BY DEF IconsInv, IconInv
  <2>4. d[k].sprite = Of(look, k).gameMode /\ d[k].lastMode = Of(look, k).gameMode
    BY <1>1, <2>3 DEF TickedFrom
  <2>5. d[k].wasDead = look.isDead
        /\ d[k].innerNode = Shown(~Of(look, k).isHidden /\ ~look.isDead)
    BY <1>1 DEF TickedFrom
  <2>6. set.practiceIcon => d[k].wasPractice = look.isPractice /\ d[k].wasPaused = look.isPaused
    BY <1>1 DEF TickedFrom
  <2> QED
    BY <2>2, <2>4, <2>5, <2>6 DEF IconInv
<1>4. d[1].firstTick = FALSE /\ d[2].firstTick = FALSE
  BY <1>1 DEF TickedFrom
<1>5. IconsInv(d, look, FALSE)
  BY <1>2, <1>3, <1>4 DEF IconsInv
<1>6. IconsInv(Spectate(d), look, TRUE)
  <2> DEFINE w == Spectate(d)
  <2>1. w \in [{1, 2} -> Icons] /\ w[2] = d[2]
        /\ w[1] = [d[1] EXCEPT !.justDied = FALSE, !.justRespawned = FALSE]
    <3>1. [d[1] EXCEPT !.justDied = FALSE, !.justRespawned = FALSE] \in Icons
      BY <1>1, TakenSignals
    <3> QED
      BY <1>2, <3>1 DEF Spectate
  <2> HIDE DEF w
  <2> DEFINE v == w[1]
             rp == d[1]
  <2>5. rp \in Icons /\ v = [rp EXCEPT !.justDied = FALSE, !.justRespawned = FALSE]
    BY <1>1, <2>1
  <2> HIDE DEF v, rp
  <2>6. /\ v.isSecond = rp.isSecond /\ v.lastMode = rp.lastMode
        /\ v.sprite = rp.sprite /\ v.wasDead = rp.wasDead
        /\ v.firstTick = rp.firstTick /\ v.innerNode = rp.innerNode
        /\ v.wasPractice = rp.wasPractice /\ v.wasPaused = rp.wasPaused
        /\ v.justDied = FALSE /\ v.justRespawned = FALSE
    BY <2>5, TakenSignals
  <2>2. /\ w[1].isSecond = d[1].isSecond /\ w[1].lastMode = d[1].lastMode
        /\ w[1].sprite = d[1].sprite /\ w[1].wasDead = d[1].wasDead
        /\ w[1].firstTick = d[1].firstTick /\ w[1].innerNode = d[1].innerNode
        /\ w[1].wasPractice = d[1].wasPractice /\ w[1].wasPaused = d[1].wasPaused
        /\ w[1].justDied = FALSE /\ w[1].justRespawned = FALSE
    BY <2>6 DEF v, rp
  <2>3. IconInv(w[1], 1, look)
    BY <1>3, <2>2 DEF IconInv
  <2>4. IconInv(w[2], 2, look)
    BY <1>3, <2>1
  <2> QED
    BY ZenonT(40), <1>4, <2>1, <2>2, <2>3, <2>4 DEF IconsInv, w
<1> QED
  BY <1>5, <1>6

LEMMA ScreenInvariant == Spec => []ScreenInv
<1>1. Init => ScreenInv
  BY DEF Init, ScreenInv
<1>2. CorrectorInv /\ ScreenInv /\ [Next]_vars => ScreenInv'
  <2> SUFFICES ASSUME CorrectorInv, ScreenInv, [Next]_vars PROVE ScreenInv'
    OBVIOUS
  <2> USE NoneIsNone
  <2>0. /\ newcomer' \in BOOLEAN /\ gone' \in BOOLEAN /\ cached' \in BOOLEAN
        /\ set' = set /\ set' \in Settings
    BY FlagsTyped, ScreenSteps DEF ScreenInv
  <2>1. CASE UNCHANGED <<icons, spectated, last, watched>>
    BY <2>0, <2>1 DEF ScreenInv, IconsInv, IconInv
  <2>2. CASE UpdateStuff
    <3> DEFINE kept == IF gone THEN None ELSE icons
               there == IF newcomer /\ kept = None THEN CreateBoth(~cached) ELSE kept
               renew == there # None /\ cached /\ \E k \in {1, 2} : there[k].isDefault
    <3>1. /\ icons' = IF renew THEN UpdateBoth(there) ELSE there
          /\ spectated' = spectated
          /\ IF there = icons THEN UNCHANGED <<last, watched>>
             ELSE last' = None /\ watched' = FALSE
      BY <2>2 DEF UpdateStuff, frames
    <3>2. CASE there = None
      BY <2>0, <3>1, <3>2 DEF ScreenInv
    <3>3. CASE there # None
      <4>1. IconsInv(there, last', watched') /\ watched' \in BOOLEAN
        <5>1. CASE there = icons
          BY <3>1, <3>3, <5>1 DEF ScreenInv
        <5>2. CASE there # icons
          <6>1. there = CreateBoth(~cached) /\ last' = None /\ watched' = FALSE
            BY <3>1, <3>3, <5>2
          <6> QED
            BY <6>1, NewIcons
        <5> QED
          BY <5>1, <5>2
      <4>2. IconsInv(icons', last', watched')
        BY <3>1, <4>1, RenewedIcons
      <4>3. IconsInv(icons, last, watched)'
        BY <2>0, <4>2 DEF IconsInv, IconInv
      <4>4. /\ last' \in Looks \cup {None} /\ watched' \in BOOLEAN
            /\ watched' => spectated' /\ last' # None
        BY <3>1 DEF ScreenInv
      <4>5. spectated' \in BOOLEAN /\ icons' \in [{1, 2} -> Icons]
        BY <3>1, <4>2 DEF ScreenInv, IconsInv
      <4> QED
        BY <2>0, <4>3, <4>4, <4>5 DEF ScreenInv
    <3> QED
      BY <3>2, <3>3
  <2>3. CASE Frame
    <3>1. /\ icons' = IF spectated THEN Spectate(Drawn) ELSE Drawn
          /\ last' = entry.newerFrame.look /\ watched' = spectated
          /\ spectated' = spectated /\ spectated \in BOOLEAN
          /\ IconsInv(icons, last, watched)
      BY <2>3 DEF Frame, ScreenInv
    <3>2. entry.newerFrame.look \in Looks
      BY <2>3 DEF Frame, CorrectorInv, Entries, Frames
    <3>3. IconsInv(Drawn, last', FALSE) /\ IconsInv(Spectate(Drawn), last', TRUE)
      BY <2>0, <3>1, <3>2, DrawnIcons DEF Drawn
    <3>4. IconsInv(icons', last', watched')
      BY <3>1, <3>3
    <3>5. IconsInv(icons, last, watched)'
      BY <2>0, <3>4 DEF IconsInv, IconInv
    <3>6. /\ last' \in Looks /\ watched' \in BOOLEAN /\ spectated' \in BOOLEAN
          /\ watched' => spectated' /\ last' # None
      BY <3>1, <3>2
    <3>7. icons' \in [{1, 2} -> Icons]
      BY <3>4 DEF IconsInv
    <3> QED
      BY <2>0, <3>5, <3>6, <3>7 DEF ScreenInv
  <2>4. CASE FrameWithoutPlayer \/ ToggleSpectate
    <3>1. /\ UNCHANGED <<icons, last>> /\ watched' = FALSE /\ spectated' \in BOOLEAN
      BY <2>4 DEF FrameWithoutPlayer, ToggleSpectate, ScreenInv
    <3> QED
      BY <2>0, <3>1 DEF ScreenInv, IconsInv, IconInv
  <2> QED
    BY <2>1, <2>2, <2>3, <2>4, ScreenSteps
<1> QED
  BY <1>1, <1>2, CorrectorInvariant, PTL DEF Spec

(* Each sprite is the one the other player has, and hidden or not as it    *)
(* is, after every interleaving of packets, new icons and frames.          *)
THEOREM AlwaysShownAsSent == Spec => []ShownAsSent
<1>1. ScreenInv => ShownAsSent
  BY DEF ScreenInv, IconsInv, IconInv, ShownAsSent
<1> QED
  BY <1>1, ScreenInvariant, PTL

(* One death effect for each death, whatever the settings.                 *)
LEMMA EffectOfDeath ==
  ASSUME ScreenInv, icons # None, entry # None
  PROVE  EffectPlayed <=> /\ set.deathEffects /\ entry.newerFrame.look.isDead
                          /\ last = None \/ ~last.isDead
<1>1. /\ icons[1].isSecond = FALSE /\ icons[2].isSecond = TRUE
      /\ icons[1].wasDead <=> last # None /\ last.isDead
  <2>1. IconInv(icons[1], 1, last) /\ IconInv(icons[2], 2, last)
        /\ icons[1] \in Icons /\ icons[2] \in Icons
    BY DEF ScreenInv, IconsInv
  <2>2. icons[1].isSecond \in BOOLEAN /\ icons[2].isSecond \in BOOLEAN
    BY <2>1 DEF Icons
  <2> QED
    BY <2>1, <2>2 DEF IconInv
<1> QED
  BY <1>1 DEF EffectPlayed, DeathEffectPlayed

THEOREM OneDeathOneEffect == Spec => []DeathShownOnce
<1>1. ScreenInv => DeathShownOnce
  BY EffectOfDeath DEF DeathShownOnce
<1> QED
  BY <1>1, ScreenInvariant, PTL

(* What a spectator hears and sees of a death comes in the same frame.     *)
THEOREM SignalsNeverLate == Spec => []SignalsTakenAtOnce
<1>1. CorrectorInv /\ ScreenInv => SignalsTakenAtOnce
  <2> SUFFICES ASSUME CorrectorInv, ScreenInv, watched, icons # None, entry # None
               PROVE  /\ SoundPlayed <=> EffectPlayed
                      /\ LevelReset <=> last.isDead /\ ~entry.newerFrame.look.isDead
    BY DEF SignalsTakenAtOnce
  <2> DEFINE look == entry.newerFrame.look
             d == InterpolateSpecific(icons[1], look, 1)
  <2>1. look \in Looks
    BY DEF CorrectorInv, Entries, Frames
  <2>2. /\ icons[1] \in Icons /\ spectated /\ last # None /\ set \in Settings
        /\ icons[1].justDied = FALSE /\ icons[1].justRespawned = FALSE
        /\ icons[1].wasDead <=> last.isDead
        /\ icons[2].isSecond
    BY DEF ScreenInv, IconsInv, IconInv, Icons
  <2>3. TickedFrom(d, icons[1], Of(look, 1), look,
                   ~Of(look, 1).isHidden /\ ~look.isDead, set)
    BY <2>1, <2>2, FrameOfIcons
  <2>4. /\ d.justDied <=> DeathEffectPlayed(icons[1], look, set)
        /\ d.justRespawned <=> icons[1].wasDead /\ ~look.isDead
    BY <2>2, <2>3 DEF TickedFrom
  <2>5. Drawn[1] = d
    BY DEF Drawn
  <2>6. EffectPlayed <=> DeathEffectPlayed(icons[1], look, set)
    BY <2>2 DEF EffectPlayed, DeathEffectPlayed
  <2> QED
    BY <2>2, <2>4, <2>5, <2>6 DEF SoundPlayed, LevelReset
<1> QED
  BY <1>1, CorrectorInvariant, ScreenInvariant, PTL

(* Who is dead or hidden is gone from the screen in the second frame of a  *)
(* look at the latest.                                                     *)
THEOREM NothingLeftOfHidden == Spec => HiddenNotDrawn
<1>1. CorrectorInv /\ ScreenInv /\ [Next]_vars =>
        [\A k \in {1, 2} :
           /\ last # None /\ last' = last
           /\ Of(last, k).isHidden \/ last.isDead
           /\ icons # None /\ icons' # None /\ ~icons[1].firstTick
           /\ Visible \in {icons'[k].innerNode, icons'[k].iconsNode, icons'[k].labelName}
           => ~Frame]_vars
  <2> SUFFICES ASSUME CorrectorInv, ScreenInv, Frame, last' = last, ~icons[1].firstTick,
                      NEW k \in {1, 2}, Of(last, k).isHidden \/ last.isDead
               PROVE  Visible \notin {icons'[k].innerNode, icons'[k].iconsNode,
                                     icons'[k].labelName}
    OBVIOUS
  <2>1. last \in Looks /\ last = entry.newerFrame.look /\ last # None
    BY NoneIsNone DEF Frame, CorrectorInv, Entries, Frames
  <2>2. /\ IconInv(icons[k], k, last) /\ icons[k] \in Icons
        /\ ~icons[k].firstTick /\ set \in Settings
    BY DEF Frame, ScreenInv, IconsInv
  <2> DEFINE d == InterpolateSpecific(icons[k], last, k)
  <2>3. d \in Icons
        /\ TickedFrom(d, icons[k], Of(last, k), last,
                      ~Of(last, k).isHidden /\ ~last.isDead, set)
    BY <2>1, <2>2, FrameOfIcons
  <2>4. Visible \notin {d.innerNode, d.iconsNode, d.labelName}
    BY <2>1, <2>2, <2>3 DEF TickedFrom, IconInv
  <2>5. Drawn[k] = d /\ DOMAIN Drawn = {1, 2}
    BY <2>1 DEF Drawn
  <2> HIDE DEF d
  <2>6. /\ icons'[k].innerNode = d.innerNode /\ icons'[k].iconsNode = d.iconsNode
        /\ icons'[k].labelName = d.labelName
    <3>1. CASE spectated
      <4>1. icons' = Spectate(Drawn)
        BY <3>1 DEF Frame
      <4>2. icons'[k] \in {d, [d EXCEPT !.justDied = FALSE, !.justRespawned = FALSE]}
        BY <2>5, <4>1 DEF Spectate, Drawn
      <4> QED
        BY <2>3, <4>2 DEF Icons
    <3>2. CASE ~spectated
      BY <2>5, <3>2 DEF Frame
    <3> QED
      BY <3>1, <3>2
  <2> QED
    BY <2>4, <2>6
<1> QED
  BY <1>1, CorrectorInvariant, ScreenInvariant, PTL DEF Spec, HiddenNotDrawn

(* The types of all variables.                                             *)
THEOREM TypeCorrect == Spec => []TypeOK
<1>1. CorrectorInv /\ ScreenInv => TypeOK
  BY DEF CorrectorInv, ScreenInv, TypeOK, Entries
<1> QED
  BY <1>1, CorrectorInvariant, ScreenInvariant, PTL
=============================================================================
