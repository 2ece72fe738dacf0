---------------------------- MODULE MCOtherPlayer ----------------------------
(* Values of the constants of OtherPlayer and PlayerCodecProperties for TLC. *)
EXTENDS OtherPlayerProperties, PlayerCodecProperties

AllModes == {"CUBE", "SHIP", "BALL", "UFO", "WAVE", "ROBOT", "SPIDER"}

Setting(status, dual, names, effects) ==
  [practiceIcon |-> status, secondNameEnabled |-> dual, namesEnabled |-> names,
   deathEffects |-> effects, defaultDeathEffects |-> FALSE]

AllOn == {Setting(TRUE, TRUE, TRUE, TRUE)}

(* Two numbers with bytes to mix up.                                       *)
FloatA == <<66, 40, 0, 1>>
FloatB == <<194, 7, 128, 0>>

Icon(mode, hidden, grounded, x) ==
  [x |-> x, y |-> FloatB, rot |-> FloatA, gameMode |-> mode, isHidden |-> hidden,
   isDashing |-> ~grounded, isUpsideDown |-> hidden, isMini |-> grounded,
   isGrounded |-> grounded]

Data(one, two, practice, dead, paused) ==
  [timestamp |-> FloatA, player1 |-> one, player2 |-> two,
   camX |-> FloatB, camY |-> FloatA,
   isPractice |-> practice, isDead |-> dead, isPaused |-> paused]

EmptyData ==
  Data(Icon("CUBE", FALSE, FALSE, FloatA), Icon("CUBE", FALSE, FALSE, FloatA),
       FALSE, FALSE, FALSE)

Alive(dead) ==
  Data(Icon("CUBE", FALSE, TRUE, FloatA), Icon("SHIP", TRUE, FALSE, FloatB),
       FALSE, dead, FALSE)

Dual(dead, paused) ==
  Data(Icon("WAVE", FALSE, FALSE, FloatA), Icon("SPIDER", dead, TRUE, FloatB),
       TRUE, dead, paused)

AllData == {EmptyData, Alive(FALSE), Alive(TRUE), Dual(FALSE, FALSE), Dual(TRUE, TRUE)}

(* With these there is data of every game mode.                            *)
MoreData ==
  AllData
    \cup {Data(Icon(m, FALSE, TRUE, FloatB), Icon("BALL", TRUE, TRUE, FloatA),
               FALSE, FALSE, TRUE) : m \in {"UFO", "ROBOT"}}

CutData == {EmptyData, Dual(TRUE, TRUE)}

(* All that can differ between two looks does.                             *)
TwoLooks == {LookOf(d) : d \in CutData}
NoDataLook == LookOf(EmptyData)

(* RelayFaithful says that this is what the codec does.                    *)
LooksAsSent == [l \in TwoLooks |-> l]

Account(icon, effect, name) ==
  [f \in {"cube", "ship", "ball", "ufo", "wave", "robot", "spider"} |-> icon]
  @@ [color1 |-> 3, color2 |-> 0, deathEffect |-> effect, glow |-> icon % 2 = 0,
      name |-> name]

Accounts == {Account(17, e, <<103, 100>>) : e \in 0..19} \cup {Account(2, 1, <<>>)}

=============================================================================
