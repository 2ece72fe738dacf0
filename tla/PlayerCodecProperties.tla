------------------------ MODULE PlayerCodecProperties ------------------------
(***************************************************************************)
(* What should hold of the way of a player's data and icons through the    *)
(* encoders and decoders of PlayerCodec, to the OtherPlayer that they are  *)
(* for.                                                                    *)
(***************************************************************************)
EXTENDS PlayerCodec, OtherPlayer

CONSTANTS
  DataSent,      \* data of players that goes through the codec
  DataCut,       \* of those, the ones in packets of which bytes are missing
  AccountsSent   \* icons of players that go through the codec

Byte == 0..255
Floats == [1..4 -> Byte]
Numbers == {n \in Nat : n <= 2147483647}

IconData ==
  [x : Floats, y : Floats, rot : Floats, gameMode : ToSet(GameModes),
   isHidden : BOOLEAN, isDashing : BOOLEAN, isUpsideDown : BOOLEAN,
   isMini : BOOLEAN, isGrounded : BOOLEAN]

PlayersData ==
  [timestamp : Floats, player1 : IconData, player2 : IconData,
   camX : Floats, camY : Floats,
   isPractice : BOOLEAN, isDead : BOOLEAN, isPaused : BOOLEAN]

AccountsData ==
  [cube : Numbers, ship : Numbers, ball : Numbers, ufo : Numbers, wave : Numbers,
   robot : Numbers, spider : Numbers, color1 : Numbers, color2 : Numbers,
   deathEffect : Numbers, glow : BOOLEAN,
   name : {name \in Seq(Byte) : Len(name) \in Numbers}]

ASSUME DataIsData ==
  /\ DataSent \subseteq PlayersData /\ DataCut \subseteq DataSent
  /\ AccountsSent \subseteq AccountsData

-----------------------------------------------------------------------------
DataRelayed(samples) ==
  \A sender, receiver \in BOOLEAN, d \in samples :
    LET kept == ServerData(EncodePlayerData(d, sender))
    IN DecodePlayerData(EncodePlayerData(kept, FALSE), 0, receiver, NumberToGm) = d

IconsRelayed(samples) ==
  \A sender, receiver \in BOOLEAN, a \in samples :
    LET kept == DecodeAccountData(EncodeAccountData(a, sender), FALSE)
    IN DecodeAccountData(EncodeAccountData(kept, FALSE), receiver) = a

TwoPlayers(d, e) == <<[id |-> 1, data |-> d], [id |-> 2, data |-> e]>>

BothRead(samples) ==
  \A d, e \in samples, self \in 1..3, receiver \in BOOLEAN :
    ReadLevelData(WriteLevelData(TwoPlayers(d, e)), self, FALSE, receiver)
      = [id \in {1, 2} \ {self} |-> TwoPlayers(d, e)[id].data]

NoneReadCutShort(samples) ==
  \A d \in samples, receiver \in BOOLEAN :
    LET bytes == WriteLevelData(TwoPlayers(d, d))
    IN \A length \in 0..(Len(bytes) - 1) :
         ReadLevelData(SubSeq(bytes, 1, length), 3, FALSE, receiver) = Unreadable

EffectsTimed(samples) ==
  \A a \in samples, setting \in Settings :
    IsValid(a) =>
      /\ AnimDelayIsSet(a.deathEffect, setting)
      /\ LET effect == PlayDeathEffect(a.deathEffect, setting)
         IN \A n \in effect.first : n <= effect.last

(* What the screen tells apart.                                            *)
LookOf(d) ==
  [player1 |-> [gameMode |-> d.player1.gameMode, isHidden |-> d.player1.isHidden,
                isGrounded |-> d.player1.isGrounded],
   player2 |-> [gameMode |-> d.player2.gameMode, isHidden |-> d.player2.isHidden,
                isGrounded |-> d.player2.isGrounded],
   isPractice |-> d.isPractice, isDead |-> d.isDead, isPaused |-> d.isPaused]

(* Between machines that store numbers differently.                        *)
Received(d) ==
  DecodePlayerData(
    EncodePlayerData(ServerData(EncodePlayerData(d, TRUE)), FALSE),
    0, FALSE, NumberToGm)

(* The codec has no state: it is looked at before anything is sent.        *)
AtStart == Init

(* What a client sends of itself is what the others get, its icons too,    *)
(* although the two machines may store numbers differently and the server  *)
(* decodes and encodes the data with code of its own.  Every other player  *)
(* in a LevelData packet is read, with its own data, and a packet of which *)
(* bytes are missing is not read at all.                                   *)
RelayFaithful ==
  AtStart =>
    /\ DataRelayed(DataSent) /\ IconsRelayed(AccountsSent)
    /\ \A d \in DataSent :
         LookOf(d) \in Looks => Relayed[LookOf(d)] = LookOf(Received(d))
    /\ BothRead(DataSent) /\ NoneReadCutShort(DataCut)

(* Every death effect the server lets through has a case of its own in     *)
(* playDeathEffect, which has no default: the animation's delay is never   *)
(* used without a value, and there are frames from wherever it starts.     *)
ValidEffectsTimed == AtStart => EffectsTimed(AccountsSent)
=============================================================================
