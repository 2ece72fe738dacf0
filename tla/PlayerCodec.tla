----------------------------- MODULE PlayerCodec -----------------------------
(***************************************************************************)
(* The way of a player's data from one Globed client through the game      *)
(* server to another: the ByteBuffer of the clients                        *)
(* (src/net/bytebuffer.cpp), the encoders and decoders on both sides       *)
(* (src/data/player_data.cpp, src/data/player_account_data.cpp, and those  *)
(* of the server), and the LevelData packet (src/net/game_socket.cpp).     *)
(*                                                                         *)
(* A byte is a number below 256.  A floating-point number is its four      *)
(* bytes, the most significant one first; the integers are naturals.  A    *)
(* client's machine stores numbers with the least significant byte first,  *)
(* or not: le.  The server's byte buffer writes the most significant byte  *)
(* first whatever the machine.  There is no state: a decoder is a function *)
(* of the bytes, and Unreadable is what it throws.                         *)
(***************************************************************************)
EXTENDS Naturals, SequencesExt

CONSTANT Unreadable

BytesOf(n, width) == [i \in 1..width |-> (n \div 256^(width - i)) % 256]

NumberOf(bytes) ==
  LET value[n \in 0..Len(bytes)] ==
        IF n = 0 THEN 0 ELSE value[n - 1] * 256 + bytes[n]
  IN value[Len(bytes)]

(* A number in the memory of the machine, or back.                         *)
Memory(value, le) == IF le THEN Reverse(value) ELSE value

ByteSwap(memory) == Reverse(memory)

WriteNumber(value, le) ==
  IF le THEN ByteSwap(Memory(value, le)) ELSE Memory(value, le)

(* Faulty: the byte swap is left out.                                      *)
ReadNative(bytes, at, width, le) ==
  Memory(SubSeq(bytes, at + 1, at + width), le)

(* Read at a position of the buffer, which is as long as the caller has    *)
(* made sure.                                                              *)
ReadNumber(bytes, at, width, le) ==
  LET memory == SubSeq(bytes, at + 1, at + width)
  IN Memory(IF le THEN ByteSwap(memory) ELSE memory, le)

ReadInt(bytes, at, width, le) == NumberOf(ReadNumber(bytes, at, width, le))

(* A std::bitset, or the bits that the server's buffer writes one by one:  *)
(* the first flag is the most significant bit.                             *)
FlagByte(flags) ==
  LET Bit(i) == IF i \in DOMAIN flags /\ flags[i] THEN 2^(8 - i) ELSE 0
  IN Bit(1) + Bit(2) + Bit(3) + Bit(4) + Bit(5) + Bit(6) + Bit(7) + Bit(8)

Flag(byte, bit) == (byte \div 2^bit) % 2 = 1

-----------------------------------------------------------------------------
GameModes == <<"CUBE", "SHIP", "BALL", "UFO", "WAVE", "ROBOT", "SPIDER">>

GmToNumber(mode) == SelectInSeq(GameModes, LAMBDA m : m = mode) - 1

KnownGm(number) == number < Len(GameModes)

NumberToGm ==
  [number \in 0..255 |->
     IF KnownGm(number) THEN GameModes[number + 1] ELSE Unreadable]

(* The server takes an unknown mode for the default one.                   *)
ServerGm ==
  [number \in 0..255 |->
     IF KnownGm(number) THEN GameModes[number + 1] ELSE "CUBE"]

SpecificIconBytes == 14

EncodeSpecificIcon(data, le) ==
  WriteNumber(data.x, le) \o WriteNumber(data.y, le) \o WriteNumber(data.rot, le)
  \o <<GmToNumber(data.gameMode),
       FlagByte(<<data.isHidden, data.isDashing, data.isUpsideDown, data.isMini,
                  data.isGrounded>>)>>

DecodeSpecificIcon(bytes, at, le, Gm) ==
  [x |-> ReadNumber(bytes, at, 4, le),
   y |-> ReadNumber(bytes, at + 4, 4, le),
   rot |-> ReadNumber(bytes, at + 8, 4, le),
   gameMode |-> Gm[bytes[at + 13]],
   isHidden |-> Flag(bytes[at + 14], 7),
   isDashing |-> Flag(bytes[at + 14], 6),
   isUpsideDown |-> Flag(bytes[at + 14], 5),
   isMini |-> Flag(bytes[at + 14], 4),
   isGrounded |-> Flag(bytes[at + 14], 3)]

PlayerDataBytes == 4 + 2 * SpecificIconBytes + 8 + 1

(* The server leaves the last bits to be completed by its buffer.          *)
EncodePlayerData(data, le) ==
  WriteNumber(data.timestamp, le)
  \o EncodeSpecificIcon(data.player1, le) \o EncodeSpecificIcon(data.player2, le)
  \o WriteNumber(data.camX, le) \o WriteNumber(data.camY, le)
  \o <<FlagByte(<<data.isPractice, data.isDead, data.isPaused>>)>>

DecodePlayerData(bytes, at, le, Gm) ==
  [timestamp |-> ReadNumber(bytes, at, 4, le),
   player1 |-> DecodeSpecificIcon(bytes, at + 4, le, Gm),
   player2 |-> DecodeSpecificIcon(bytes, at + 4 + SpecificIconBytes, le, Gm),
   camX |-> ReadNumber(bytes, at + 32, 4, le),
   camY |-> ReadNumber(bytes, at + 36, 4, le),
   isPractice |-> Flag(bytes[at + 41], 7),
   isDead |-> Flag(bytes[at + 41], 6),
   isPaused |-> Flag(bytes[at + 41], 5)]

(* numberToGm throws for a mode it does not know.                          *)
KnownModes(bytes, at) ==
  KnownGm(bytes[at + 17]) /\ KnownGm(bytes[at + 17 + SpecificIconBytes])

(* What the server keeps of a client's UserLevelData, and writes again     *)
(* when a tick comes.                                                      *)
ServerData(bytes) ==
  IF Len(bytes) < PlayerDataBytes THEN Unreadable
  ELSE DecodePlayerData(bytes, 0, FALSE, ServerGm)

-----------------------------------------------------------------------------
(* LevelData.  entries is the level's map, in the order it is iterated.    *)
LevelDataKind == 210

EntryBytes == 4 + PlayerDataBytes

(* Faulty: the ids are read from where the count is.                       *)
EntryWithoutCount(i) == 1 + (i - 1) * EntryBytes

EntryAt(i) == 3 + (i - 1) * EntryBytes

WriteLevelData(entries) ==
  <<LevelDataKind>> \o BytesOf(Len(entries), 2)
  \o FlattenSeq([i \in DOMAIN entries |->
       BytesOf(entries[i].id, 4) \o EncodePlayerData(entries[i].data, FALSE)])

(* recvPacket.  An entry that cannot be read costs the whole packet.  The  *)
(* client's own entry is passed over unless it debugs; of two with one id  *)
(* the first one counts.                                                   *)
ReadLevelData(bytes, accountId, debug, le) ==
  IF Len(bytes) < 3 THEN Unreadable ELSE
  LET count == ReadInt(bytes, 1, 2, le)
      IdAt(i) == ReadInt(bytes, EntryAt(i), 4, le)
      FirstWith(id) == SelectInSeq([i \in 1..count |-> IdAt(i)], LAMBDA j : j = id)
      DataAt(i) == DecodePlayerData(bytes, EntryAt(i) + 4, le, NumberToGm)
      Ids == {IdAt(i) : i \in 1..count} \ (IF debug THEN {} ELSE {accountId})
  IN IF \/ Len(bytes) < EntryAt(count + 1)
        \/ \E i \in 1..count : ~KnownModes(bytes, EntryAt(i) + 4)
       THEN Unreadable
       ELSE [id \in Ids |-> DataAt(FirstWith(id))]

-----------------------------------------------------------------------------
(* A player's icons.  Ten numbers, one byte and a string.                  *)
IconFields == <<"cube", "ship", "ball", "ufo", "wave", "robot", "spider",
                "color1", "color2", "deathEffect">>

AccountDataBytes == 4 * Len(IconFields) + 1 + 4

WriteString(name, le) == WriteNumber(BytesOf(Len(name), 4), le) \o name

EncodeAccountData(data, le) ==
  FlattenSeq([i \in DOMAIN IconFields |->
                WriteNumber(BytesOf(data[IconFields[i]], 4), le)])
  \o <<IF data.glow THEN 1 ELSE 0>> \o WriteString(data.name, le)

DecodeAccountData(bytes, le) ==
  LET length == ReadInt(bytes, 41, 4, le)
  IN IF Len(bytes) < AccountDataBytes \/ Len(bytes) < AccountDataBytes + length
       THEN Unreadable
       ELSE [f \in ToSet(IconFields) \cup {"glow", "name"} |->
               CASE f = "glow" -> bytes[41] = 1
                 [] f = "name" -> SubSeq(bytes, AccountDataBytes + 1,
                                                AccountDataBytes + length)
                 [] OTHER -> ReadInt(bytes,
                       4 * (SelectInSeq(IconFields, LAMBDA g : g = f) - 1), 4, le)]

(* The server's is_valid: the icons there are.                             *)
IconLimits ==
  [cube |-> 0..148, ship |-> 1..51, ball |-> 0..43, ufo |-> 1..35, wave |-> 1..35,
   robot |-> 1..26, spider |-> 1..17, deathEffect |-> 1..17]

IsValid(data) ==
  /\ Len(data.name) < 16 /\ \A i \in DOMAIN data.name : data.name[i] < 128
  /\ \A f \in DOMAIN IconLimits : data[f] \in IconLimits[f]
=============================================================================
