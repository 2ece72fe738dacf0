-------------------------- MODULE PlayerCodecProofs --------------------------
(***************************************************************************)
(* Proofs about PlayerCodec, for all data of players, all accounts and     *)
(* levels with any number of players: what is encoded on one machine is    *)
(* what is decoded on another, with the server in between.                 *)
(***************************************************************************)
EXTENDS PlayerCodecProperties, SequenceTheorems, WellFoundedInduction, TLAPS

-----------------------------------------------------------------------------
(* Induction, from the least element of a set of numbers. *)
Less == {pair \in Nat \X Nat : pair[1] < pair[2]}

LEMMA LessIsWellFounded == IsWellFoundedOn(Less, Nat)
  BY NatLessThanWellFounded DEF OpToRel, Less

LEMMA NatSetInduction ==
  ASSUME NEW S, 0 \in S, \A n \in Nat : n \in S => n + 1 \in S
  PROVE  Nat \subseteq S
<1> DEFINE T == Nat \ S
<1> SUFFICES ASSUME T # {} PROVE FALSE
  OBVIOUS
<1>1. PICK m \in T : \A n \in T : <<n, m>> \notin Less
  BY LessIsWellFounded, WFMin
<1>2. m - 1 \in Nat /\ m - 1 \notin S
  OBVIOUS
<1>3. <<m - 1, m>> \in Less
  BY <1>2 DEF Less
<1> QED
  BY <1>1, <1>2, <1>3

-----------------------------------------------------------------------------
(* Where a sequence is found in a longer one. *)
Part(bytes, at, part) ==
  /\ at + Len(part) <= Len(bytes)
  /\ \A i \in 1..Len(part) : bytes[at + i] = part[i]

LEMMA ConcatParts ==
  ASSUME NEW S, NEW s \in Seq(S), NEW t \in Seq(S)
  PROVE  /\ s \o t \in Seq(S) /\ Len(s \o t) = Len(s) + Len(t)
         /\ Part(s \o t, 0, s) /\ Part(s \o t, Len(s), t)
<1>1. /\ s \o t \in Seq(S) /\ Len(s \o t) = Len(s) + Len(t)
      /\ Len(s) \in Nat /\ Len(t) \in Nat
  BY ConcatProperties, LenProperties
<1>2. \A i \in 1..Len(s) : (s \o t)[0 + i] = s[i]
  BY <1>1, ConcatProperties
<1>3. \A i \in 1..Len(t) : (s \o t)[Len(s) + i] = t[i]
  BY <1>1, ConcatProperties
<1> QED
  BY <1>1, <1>2, <1>3 DEF Part

LEMMA PartOfPart ==
  ASSUME NEW bytes, NEW at \in Nat, NEW S, NEW part \in Seq(S), Part(bytes, at, part),
         NEW k \in Nat, NEW piece \in Seq(S), Part(part, k, piece), Len(bytes) \in Nat
  PROVE  Part(bytes, at + k, piece)
<1>1. Len(part) \in Nat /\ Len(piece) \in Nat
  BY LenProperties
<1>2. \A i \in 1..Len(piece) : k + i \in 1..Len(part) /\ (at + k) + i = at + (k + i)
  BY <1>1 DEF Part
<1>3. \A i \in 1..Len(piece) : bytes[(at + k) + i] = piece[i]
  BY <1>2 DEF Part
<1> QED
  BY <1>1, <1>3 DEF Part

(* A sequence that goes on has its parts where they were. *)
LEMMA PartOfLonger ==
  ASSUME NEW S, NEW s \in Seq(S), NEW t \in Seq(S), NEW piece \in Seq(S),
         NEW k \in Nat, Part(s, k, piece)
  PROVE  Part(s \o t, k, piece)
<1>1. Part(s \o t, 0, s) /\ Len(s \o t) \in Nat
  BY ConcatParts, LenProperties
<1>2. Part(s \o t, 0 + k, piece)
  BY <1>1, PartOfPart
<1> QED
  BY <1>2

-----------------------------------------------------------------------------
(* Numbers, flags and modes. *)
LEMMA WrittenAsIs ==
  ASSUME NEW S, NEW value \in Seq(S), NEW le \in BOOLEAN
  PROVE  WriteNumber(value, le) = value
<1>1. Len(value) \in Nat /\ value = [i \in 1..Len(value) |-> value[i]]
  BY LenProperties
<1>2. Reverse(value) \in Seq(S) /\ Len(Reverse(value)) = Len(value)
  BY <1>1 DEF Reverse
<1>3. \A i \in 1..Len(value) : Reverse(Reverse(value))[i] = value[i]
  BY <1>1, <1>2 DEF Reverse
<1>4. Reverse(Reverse(value)) = value
  BY <1>1, <1>2, <1>3 DEF Reverse
<1> QED
  BY <1>4 DEF WriteNumber, ByteSwap, Memory

LEMMA NumberRead ==
  ASSUME NEW S, NEW bytes \in Seq(S), NEW at \in Nat, NEW value \in Seq(S),
         NEW reader \in BOOLEAN, Part(bytes, at, value)
  PROVE  ReadNumber(bytes, at, Len(value), reader) = value
<1> DEFINE memory == SubSeq(bytes, at + 1, at + Len(value))
<1>1. Len(value) \in Nat /\ Len(bytes) \in Nat
      /\ value = [i \in 1..Len(value) |-> value[i]]
  BY LenProperties
<1>2. memory = [i \in 1..Len(value) |-> bytes[at + i]]
  BY <1>1 DEF Part
<1>3. memory = value
  BY <1>1, <1>2 DEF Part
<1>4. ReadNumber(bytes, at, Len(value), reader) = WriteNumber(memory, reader)
  BY DEF ReadNumber, WriteNumber, ByteSwap, Memory
<1> QED
  BY <1>3, <1>4, WrittenAsIs

Bits(a, b, c, d, e) ==
  (IF a THEN 128 ELSE 0) + (IF b THEN 64 ELSE 0) + (IF c THEN 32 ELSE 0)
  + (IF d THEN 16 ELSE 0) + (IF e THEN 8 ELSE 0)

LEMMA BitsRead ==
  ASSUME NEW a \in BOOLEAN, NEW b \in BOOLEAN, NEW c \in BOOLEAN,
         NEW d \in BOOLEAN, NEW e \in BOOLEAN
  PROVE  LET byte == Bits(a, b, c, d, e)
         IN /\ byte \in 0..255
            /\ Flag(byte, 7) = a /\ Flag(byte, 6) = b /\ Flag(byte, 5) = c
            /\ Flag(byte, 4) = d /\ Flag(byte, 3) = e
<1> DEFINE byte == Bits(a, b, c, d, e)
<1> DEFINE One(flag) == IF flag THEN 1 ELSE 0
<1>1. byte \in 0..255
  BY DEF Bits
<1>2. 2^7 = 128 /\ 2^6 = 64 /\ 2^5 = 32 /\ 2^4 = 16 /\ 2^3 = 8
  OBVIOUS
<1>3. (byte \div 128) % 2 = One(a)
  BY DEF Bits
<1>4. (byte \div 64) % 2 = One(b)
  BY DEF Bits
<1>5. (byte \div 32) % 2 = One(c)
  BY DEF Bits
<1>6. (byte \div 16) % 2 = One(d)
  BY DEF Bits
<1>7. (byte \div 8) % 2 = One(e)
  BY DEF Bits
<1> HIDE DEF byte
<1> QED
  BY <1>1, <1>2, <1>3, <1>4, <1>5, <1>6, <1>7 DEF Flag, byte

LEMMA FlagsRead ==
  ASSUME NEW a \in BOOLEAN, NEW b \in BOOLEAN, NEW c \in BOOLEAN,
         NEW d \in BOOLEAN, NEW e \in BOOLEAN
  PROVE  LET byte == FlagByte(<<a, b, c, d, e>>)
         IN /\ byte \in 0..255
            /\ Flag(byte, 7) = a /\ Flag(byte, 6) = b /\ Flag(byte, 5) = c
            /\ Flag(byte, 4) = d /\ Flag(byte, 3) = e
<1>1. FlagByte(<<a, b, c, d, e>>) = Bits(a, b, c, d, e)
  BY DEF FlagByte, Bits
<1> QED
  BY <1>1, BitsRead

LEMMA ThreeFlagsRead ==
  ASSUME NEW a \in BOOLEAN, NEW b \in BOOLEAN, NEW c \in BOOLEAN
  PROVE  LET byte == FlagByte(<<a, b, c>>)
         IN /\ byte \in 0..255
            /\ Flag(byte, 7) = a /\ Flag(byte, 6) = b /\ Flag(byte, 5) = c
<1>1. PICK none \in BOOLEAN : ~none
  OBVIOUS
<1>2. FlagByte(<<a, b, c>>) = Bits(a, b, c, none, none)
  BY <1>1 DEF FlagByte, Bits
<1> QED
  BY <1>1, <1>2, BitsRead

(* The list of modes has no mode twice.                                    *)
LEMMA ModesRead ==
  ASSUME NEW mode \in ToSet(GameModes)
  PROVE  /\ GmToNumber(mode) \in 0..6 /\ KnownGm(GmToNumber(mode))
         /\ NumberToGm[GmToNumber(mode)] = mode
         /\ ServerGm[GmToNumber(mode)] = mode
<1>1. PICK i \in 1..7 : mode = GameModes[i]
  BY DEF ToSet, GameModes
<1>2. {j \in 1..Len(GameModes) : GameModes[j] = mode} = {i}
  BY <1>1 DEF GameModes
<1>3. Min({i}) = i
  BY DEF Min
<1>4. GmToNumber(mode) = i - 1
  BY <1>2, <1>3 DEF GmToNumber, SelectInSeq
<1>5. Len(GameModes) = 7
  BY DEF GameModes
<1>6. KnownGm(i - 1) /\ i - 1 \in 0..255 /\ (i - 1) + 1 = i
  BY <1>5 DEF KnownGm
<1> QED
  BY <1>1, <1>4, <1>6 DEF NumberToGm, ServerGm

-----------------------------------------------------------------------------
(* A player's data. *)
LEMMA FloatsAreBytes ==
  ASSUME NEW value \in Floats
  PROVE  value \in Seq(Byte) /\ Len(value) = 4
<1>1. value \in [1..4 -> Byte] /\ 4 \in Nat
  BY DEF Floats
<1>2. value \in Seq(Byte)
  BY <1>1, SeqDef
<1> QED
  BY <1>1, <1>2, LenProperties

LEMMA FloatRead ==
  ASSUME NEW bytes \in Seq(Byte), NEW at \in Nat, NEW value \in Floats,
         NEW reader \in BOOLEAN, Part(bytes, at, value)
  PROVE  ReadNumber(bytes, at, 4, reader) = value
<1>1. value \in Seq(Byte) /\ Len(value) = 4
  BY FloatsAreBytes
<1>2. ReadNumber(bytes, at, Len(value), reader) = value
  BY <1>1, NumberRead
<1> QED
  BY <1>1, <1>2

LEMMA FloatWritten ==
  ASSUME NEW value \in Floats, NEW le \in BOOLEAN
  PROVE  WriteNumber(value, le) = value
BY FloatsAreBytes, WrittenAsIs

IconFlags(d) ==
  FlagByte(<<d.isHidden, d.isDashing, d.isUpsideDown, d.isMini, d.isGrounded>>)

LEMMA IconFlagsRead ==
  ASSUME NEW d \in IconData
  PROVE  /\ IconFlags(d) \in Byte
         /\ Flag(IconFlags(d), 7) = d.isHidden /\ Flag(IconFlags(d), 6) = d.isDashing
         /\ Flag(IconFlags(d), 5) = d.isUpsideDown /\ Flag(IconFlags(d), 4) = d.isMini
         /\ Flag(IconFlags(d), 3) = d.isGrounded
<1>1. /\ d.isHidden \in BOOLEAN /\ d.isDashing \in BOOLEAN /\ d.isUpsideDown \in BOOLEAN
      /\ d.isMini \in BOOLEAN /\ d.isGrounded \in BOOLEAN
  BY DEF IconData
<1> QED
  BY <1>1, FlagsRead DEF IconFlags, Byte

LEMMA IconEncoded ==
  ASSUME NEW d \in IconData, NEW le \in BOOLEAN,
         NEW all, all = EncodeSpecificIcon(d, le)
  PROVE  /\ all \in Seq(Byte) /\ Len(all) = 14
         /\ Part(all, 0, d.x) /\ Part(all, 4, d.y) /\ Part(all, 8, d.rot)
         /\ all[13] = GmToNumber(d.gameMode) /\ all[14] = IconFlags(d)
<1> DEFINE tail == <<GmToNumber(d.gameMode), IconFlags(d)>>
           xy == d.x \o d.y
           xyRot == xy \o d.rot
<1>1. d.x \in Floats /\ d.y \in Floats /\ d.rot \in Floats
      /\ d.gameMode \in ToSet(GameModes)
  BY DEF IconData
<1>2. /\ d.x \in Seq(Byte) /\ d.y \in Seq(Byte) /\ d.rot \in Seq(Byte)
      /\ Len(d.x) = 4 /\ Len(d.y) = 4 /\ Len(d.rot) = 4
  BY <1>1, FloatsAreBytes
<1>3. tail \in Seq(Byte) /\ Len(tail) = 2
      /\ tail[1] = GmToNumber(d.gameMode) /\ tail[2] = IconFlags(d)
  <2>1. GmToNumber(d.gameMode) \in Byte /\ IconFlags(d) \in Byte
    BY <1>1, ModesRead, IconFlagsRead DEF Byte
  <2> QED
    BY <2>1
<1>4. all = xyRot \o tail
  BY <1>1, FloatWritten DEF EncodeSpecificIcon, IconFlags
<1> HIDE DEF tail
<1> HIDE DEF xy, xyRot
<1>5. /\ xy \in Seq(Byte) /\ Len(xy) = 8 /\ Part(xy, 0, d.x) /\ Part(xy, 4, d.y)
  <2>1. xy \in Seq(Byte) /\ Len(xy) = Len(d.x) + Len(d.y)
        /\ Part(xy, 0, d.x) /\ Part(xy, Len(d.x), d.y)
    BY <1>2, ConcatParts DEF xy
  <2> QED
    BY <1>2, <2>1
<1>6. /\ xyRot \in Seq(Byte) /\ Len(xyRot) = 12
      /\ Part(xyRot, 0, d.x) /\ Part(xyRot, 4, d.y) /\ Part(xyRot, 8, d.rot)
  <2>1. xyRot \in Seq(Byte) /\ Len(xyRot) = Len(xy) + Len(d.rot)
        /\ Part(xyRot, Len(xy), d.rot)
    BY <1>2, <1>5, ConcatParts DEF xyRot
  <2>2. Part(xyRot, 0, d.x) /\ Part(xyRot, 4, d.y)
    BY <1>2, <1>5, PartOfLonger DEF xyRot
  <2> QED
    BY <1>2, <1>5, <2>1, <2>2
<1>7. all \in Seq(Byte) /\ Len(all) = 14 /\ Part(all, 12, tail)
  <2>1. all \in Seq(Byte) /\ Len(all) = Len(xyRot) + Len(tail)
        /\ Part(all, Len(xyRot), tail)
    BY <1>3, <1>4, <1>6, ConcatParts
  <2> QED
    BY <1>3, <1>6, <2>1
<1>8. Part(all, 0, d.x) /\ Part(all, 4, d.y) /\ Part(all, 8, d.rot)
  BY <1>2, <1>3, <1>4, <1>6, PartOfLonger
<1>9. all[12 + 1] = tail[1] /\ all[12 + 2] = tail[2]
  BY <1>3, <1>7 DEF Part
<1> QED
  BY <1>3, <1>7, <1>8, <1>9

LEMMA IconRead ==
  ASSUME NEW bytes \in Seq(Byte), NEW at \in Nat, NEW d \in IconData,
         NEW le \in BOOLEAN, NEW reader \in BOOLEAN, NEW Gm \in {NumberToGm, ServerGm},
         Part(bytes, at, EncodeSpecificIcon(d, le))
  PROVE  /\ DecodeSpecificIcon(bytes, at, reader, Gm) = d
         /\ KnownGm(bytes[at + 13])
<1> DEFINE all == EncodeSpecificIcon(d, le)
<1>1. /\ all \in Seq(Byte) /\ Len(all) = 14
      /\ Part(all, 0, d.x) /\ Part(all, 4, d.y) /\ Part(all, 8, d.rot)
      /\ all[13] = GmToNumber(d.gameMode) /\ all[14] = IconFlags(d)
  <2> HIDE DEF all
  <2> QED
    BY IconEncoded DEF all
<1>2. d.x \in Floats /\ d.y \in Floats /\ d.rot \in Floats
      /\ d.gameMode \in ToSet(GameModes)
  BY DEF IconData
<1> HIDE DEF all
<1>3. Part(bytes, at + 0, d.x) /\ Part(bytes, at + 4, d.y) /\ Part(bytes, at + 8, d.rot)
  <2>1. d.x \in Seq(Byte) /\ d.y \in Seq(Byte) /\ d.rot \in Seq(Byte)
        /\ Len(bytes) \in Nat
    BY <1>2, FloatsAreBytes, LenProperties
  <2> QED
    BY <1>1, <2>1, PartOfPart DEF all
<1>4. /\ ReadNumber(bytes, at, 4, reader) = d.x
      /\ ReadNumber(bytes, at + 4, 4, reader) = d.y
      /\ ReadNumber(bytes, at + 8, 4, reader) = d.rot
  BY <1>2, <1>3, FloatRead
<1>5. bytes[at + 13] = GmToNumber(d.gameMode) /\ bytes[at + 14] = IconFlags(d)
  BY <1>1 DEF Part, all
<1>6. Gm[bytes[at + 13]] = d.gameMode /\ KnownGm(bytes[at + 13])
  BY <1>2, <1>5, ModesRead
<1>7. /\ Flag(bytes[at + 14], 7) = d.isHidden /\ Flag(bytes[at + 14], 6) = d.isDashing
      /\ Flag(bytes[at + 14], 5) = d.isUpsideDown /\ Flag(bytes[at + 14], 4) = d.isMini
      /\ Flag(bytes[at + 14], 3) = d.isGrounded
  BY <1>5, IconFlagsRead
<1>8. DecodeSpecificIcon(bytes, at, reader, Gm) =
        [x |-> d.x, y |-> d.y, rot |-> d.rot, gameMode |-> d.gameMode,
         isHidden |-> d.isHidden, isDashing |-> d.isDashing,
         isUpsideDown |-> d.isUpsideDown, isMini |-> d.isMini,
         isGrounded |-> d.isGrounded]
  BY <1>4, <1>6, <1>7 DEF DecodeSpecificIcon
<1>9. @ = d
  BY DEF IconData
<1> QED
  BY <1>6, <1>8, <1>9

DataFlags(d) == FlagByte(<<d.isPractice, d.isDead, d.isPaused>>)

LEMMA DataFlagsRead ==
  ASSUME NEW d \in PlayersData
  PROVE  /\ DataFlags(d) \in Byte
         /\ Flag(DataFlags(d), 7) = d.isPractice /\ Flag(DataFlags(d), 6) = d.isDead
         /\ Flag(DataFlags(d), 5) = d.isPaused
<1>1. d.isPractice \in BOOLEAN /\ d.isDead \in BOOLEAN /\ d.isPaused \in BOOLEAN
  BY DEF PlayersData
<1> QED
  BY <1>1, ThreeFlagsRead DEF DataFlags, Byte

LEMMA DataFields ==
  ASSUME NEW d \in PlayersData, NEW le \in BOOLEAN
  PROVE  /\ d.timestamp \in Seq(Byte) /\ Len(d.timestamp) = 4
         /\ EncodeSpecificIcon(d.player1, le) \in Seq(Byte)
         /\ Len(EncodeSpecificIcon(d.player1, le)) = 14
         /\ EncodeSpecificIcon(d.player2, le) \in Seq(Byte)
         /\ Len(EncodeSpecificIcon(d.player2, le)) = 14
         /\ d.camX \in Seq(Byte) /\ Len(d.camX) = 4
         /\ d.camY \in Seq(Byte) /\ Len(d.camY) = 4
<1>1. /\ d.timestamp \in Floats /\ d.camX \in Floats /\ d.camY \in Floats
      /\ d.player1 \in IconData /\ d.player2 \in IconData
  BY DEF PlayersData
<1> QED
  BY <1>1, FloatsAreBytes, IconEncoded

LEMMA DataEncoded ==
  ASSUME NEW d \in PlayersData, NEW le \in BOOLEAN,
         NEW all, all = EncodePlayerData(d, le)
  PROVE  /\ all \in Seq(Byte) /\ Len(all) = 41
         /\ Part(all, 0, d.timestamp)
         /\ Part(all, 4, EncodeSpecificIcon(d.player1, le))
         /\ Part(all, 18, EncodeSpecificIcon(d.player2, le))
         /\ Part(all, 32, d.camX) /\ Part(all, 36, d.camY)
         /\ all[41] = DataFlags(d)
<1> DEFINE icon1 == EncodeSpecificIcon(d.player1, le)
           icon2 == EncodeSpecificIcon(d.player2, le)
           flags == <<DataFlags(d)>>
           to18 == d.timestamp \o icon1
           to32 == to18 \o icon2
           to36 == to32 \o d.camX
           to40 == to36 \o d.camY
<1>1. d.timestamp \in Floats /\ d.camX \in Floats /\ d.camY \in Floats
  BY DEF PlayersData
<1>2. /\ d.timestamp \in Seq(Byte) /\ Len(d.timestamp) = 4
      /\ icon1 \in Seq(Byte) /\ Len(icon1) = 14
      /\ icon2 \in Seq(Byte) /\ Len(icon2) = 14
      /\ d.camX \in Seq(Byte) /\ Len(d.camX) = 4
      /\ d.camY \in Seq(Byte) /\ Len(d.camY) = 4
  BY DataFields
<1>3. flags \in Seq(Byte) /\ Len(flags) = 1 /\ flags[1] = DataFlags(d)
  <2>1. DataFlags(d) \in Byte
    BY DataFlagsRead
  <2> QED
    BY <2>1
<1>4. all = to40 \o flags
  BY <1>1, FloatWritten DEF EncodePlayerData, DataFlags
<1> HIDE DEF icon1, icon2, flags, to18, to32, to36, to40
<1>5. to18 \in Seq(Byte) /\ Len(to18) = 18 /\ Part(to18, 0, d.timestamp)
      /\ Part(to18, 4, icon1)
  <2>1. to18 \in Seq(Byte) /\ Len(to18) = Len(d.timestamp) + Len(icon1)
        /\ Part(to18, 0, d.timestamp) /\ Part(to18, Len(d.timestamp), icon1)
    BY <1>2, ConcatParts DEF to18
  <2> QED
    BY <1>2, <2>1
<1>6. to32 \in Seq(Byte) /\ Len(to32) = 32 /\ Part(to32, 0, d.timestamp)
      /\ Part(to32, 4, icon1) /\ Part(to32, 18, icon2)
  <2>1. to32 \in Seq(Byte) /\ Len(to32) = Len(to18) + Len(icon2)
        /\ Part(to32, Len(to18), icon2)
    BY <1>2, <1>5, ConcatParts DEF to32
  <2>2. Part(to32, 0, d.timestamp) /\ Part(to32, 4, icon1)
    BY <1>2, <1>5, PartOfLonger DEF to32
  <2> QED
    BY <1>2, <1>5, <2>1, <2>2
<1>7. to36 \in Seq(Byte) /\ Len(to36) = 36 /\ Part(to36, 0, d.timestamp)
      /\ Part(to36, 4, icon1) /\ Part(to36, 18, icon2) /\ Part(to36, 32, d.camX)
  <2>1. to36 \in Seq(Byte) /\ Len(to36) = Len(to32) + Len(d.camX)
        /\ Part(to36, Len(to32), d.camX)
    BY <1>2, <1>6, ConcatParts DEF to36
  <2>2. Part(to36, 0, d.timestamp) /\ Part(to36, 4, icon1) /\ Part(to36, 18, icon2)
    BY <1>2, <1>6, PartOfLonger DEF to36
  <2> QED
    BY <1>2, <1>6, <2>1, <2>2
<1>8. to40 \in Seq(Byte) /\ Len(to40) = 40 /\ Part(to40, 0, d.timestamp)
      /\ Part(to40, 4, icon1) /\ Part(to40, 18, icon2) /\ Part(to40, 32, d.camX)
      /\ Part(to40, 36, d.camY)
  <2>1. to40 \in Seq(Byte) /\ Len(to40) = Len(to36) + Len(d.camY)
        /\ Part(to40, Len(to36), d.camY)
    BY <1>2, <1>7, ConcatParts DEF to40
  <2>2. Part(to40, 0, d.timestamp) /\ Part(to40, 4, icon1) /\ Part(to40, 18, icon2)
        /\ Part(to40, 32, d.camX)
    BY <1>2, <1>7, PartOfLonger DEF to40
  <2> QED
    BY <1>2, <1>7, <2>1, <2>2
<1>9. all \in Seq(Byte) /\ Len(all) = 41 /\ Part(all, 40, flags)
  <2>1. to40 \in Seq(Byte) /\ flags \in Seq(Byte)
    BY <1>3, <1>8
  <2>2. all \in Seq(Byte) /\ Len(all) = Len(to40) + Len(flags)
        /\ Part(all, Len(to40), flags)
    BY <1>4, <2>1, ConcatParts
  <2> QED
    BY <1>3, <1>8, <2>2
<1>10. Part(all, 0, d.timestamp) /\ Part(all, 4, icon1) /\ Part(all, 18, icon2)
       /\ Part(all, 32, d.camX) /\ Part(all, 36, d.camY)
  BY <1>2, <1>3, <1>4, <1>8, PartOfLonger
<1>11. all[40 + 1] = flags[1]
  BY <1>3, <1>9 DEF Part
<1> QED
  BY <1>3, <1>9, <1>10, <1>11 DEF icon1, icon2

(* Wherever the data is in the bytes, and whoever reads it. *)
LEMMA DataRead ==
  ASSUME NEW bytes \in Seq(Byte), NEW at \in Nat, NEW d \in PlayersData,
         NEW le \in BOOLEAN, NEW reader \in BOOLEAN, NEW Gm \in {NumberToGm, ServerGm},
         Part(bytes, at, EncodePlayerData(d, le))
  PROVE  DecodePlayerData(bytes, at, reader, Gm) = d /\ KnownModes(bytes, at)
<1> DEFINE all == EncodePlayerData(d, le)
           icon1 == EncodeSpecificIcon(d.player1, le)
           icon2 == EncodeSpecificIcon(d.player2, le)
<1>1. /\ all \in Seq(Byte) /\ Len(all) = 41 /\ Part(all, 0, d.timestamp)
      /\ Part(all, 4, icon1) /\ Part(all, 18, icon2)
      /\ Part(all, 32, d.camX) /\ Part(all, 36, d.camY) /\ all[41] = DataFlags(d)
  <2> HIDE DEF all
  <2> QED
    BY DataEncoded DEF all
<1>2. /\ d.timestamp \in Floats /\ d.camX \in Floats /\ d.camY \in Floats
      /\ d.player1 \in IconData /\ d.player2 \in IconData
  BY DEF PlayersData
<1>3. /\ d.timestamp \in Seq(Byte) /\ icon1 \in Seq(Byte) /\ icon2 \in Seq(Byte)
      /\ d.camX \in Seq(Byte) /\ d.camY \in Seq(Byte) /\ Len(bytes) \in Nat
  BY DataFields, LenProperties
<1> HIDE DEF all, icon1, icon2
<1>4. /\ Part(bytes, at + 0, d.timestamp) /\ Part(bytes, at + 4, icon1)
      /\ Part(bytes, at + 18, icon2) /\ Part(bytes, at + 32, d.camX)
      /\ Part(bytes, at + 36, d.camY)
  <2>1. Len(bytes) \in Nat /\ Part(bytes, at, all)
    BY <1>3 DEF all
  <2>2. \A k \in Nat, piece \in Seq(Byte) :
          Part(all, k, piece) => Part(bytes, at + k, piece)
    BY <1>1, <2>1, PartOfPart
  <2> QED
    BY <1>1, <1>3, <2>2
<1>5. /\ ReadNumber(bytes, at, 4, reader) = d.timestamp
      /\ ReadNumber(bytes, at + 32, 4, reader) = d.camX
      /\ ReadNumber(bytes, at + 36, 4, reader) = d.camY
  BY <1>2, <1>4, FloatRead
<1>6. /\ DecodeSpecificIcon(bytes, at + 4, reader, Gm) = d.player1
      /\ DecodeSpecificIcon(bytes, at + 18, reader, Gm) = d.player2
      /\ KnownGm(bytes[(at + 4) + 13]) /\ KnownGm(bytes[(at + 18) + 13])
  <2>1. at + 4 \in Nat /\ at + 18 \in Nat
    OBVIOUS
  <2> QED
    BY <1>2, <1>4, <2>1, IconRead DEF icon1, icon2
<1>7. bytes[at + 41] = DataFlags(d)
  BY <1>1 DEF Part, all
<1>8. /\ Flag(bytes[at + 41], 7) = d.isPractice /\ Flag(bytes[at + 41], 6) = d.isDead
      /\ Flag(bytes[at + 41], 5) = d.isPaused
  BY <1>7, DataFlagsRead
<1>9. KnownModes(bytes, at) /\ at + 4 + SpecificIconBytes = at + 18
  <2>1. (at + 4) + 13 = at + 17 /\ (at + 18) + 13 = at + 17 + 14
    OBVIOUS
  <2> QED
    BY <1>6, <2>1 DEF KnownModes, SpecificIconBytes
<1>10. DecodePlayerData(bytes, at, reader, Gm) =
         [timestamp |-> d.timestamp, player1 |-> d.player1, player2 |-> d.player2,
          camX |-> d.camX, camY |-> d.camY, isPractice |-> d.isPractice,
          isDead |-> d.isDead, isPaused |-> d.isPaused]
  BY <1>5, <1>6, <1>8, <1>9 DEF DecodePlayerData
<1>11. @ = d
  BY DEF PlayersData
<1> QED
  BY <1>9, <1>10, <1>11

(* From a client to the server, and from there to another client. *)
LEMMA ServerKeepsData ==
  ASSUME NEW d \in PlayersData, NEW sender \in BOOLEAN
  PROVE  ServerData(EncodePlayerData(d, sender)) = d
<1> DEFINE all == EncodePlayerData(d, sender)
<1>1. all \in Seq(Byte) /\ Len(all) = 41
  <2> HIDE DEF all
  <2> QED
    BY DataEncoded DEF all
<1> HIDE DEF all
<1>2. Part(all, 0, all)
  BY <1>1 DEF Part
<1>3. DecodePlayerData(all, 0, FALSE, ServerGm) = d
  BY <1>1, <1>2, DataRead DEF all
<1>4. ~(Len(all) < PlayerDataBytes)
  BY <1>1 DEF PlayerDataBytes, SpecificIconBytes
<1> QED
  BY <1>3, <1>4 DEF ServerData, all

LEMMA ClientReadsData ==
  ASSUME NEW d \in PlayersData, NEW receiver \in BOOLEAN
  PROVE  DecodePlayerData(EncodePlayerData(d, FALSE), 0, receiver, NumberToGm) = d
<1> DEFINE all == EncodePlayerData(d, FALSE)
<1>1. all \in Seq(Byte) /\ Len(all) = 41
  <2> HIDE DEF all
  <2> QED
    BY DataEncoded DEF all
<1> HIDE DEF all
<1>2. Part(all, 0, all)
  BY <1>1 DEF Part
<1> QED
  BY <1>1, <1>2, DataRead DEF all

(* All data of all players is relayed, between any two machines.           *)
THEOREM AllDataRelayed == DataRelayed(PlayersData)
BY ServerKeepsData, ClientReadsData DEF DataRelayed

-----------------------------------------------------------------------------
(* Numbers of two and four bytes. *)
Shorts == {n \in Nat : n < 65536}

LEMMA ByteIsInt == \A b \in Byte : b \in Int
  BY DEF Byte

LEMMA BytesAreInts ==
  ASSUME NEW bytes \in Seq(Byte)
  PROVE  \A i \in 1..Len(bytes) : bytes[i] \in Int
BY ElementOfSeq, ByteIsInt

LEMMA NumberOfTwo ==
  ASSUME NEW bytes \in Seq(Byte), Len(bytes) = 2
  PROVE  NumberOf(bytes) = bytes[1] * 256 + bytes[2]
<1> DEFINE Value(f) == [n \in 0..Len(bytes) |->
                          IF n = 0 THEN 0 ELSE f[n - 1] * 256 + bytes[n]]
           value == CHOOSE f : f = Value(f)
           given == [n \in 0..2 |-> IF n = 0 THEN 0 ELSE IF n = 1 THEN bytes[1]
                                    ELSE bytes[1] * 256 + bytes[2]]
<1>1. bytes[1] \in Int /\ bytes[2] \in Int
  BY BytesAreInts
<1>2. given = Value(given)
  BY <1>1
<1>3. value = Value(value)
  <2> HIDE DEF Value, given
  <2> QED
    BY <1>2
<1>4. NumberOf(bytes) = value[2]
  BY DEF NumberOf
<1> HIDE DEF value
<1>5. value[0] = 0 /\ value[1] = value[0] * 256 + bytes[1]
      /\ value[2] = value[1] * 256 + bytes[2]
  BY <1>3
<1> QED
  BY <1>1, <1>4, <1>5

LEMMA NumberOfFour ==
  ASSUME NEW bytes \in Seq(Byte), Len(bytes) = 4
  PROVE  NumberOf(bytes) =
           ((bytes[1] * 256 + bytes[2]) * 256 + bytes[3]) * 256 + bytes[4]
<1>1. bytes[1] \in Int /\ bytes[2] \in Int /\ bytes[3] \in Int /\ bytes[4] \in Int
  <2>1. \A i \in 1..Len(bytes) : bytes[i] \in Int
    BY BytesAreInts
  <2> QED
    BY <2>1
<1> DEFINE Value(f) == [n \in 0..Len(bytes) |->
                          IF n = 0 THEN 0 ELSE f[n - 1] * 256 + bytes[n]]
           value == CHOOSE f : f = Value(f)
           two == bytes[1] * 256 + bytes[2]
           three == two * 256 + bytes[3]
           given == [n \in 0..4 |-> IF n = 0 THEN 0 ELSE IF n = 1 THEN bytes[1]
                                    ELSE IF n = 2 THEN two ELSE IF n = 3 THEN three
                                    ELSE three * 256 + bytes[4]]
<1>2. given = Value(given)
  BY <1>1
<1>3. value = Value(value)
  <2> HIDE DEF Value, given
  <2> QED
    BY <1>2
<1>4. NumberOf(bytes) = value[4]
  BY DEF NumberOf
<1> HIDE DEF value
<1>5. value[0] = 0 /\ value[1] = value[0] * 256 + bytes[1]
      /\ value[2] = value[1] * 256 + bytes[2]
      /\ value[3] = value[2] * 256 + bytes[3]
      /\ value[4] = value[3] * 256 + bytes[4]
  BY <1>3
<1> QED
  BY <1>1, <1>4, <1>5

(* Division by 256 leaves a byte, and less than there was. *)
LEMMA DivMod ==
  ASSUME NEW n \in Nat
  PROVE  /\ n \div 256 \in Nat /\ n % 256 \in 0..255
         /\ (n \div 256) * 256 + (n % 256) = n
OBVIOUS

LEMMA DivLess ==
  ASSUME NEW n \in Nat, NEW m \in Nat, n < 256 * m
  PROVE  n \div 256 < m
<1> DEFINE q == n \div 256
           r == n % 256
<1>1. q \in Nat /\ r \in 0..255 /\ q * 256 + r = n
  BY DivMod
<1> HIDE DEF q, r
<1>2. q < m
  BY <1>1
<1> QED
  BY <1>2 DEF q

LEMMA TwoBytes ==
  ASSUME NEW n \in Shorts
  PROVE  /\ BytesOf(n, 2) \in Seq(Byte) /\ Len(BytesOf(n, 2)) = 2
         /\ NumberOf(BytesOf(n, 2)) = n
<1> DEFINE bytes == BytesOf(n, 2)
           q == n \div 256
           r == n % 256
<1>1. 256^1 = 256 /\ 256^0 = 1
  BY SMT
<1>2. n \in Nat /\ n < 256 * 256
  BY SMT DEF Shorts
<1>3. bytes = <<q % 256, r>>
  BY <1>1, <1>2, SMT DEF BytesOf
<1>4. q \in Nat /\ q < 256 /\ r \in 0..255 /\ q * 256 + r = n
  BY <1>2, DivMod, DivLess, SMT
<1> HIDE DEF q, r
<1>5. q % 256 = q
  BY <1>4
<1>6. bytes \in Seq(Byte) /\ Len(bytes) = 2 /\ bytes[1] = q /\ bytes[2] = r
  <2>1. q \in Byte /\ r \in Byte
    BY <1>4 DEF Byte
  <2>2. bytes = <<q, r>>
    BY <1>3, <1>5
  <2> HIDE DEF bytes
  <2> QED
    BY <2>1, <2>2
<1> HIDE DEF bytes
<1>7. NumberOf(bytes) = n
  BY <1>4, <1>6, NumberOfTwo
<1> QED
  BY <1>6, <1>7 DEF bytes

LEMMA FourBytes ==
  ASSUME NEW n \in Numbers
  PROVE  /\ BytesOf(n, 4) \in Seq(Byte) /\ Len(BytesOf(n, 4)) = 4
         /\ NumberOf(BytesOf(n, 4)) = n
<1> DEFINE bytes == BytesOf(n, 4)
           q1 == n \div 256
           q2 == q1 \div 256
           q3 == q2 \div 256
<1>1. 256^3 = 16777216 /\ 256^2 = 65536 /\ 256^1 = 256 /\ 256^0 = 1
  BY SMT
<1>2. n \in Nat /\ n < 256 * 16777216
  BY SMT DEF Numbers
<1>3. n \div 16777216 = q3 /\ n \div 65536 = q2
  BY <1>2, SMT
<1>4. bytes = <<q3 % 256, q2 % 256, q1 % 256, n % 256>>
  BY <1>1, <1>2, <1>3, SMT DEF BytesOf
<1>5. q1 \in Nat /\ q1 < 256 * 65536 /\ n % 256 \in 0..255 /\ q1 * 256 + (n % 256) = n
  BY <1>2, DivMod, DivLess, SMT
<1> HIDE DEF q1
<1>6. q2 \in Nat /\ q2 < 256 * 256 /\ q1 % 256 \in 0..255 /\ q2 * 256 + (q1 % 256) = q1
  BY <1>5, DivMod, DivLess, SMT
<1> HIDE DEF q2
<1>7. q3 \in Nat /\ q3 < 256 /\ q2 % 256 \in 0..255 /\ q3 * 256 + (q2 % 256) = q2
  BY <1>6, DivMod, DivLess, SMT
<1> HIDE DEF q3
<1>8. q3 % 256 = q3
  BY <1>7, SMT
<1> DEFINE b2 == q2 % 256
           b3 == q1 % 256
           b4 == n % 256
<1>9. bytes = <<q3, b2, b3, b4>>
  BY <1>4, <1>8, SMT
<1>10. /\ q3 \in Byte /\ b2 \in Byte /\ b3 \in Byte /\ b4 \in Byte
       /\ ((q3 * 256 + b2) * 256 + b3) * 256 + b4 = n
  BY <1>5, <1>6, <1>7, SMT DEF Byte
<1> HIDE DEF bytes, b2, b3, b4
<1>11. bytes \in Seq(Byte) /\ Len(bytes) = 4
       /\ bytes[1] = q3 /\ bytes[2] = b2 /\ bytes[3] = b3 /\ bytes[4] = b4
  BY <1>9, <1>10
<1>12. NumberOf(bytes) = n
  BY <1>10, <1>11, NumberOfFour
<1> QED
  BY <1>11, <1>12 DEF bytes

LEMMA IntRead ==
  ASSUME NEW bytes \in Seq(Byte), NEW at \in Nat, NEW reader \in BOOLEAN
  PROVE  /\ \A n \in Shorts : Part(bytes, at, BytesOf(n, 2)) =>
              ReadInt(bytes, at, 2, reader) = n
         /\ \A n \in Numbers : Part(bytes, at, BytesOf(n, 4)) =>
              ReadInt(bytes, at, 4, reader) = n
<1>1. ASSUME NEW n \in Shorts, Part(bytes, at, BytesOf(n, 2))
      PROVE  ReadInt(bytes, at, 2, reader) = n
  <2>1. ReadNumber(bytes, at, Len(BytesOf(n, 2)), reader) = BytesOf(n, 2)
    BY <1>1, TwoBytes, NumberRead
  <2> QED
    BY <2>1, TwoBytes DEF ReadInt
<1>2. ASSUME NEW n \in Numbers, Part(bytes, at, BytesOf(n, 4))
      PROVE  ReadInt(bytes, at, 4, reader) = n
  <2>1. ReadNumber(bytes, at, Len(BytesOf(n, 4)), reader) = BytesOf(n, 4)
    BY <1>2, FourBytes, NumberRead
  <2> QED
    BY <2>1, FourBytes DEF ReadInt
<1> QED
  BY <1>1, <1>2

-----------------------------------------------------------------------------
(* Pieces of one width after one another. *)
Joined(seqs, n, f) ==
  f = [i \in 1..n |-> IF i = 1 THEN seqs[i] ELSE f[i - 1] \o seqs[i]]

LEMMA JoinedExists ==
  ASSUME NEW S, NEW seqs \in Seq(Seq(S)), Len(seqs) # 0
  PROVE  \E f : Joined(seqs, Len(seqs), f)
<1> DEFINE T == {n \in Nat : \E f : Joined(seqs, n + 1, f)}
<1>1. 0 \in T
  <2> DEFINE f == [i \in 1..1 |-> seqs[i]]
  <2>1. Joined(seqs, 0 + 1, f)
    BY DEF Joined
  <2> QED
    BY <2>1
<1>2. ASSUME NEW n \in Nat, n \in T PROVE n + 1 \in T
  <2>1. PICK f : Joined(seqs, n + 1, f)
    BY <1>2
  <2> DEFINE next == f[n + 1] \o seqs[n + 2]
             g == [i \in 1..(n + 2) |-> IF i # n + 2 THEN f[i] ELSE next]
  <2>2. \A i \in 1..(n + 1) : g[i] = f[i]
    OBVIOUS
  <2>3. g[n + 2] = g[n + 1] \o seqs[n + 2]
    <3> HIDE DEF next
    <3>1. g[n + 2] = next /\ g[n + 1] = f[n + 1]
      OBVIOUS
    <3> HIDE DEF g
    <3> QED
      BY <3>1 DEF next
  <2>4. \A i \in 1..(n + 1) : f[i] = IF i = 1 THEN seqs[i] ELSE f[i - 1] \o seqs[i]
    BY <2>1 DEF Joined
  <2>5. ASSUME NEW i \in 1..(n + 2)
        PROVE  g[i] = IF i = 1 THEN seqs[i] ELSE g[i - 1] \o seqs[i]
    <3>1. CASE i = n + 2
      <4>1. i - 1 = n + 1 /\ i # 1
        BY <3>1
      <4> HIDE DEF g
      <4> QED
        BY <2>3, <3>1, <4>1
    <3>2. CASE i \in 1..(n + 1) /\ i # 1
      <4>1. i - 1 \in 1..(n + 1)
        BY <3>2
      <4> HIDE DEF g
      <4> QED
        BY <2>2, <2>4, <3>2, <4>1
    <3>3. CASE i = 1
      BY <2>2, <2>4, <3>3
    <3> QED
      BY <3>1, <3>2, <3>3
  <2>6. Joined(seqs, (n + 1) + 1, g)
    <3>1. g = [i \in 1..(n + 2) |-> g[i]] /\ (n + 1) + 1 = n + 2
      OBVIOUS
    <3> HIDE DEF g
    <3> QED
      BY <2>5, <3>1 DEF Joined
  <2> QED
    BY <2>6
<1> HIDE DEF T
<1>3. Nat \subseteq T
  BY <1>1, <1>2, NatSetInduction
<1>4. Len(seqs) - 1 \in T /\ (Len(seqs) - 1) + 1 = Len(seqs)
  BY <1>3, LenProperties
<1> QED
  BY <1>4 DEF T

LEMMA FlattenFixed ==
  ASSUME NEW S, NEW seqs \in Seq(Seq(S)), NEW width \in Nat,
         \A i \in 1..Len(seqs) : Len(seqs[i]) = width,
         NEW all, all = FlattenSeq(seqs)
  PROVE  /\ all \in Seq(S) /\ Len(all) = Len(seqs) * width
         /\ \A i \in 1..Len(seqs) : Part(all, (i - 1) * width, seqs[i])
<1> DEFINE Times(n) == n * width
           Body(f) == [i \in 1..Len(seqs) |->
                         IF i = 1 THEN seqs[i] ELSE f[i - 1] \o seqs[i]]
           flatten == CHOOSE f : f = Body(f)
<1>1. /\ Times(0) = 0 /\ Times(1) = width
      /\ \A n \in Nat : Times(n) \in Nat /\ Times(n + 1) = Times(n) + width
  OBVIOUS
<1>2. Len(seqs) \in Nat /\ \A i \in 1..Len(seqs) : seqs[i] \in Seq(S)
  BY LenProperties, ElementOfSeq
<1>3. CASE Len(seqs) = 0
  <2>1. all = seqs /\ seqs = <<>>
    BY <1>3, EmptySeq DEF FlattenSeq
  <2> QED
    BY <1>3, <2>1
<1>4. CASE Len(seqs) # 0
  <2>1. all = flatten[Len(seqs)]
    BY <1>4 DEF FlattenSeq
  <2>2. PICK given : Joined(seqs, Len(seqs), given)
    BY <1>4, JoinedExists
  <2>3. given = Body(given)
    BY <2>2 DEF Joined
  <2>4. flatten = Body(flatten)
    <3> HIDE DEF Body
    <3> QED
      BY <2>3
  <2>5. \A i \in 1..Len(seqs) :
          flatten[i] = IF i = 1 THEN seqs[i] ELSE flatten[i - 1] \o seqs[i]
    <3> HIDE DEF flatten
    <3> QED
      BY <2>4
  <2> HIDE DEF flatten, Times
  <2> DEFINE Good(n) == /\ flatten[n] \in Seq(S) /\ Len(flatten[n]) = Times(n)
                        /\ \A i \in 1..n : Part(flatten[n], Times(i - 1), seqs[i])
             T == {n \in Nat : n + 1 <= Len(seqs) => Good(n + 1)}
  <2>6. 0 \in T
    <3>1. flatten[1] = seqs[1]
      BY <1>2, <1>4, <2>5
    <3>2. seqs[1] \in Seq(S) /\ Len(seqs[1]) = width /\ Len(seqs[1]) \in Nat
      BY <1>2, <1>4
    <3>3. Part(seqs[1], 0, seqs[1])
      BY <3>2 DEF Part
    <3>4. Good(1)
      BY <1>1, <3>1, <3>2, <3>3
    <3> HIDE DEF Good
    <3> QED
      BY <3>4
  <2>7. ASSUME NEW n \in Nat, n \in T PROVE n + 1 \in T
    <3> SUFFICES ASSUME n + 2 <= Len(seqs) PROVE Good(n + 2)
      <4> HIDE DEF Good
      <4> QED
        OBVIOUS
    <3>1. Good(n + 1)
      <4> HIDE DEF Good
      <4> QED
        BY <1>2, <2>7
    <3>2. flatten[n + 2] = flatten[n + 1] \o seqs[n + 2]
      <4>1. n + 2 \in 1..Len(seqs) /\ n + 2 # 1 /\ (n + 2) - 1 = n + 1
        BY <1>2
      <4> QED
        BY <2>5, <4>1
    <3>3. seqs[n + 2] \in Seq(S) /\ Len(seqs[n + 2]) = width
      BY <1>2
    <3>4. flatten[n + 1] \in Seq(S) /\ Len(flatten[n + 1]) = Times(n + 1)
      BY <3>1
    <3>5. /\ flatten[n + 2] \in Seq(S)
          /\ Len(flatten[n + 2]) = Len(flatten[n + 1]) + Len(seqs[n + 2])
          /\ Part(flatten[n + 2], Len(flatten[n + 1]), seqs[n + 2])
      <4> DEFINE before == flatten[n + 1]
                 next == seqs[n + 2]
      <4>1. before \in Seq(S) /\ next \in Seq(S) /\ flatten[n + 2] = before \o next
        BY <3>2, <3>3, <3>4
      <4> HIDE DEF before, next, Good
      <4>2. /\ before \o next \in Seq(S)
            /\ Len(before \o next) = Len(before) + Len(next)
            /\ Part(before \o next, Len(before), next)
        BY <4>1, ConcatParts
      <4> QED
        BY <4>1, <4>2 DEF before, next
    <3>6. Times(n + 2) = Times(n + 1) + width
      BY <1>1
    <3>7. Part(flatten[n + 2], Times((n + 2) - 1), seqs[n + 2])
      <4>1. (n + 2) - 1 = n + 1
        OBVIOUS
      <4> QED
        BY <3>4, <3>5, <4>1
    <3>8. ASSUME NEW i \in 1..(n + 1)
          PROVE  Part(flatten[n + 2], Times(i - 1), seqs[i])
      <4>1. Part(flatten[n + 1], Times(i - 1), seqs[i])
        BY <3>1
      <4> HIDE DEF Good
      <4>2. i - 1 \in Nat /\ i \in 1..Len(seqs)
        BY <1>2
      <4>3. Times(i - 1) \in Nat /\ seqs[i] \in Seq(S)
        BY <1>1, <1>2, <4>2
      <4> QED
        BY <3>2, <3>3, <3>4, <4>1, <4>3, PartOfLonger
    <3>9. \A i \in 1..(n + 2) : i \in 1..(n + 1) \/ i = n + 2
      OBVIOUS
    <3> QED
      BY <3>3, <3>4, <3>5, <3>6, <3>7, <3>8, <3>9
  <2> HIDE DEF T
  <2>8. Nat \subseteq T
    BY <2>6, <2>7, NatSetInduction
  <2>9. Good(Len(seqs))
    <3>1. Len(seqs) - 1 \in T /\ (Len(seqs) - 1) + 1 = Len(seqs)
      BY <1>2, <1>4, <2>8
    <3> HIDE DEF Good
    <3> QED
      BY <1>2, <3>1 DEF T
  <2> QED
    BY <2>1, <2>9 DEF Times
<1> QED
  BY <1>3, <1>4

-----------------------------------------------------------------------------
(* The packet of a level with any number of players, no two with one id.   *)
Players == [id : Numbers, data : PlayersData]

Levels ==
  {entries \in Seq(Players) :
     /\ Len(entries) \in Shorts
     /\ \A i, j \in DOMAIN entries : entries[i].id = entries[j].id => i = j}

EntryWritten(player) == BytesOf(player.id, 4) \o EncodePlayerData(player.data, FALSE)

LEMMA EntryEncoded ==
  ASSUME NEW player \in Players, NEW all, all = EntryWritten(player)
  PROVE  /\ all \in Seq(Byte) /\ Len(all) = EntryBytes
         /\ Part(all, 0, BytesOf(player.id, 4))
         /\ Part(all, 4, EncodePlayerData(player.data, FALSE))
<1> DEFINE id == BytesOf(player.id, 4)
           data == EncodePlayerData(player.data, FALSE)
<1>1. player.id \in Numbers /\ player.data \in PlayersData
  BY DEF Players
<1>2. id \in Seq(Byte) /\ Len(id) = 4
  BY <1>1, FourBytes
<1>3. data \in Seq(Byte) /\ Len(data) = 41
  <2> HIDE DEF data
  <2> QED
    BY <1>1, DataEncoded DEF data
<1>4. all = id \o data
  BY DEF EntryWritten
<1> HIDE DEF id, data
<1>5. /\ all \in Seq(Byte) /\ Len(all) = Len(id) + Len(data)
      /\ Part(all, 0, id) /\ Part(all, Len(id), data)
  <2>1. id \in Seq(Byte) /\ data \in Seq(Byte)
    BY <1>2, <1>3
  <2> QED
    BY <1>4, <2>1, ConcatParts
<1>6. EntryBytes = 45
  BY DEF EntryBytes, PlayerDataBytes, SpecificIconBytes
<1>7. Len(all) = EntryBytes /\ Part(all, 4, data)
  BY <1>2, <1>3, <1>5, <1>6
<1> QED
  BY <1>5, <1>7 DEF id, data

LEMMA LevelEncoded ==
  ASSUME NEW entries \in Levels, NEW all, all = WriteLevelData(entries)
  PROVE  /\ all \in Seq(Byte) /\ Len(all) = EntryAt(Len(entries) + 1)
         /\ Part(all, 1, BytesOf(Len(entries), 2))
         /\ \A i \in 1..Len(entries) : /\ EntryAt(i) \in Nat
                                       /\ Part(all, EntryAt(i), EntryWritten(entries[i]))
<1> DEFINE kind == <<LevelDataKind>>
           count == BytesOf(Len(entries), 2)
           pieces == [i \in DOMAIN entries |-> EntryWritten(entries[i])]
           flat == FlattenSeq(pieces)
           head == kind \o count
<1>1. Len(entries) \in Nat /\ Len(entries) \in Shorts /\ DOMAIN entries = 1..Len(entries)
      /\ \A i \in 1..Len(entries) : entries[i] \in Players
  <2>1. entries \in Seq(Players)
    BY DEF Levels
  <2> QED
    BY <2>1, LenProperties, ElementOfSeq DEF Levels
<1>2. \A i \in 1..Len(entries) : EntryWritten(entries[i]) \in Seq(Byte)
                                 /\ Len(EntryWritten(entries[i])) = EntryBytes
  <2> SUFFICES ASSUME NEW i \in 1..Len(entries)
               PROVE  EntryWritten(entries[i]) \in Seq(Byte)
                      /\ Len(EntryWritten(entries[i])) = EntryBytes
    OBVIOUS
  <2> QED
    BY <1>1, EntryEncoded
<1>3. pieces \in Seq(Seq(Byte)) /\ Len(pieces) = Len(entries)
      /\ \A i \in 1..Len(entries) : pieces[i] = EntryWritten(entries[i])
  <2>1. pieces \in [1..Len(entries) -> Seq(Byte)]
    BY <1>1, <1>2
  <2>2. \A i \in 1..Len(entries) : pieces[i] = EntryWritten(entries[i])
    BY <1>1
  <2> HIDE DEF pieces
  <2> QED
    BY <1>1, <2>1, <2>2, SeqDef
<1> HIDE DEF pieces
<1>4. /\ flat \in Seq(Byte) /\ Len(flat) = Len(entries) * EntryBytes
      /\ \A i \in 1..Len(entries) :
           Part(flat, (i - 1) * EntryBytes, EntryWritten(entries[i]))
  <2>1. EntryBytes \in Nat /\ \A i \in 1..Len(pieces) : Len(pieces[i]) = EntryBytes
    BY <1>2, <1>3 DEF EntryBytes, PlayerDataBytes, SpecificIconBytes
  <2> HIDE DEF flat
  <2>2. /\ flat \in Seq(Byte) /\ Len(flat) = Len(pieces) * EntryBytes
        /\ \A i \in 1..Len(pieces) : Part(flat, (i - 1) * EntryBytes, pieces[i])
    BY <1>3, <2>1, FlattenFixed DEF flat
  <2> QED
    BY <1>3, <2>2
<1>5. kind \in Seq(Byte) /\ Len(kind) = 1 /\ count \in Seq(Byte) /\ Len(count) = 2
  <2>1. LevelDataKind \in Byte
    BY DEF LevelDataKind, Byte
  <2> QED
    BY <1>1, <2>1, TwoBytes
<1>6. all = head \o flat
  BY DEF WriteLevelData, EntryWritten, pieces
<1> HIDE DEF kind, count, flat, head
<1>7. head \in Seq(Byte) /\ Len(head) = 3 /\ Part(head, 1, count)
  <2>1. head \in Seq(Byte) /\ Len(head) = Len(kind) + Len(count)
        /\ Part(head, Len(kind), count)
    BY <1>5, ConcatParts DEF head
  <2> QED
    BY <1>5, <2>1
<1>8. all \in Seq(Byte) /\ Len(all) = 3 + Len(flat) /\ Part(all, 3, flat)
  <2>1. all \in Seq(Byte) /\ Len(all) = Len(head) + Len(flat) /\ Part(all, Len(head), flat)
    BY <1>4, <1>6, <1>7, ConcatParts
  <2> QED
    BY <1>7, <2>1
<1>9. Part(all, 1, count)
  BY <1>4, <1>5, <1>6, <1>7, PartOfLonger
<1>10. ASSUME NEW i \in 1..Len(entries)
       PROVE  EntryAt(i) \in Nat /\ Part(all, EntryAt(i), EntryWritten(entries[i]))
  <2> DEFINE k == (i - 1) * EntryBytes
  <2>1. k \in Nat /\ EntryAt(i) = 3 + k
    BY <1>1 DEF EntryAt, EntryBytes, PlayerDataBytes, SpecificIconBytes
  <2>2. Part(flat, k, EntryWritten(entries[i])) /\ EntryWritten(entries[i]) \in Seq(Byte)
    BY <1>2, <1>4
  <2> HIDE DEF k
  <2>3. Part(all, 3 + k, EntryWritten(entries[i]))
    <3>1. Len(all) \in Nat
      BY <1>8, LenProperties
    <3> QED
      BY <1>4, <1>8, <2>1, <2>2, <3>1, PartOfPart
  <2> QED
    BY <2>1, <2>3
<1>11. EntryAt(Len(entries) + 1) = 3 + Len(entries) * EntryBytes
  BY <1>1 DEF EntryAt, EntryBytes, PlayerDataBytes, SpecificIconBytes
<1> QED
  BY <1>4, <1>8, <1>9, <1>10, <1>11 DEF count

LEMMA EntryRead ==
  ASSUME NEW entries \in Levels, NEW i \in 1..Len(entries), NEW reader \in BOOLEAN
  PROVE  LET bytes == WriteLevelData(entries)
         IN /\ ReadInt(bytes, EntryAt(i), 4, reader) = entries[i].id
            /\ DecodePlayerData(bytes, EntryAt(i) + 4, reader, NumberToGm) = entries[i].data
            /\ KnownModes(bytes, EntryAt(i) + 4)
<1> DEFINE bytes == WriteLevelData(entries)
           piece == EntryWritten(entries[i])
           id == BytesOf(entries[i].id, 4)
           data == EncodePlayerData(entries[i].data, FALSE)
<1>1. bytes \in Seq(Byte) /\ EntryAt(i) \in Nat /\ Part(bytes, EntryAt(i), piece)
  <2> HIDE DEF bytes
  <2> QED
    BY LevelEncoded DEF bytes
<1>2. entries[i] \in Players
  BY ElementOfSeq DEF Levels
<1>3. entries[i].id \in Numbers /\ entries[i].data \in PlayersData
  BY <1>2 DEF Players
<1>4. id \in Seq(Byte) /\ data \in Seq(Byte) /\ Len(bytes) \in Nat
  <2>1. id \in Seq(Byte) /\ Len(bytes) \in Nat
    BY <1>1, <1>3, FourBytes, LenProperties
  <2> HIDE DEF data
  <2>2. data \in Seq(Byte)
    BY <1>3, DataEncoded DEF data
  <2> QED
    BY <2>1, <2>2
<1>5. piece \in Seq(Byte) /\ Part(piece, 0, id) /\ Part(piece, 4, data)
  <2> HIDE DEF piece
  <2> QED
    BY <1>2, EntryEncoded DEF piece
<1> HIDE DEF bytes, piece, id, data
<1>6. Part(bytes, EntryAt(i) + 0, id) /\ Part(bytes, EntryAt(i) + 4, data)
  BY <1>1, <1>4, <1>5, PartOfPart
<1>7. ReadInt(bytes, EntryAt(i), 4, reader) = entries[i].id
  BY <1>1, <1>3, <1>6, IntRead DEF id
<1>8. /\ DecodePlayerData(bytes, EntryAt(i) + 4, reader, NumberToGm) = entries[i].data
      /\ KnownModes(bytes, EntryAt(i) + 4)
  <2>1. EntryAt(i) + 4 \in Nat
    BY <1>1
  <2> QED
    BY <1>1, <1>3, <1>6, <2>1, DataRead DEF data
<1> QED
  BY <1>7, <1>8 DEF bytes

(* Of two numbers of entries with one id there is no more than one.        *)
LEMMA OnlyOneFound ==
  ASSUME NEW entries \in Levels, NEW i \in 1..Len(entries)
  PROVE  SelectInSeq([j \in 1..Len(entries) |-> entries[j].id],
                     LAMBDA k : k = entries[i].id) = i
<1> DEFINE ids == [j \in 1..Len(entries) |-> entries[j].id]
           Found == {j \in 1..Len(ids) : ids[j] = entries[i].id}
<1>1. Len(entries) \in Nat /\ DOMAIN entries = 1..Len(entries)
  BY LenProperties DEF Levels
<1>2. Len(ids) = Len(entries)
  BY <1>1
<1>3. Found = {i}
  BY <1>1, <1>2 DEF Levels
<1>4. Min({i}) = i
  BY DEF Min
<1>5. Found # {}
  BY <1>3
<1>6. SelectInSeq(ids, LAMBDA k : k = entries[i].id) = Min(Found)
  BY <1>5 DEF SelectInSeq
<1> QED
  BY <1>3, <1>4, <1>6

(* What is read is the data of the players there are, but for the omitted. *)
LevelOf(read, entries, omitted) ==
  /\ DOMAIN read = {entries[i].id : i \in 1..Len(entries)} \ omitted
  /\ \A i \in 1..Len(entries) :
       entries[i].id \in DOMAIN read => read[entries[i].id] = entries[i].data
  /\ read = [id \in DOMAIN read |-> read[id]]

(* What is read of a level is what each of its players sent, whatever the  *)
(* client's machine; all of them but the client itself, which sees itself  *)
(* only in debug mode.                                                     *)
THEOREM LevelsRead ==
  ASSUME NEW entries \in Levels, NEW accountId, NEW debug \in BOOLEAN,
         NEW reader \in BOOLEAN
  PROVE  LevelOf(ReadLevelData(WriteLevelData(entries), accountId, debug, reader), entries,
                 IF debug THEN {} ELSE {accountId})
<1> DEFINE bytes == WriteLevelData(entries)
           n == Len(entries)
           ids == [i \in 1..n |-> entries[i].id]
           Ids == {entries[i].id : i \in 1..n} \ (IF debug THEN {} ELSE {accountId})
           First(id) == SelectInSeq(ids, LAMBDA j : j = id)
           read == [id \in Ids |-> DecodePlayerData(bytes, EntryAt(First(id)) + 4, reader,
                                                    NumberToGm)]
<1>1. n \in Nat /\ n \in Shorts
  BY LenProperties DEF Levels
<1>2. bytes \in Seq(Byte) /\ Len(bytes) = EntryAt(n + 1) /\ Part(bytes, 1, BytesOf(n, 2))
  <2> HIDE DEF bytes
  <2> QED
    BY LevelEncoded DEF bytes
<1>3. ReadInt(bytes, 1, 2, reader) = n
  <2> HIDE DEF bytes, n
  <2> QED
    BY <1>1, <1>2, IntRead
<1>4. \A i \in 1..n :
        /\ ReadInt(bytes, EntryAt(i), 4, reader) = entries[i].id
        /\ DecodePlayerData(bytes, EntryAt(i) + 4, reader, NumberToGm) = entries[i].data
        /\ KnownModes(bytes, EntryAt(i) + 4)
  BY EntryRead
<1>5. ~(Len(bytes) < 3) /\ ~(Len(bytes) < EntryAt(n + 1))
  BY <1>1, <1>2 DEF EntryAt, EntryBytes, PlayerDataBytes, SpecificIconBytes
<1>6. [i \in 1..n |-> ReadInt(bytes, EntryAt(i), 4, reader)] = ids
      /\ {ReadInt(bytes, EntryAt(i), 4, reader) : i \in 1..n}
           = {entries[i].id : i \in 1..n}
  BY <1>4
<1>7. ReadLevelData(bytes, accountId, debug, reader) = read
  <2> HIDE DEF bytes, n, ids
  <2> QED
    BY <1>3, <1>4, <1>5, <1>6 DEF ReadLevelData
<1>8. \A i \in 1..n : First(entries[i].id) = i
  BY OnlyOneFound
<1> HIDE DEF bytes, First
<1>9. \A i \in 1..n : entries[i].id \in Ids => read[entries[i].id] = entries[i].data
  BY <1>4, <1>8
<1>10. DOMAIN read = Ids /\ read = [id \in DOMAIN read |-> read[id]]
  OBVIOUS
<1> HIDE DEF read
<1> QED
  BY <1>7, <1>9, <1>10 DEF bytes, LevelOf

(* A packet of which bytes are missing at the end is not read, wherever it *)
(* breaks off.                                                             *)
THEOREM NothingReadCutShort ==
  ASSUME NEW entries \in Levels, NEW accountId, NEW debug \in BOOLEAN,
         NEW reader \in BOOLEAN, NEW length \in 0..(Len(WriteLevelData(entries)) - 1)
  PROVE  ReadLevelData(SubSeq(WriteLevelData(entries), 1, length), accountId, debug, reader)
           = Unreadable
<1> DEFINE bytes == WriteLevelData(entries)
           cut == SubSeq(bytes, 1, length)
           n == Len(entries)
<1>1. n \in Nat /\ n \in Shorts
  BY LenProperties DEF Levels
<1>2. bytes \in Seq(Byte) /\ Len(bytes) = EntryAt(n + 1) /\ Part(bytes, 1, BytesOf(n, 2))
  <2> HIDE DEF bytes
  <2> QED
    BY LevelEncoded DEF bytes
<1> HIDE DEF bytes
<1>3. cut \in Seq(Byte) /\ Len(cut) = length /\ length < Len(bytes) /\ length \in Nat
      /\ \A i \in 1..length : cut[i] = bytes[i]
  <2>1. Len(bytes) \in Nat /\ length \in Nat /\ length < Len(bytes)
    BY <1>2, LenProperties DEF bytes
  <2>2. \A i \in 1..length : bytes[i] \in Byte
    BY <1>2, <2>1, ElementOfSeq
  <2>3. CASE length = 0
    BY <2>1, <2>3
  <2>4. CASE length # 0
    BY <1>2, <2>1, <2>2, <2>4
  <2> QED
    BY <2>1, <2>3, <2>4
<1> HIDE DEF cut
<1>4. CASE length < 3
  BY <1>3, <1>4 DEF ReadLevelData, cut, bytes
<1>5. CASE ~(length < 3)
  <2>1. Part(cut, 1, BytesOf(n, 2))
    <3>1. Len(BytesOf(n, 2)) = 2
      BY <1>1, TwoBytes
    <3>2. QED
      <4>1. \A i \in 1..2 : 1 + i \in 1..length
        BY <1>3, <1>5
      <4>2. \A i \in 1..2 : cut[1 + i] = bytes[1 + i] /\ bytes[1 + i] = BytesOf(n, 2)[i]
        BY <1>2, <1>3, <3>1, <4>1 DEF Part
      <4>3. 1 + Len(BytesOf(n, 2)) <= Len(cut)
        <5> DEFINE wide == Len(BytesOf(n, 2))
                   long == Len(cut)
        <5>1. long = length /\ length >= 3 /\ length \in Nat /\ wide = 2
          BY <1>3, <1>5, <3>1
        <5> HIDE DEF wide, long
        <5>2. 1 + wide <= long
          BY <5>1
        <5> QED
          BY <5>2 DEF wide, long
      <4> QED
        BY <3>1, <4>2, <4>3 DEF Part
  <2>2. ReadInt(cut, 1, 2, reader) = n
    <3> HIDE DEF n
    <3> QED
      BY <1>1, <1>3, <2>1, IntRead
  <2>3. Len(cut) < EntryAt(n + 1)
    BY <1>2, <1>3
  <2>4. ReadLevelData(cut, accountId, debug, reader) = Unreadable
    <3> HIDE DEF n
    <3> QED
      BY <1>3, <1>5, <2>2, <2>3 DEF ReadLevelData
  <2> QED
    BY <2>4 DEF cut, bytes
<1> QED
  BY <1>4, <1>5

-----------------------------------------------------------------------------
(* A player's icons and name. *)
LEMMA FieldsAreNumbers ==
  ASSUME NEW a \in AccountsData
  PROVE  \A i \in 1..10 : a[IconFields[i]] \in Numbers
BY DEF AccountsData, IconFields

(* No two fields have one name.                                            *)
LEMMA FieldFound ==
  ASSUME NEW i \in 1..10
  PROVE  SelectInSeq(IconFields, LAMBDA g : g = IconFields[i]) = i
<1>1. {j \in 1..Len(IconFields) : IconFields[j] = IconFields[i]} = {i}
  BY DEF IconFields
<1>2. Min({i}) = i
  BY DEF Min
<1> QED
  BY <1>1, <1>2 DEF SelectInSeq

LEMMA AccountEncoded ==
  ASSUME NEW a \in AccountsData, NEW le \in BOOLEAN,
         NEW all, all = EncodeAccountData(a, le)
  PROVE  /\ all \in Seq(Byte) /\ Len(all) = 45 + Len(a.name)
         /\ \A i \in 1..10 : Part(all, (i - 1) * 4, BytesOf(a[IconFields[i]], 4))
         /\ all[41] = IF a.glow THEN 1 ELSE 0
         /\ Part(all, 41, BytesOf(Len(a.name), 4)) /\ Part(all, 45, a.name)
<1> DEFINE pieces == [i \in DOMAIN IconFields |->
                        WriteNumber(BytesOf(a[IconFields[i]], 4), le)]
           flat == FlattenSeq(pieces)
           glow == <<IF a.glow THEN 1 ELSE 0>>
           length == BytesOf(Len(a.name), 4)
           string == length \o a.name
           head == flat \o glow
<1>1. \A i \in 1..10 : /\ BytesOf(a[IconFields[i]], 4) \in Seq(Byte)
                       /\ Len(BytesOf(a[IconFields[i]], 4)) = 4
  BY FieldsAreNumbers, FourBytes
<1>2. a.name \in Seq(Byte) /\ Len(a.name) \in Numbers
  BY DEF AccountsData
<1>3. length \in Seq(Byte) /\ Len(length) = 4
  BY <1>2, FourBytes
<1>4. DOMAIN IconFields = 1..10
  BY DEF IconFields
<1>5. \A i \in 1..10 : pieces[i] = BytesOf(a[IconFields[i]], 4)
  <2> SUFFICES ASSUME NEW i \in 1..10
               PROVE  pieces[i] = BytesOf(a[IconFields[i]], 4)
    OBVIOUS
  <2>1. pieces[i] = WriteNumber(BytesOf(a[IconFields[i]], 4), le)
    BY <1>4
  <2> QED
    BY <1>1, <2>1, WrittenAsIs
<1>6. pieces \in Seq(Seq(Byte)) /\ Len(pieces) = 10
  <2> DEFINE count == 10
  <2>1. pieces \in [1..count -> Seq(Byte)] /\ count \in Nat
    BY <1>1, <1>4, <1>5
  <2> HIDE DEF pieces, count
  <2>2. pieces \in Seq(Seq(Byte)) /\ Len(pieces) = count
    BY <2>1
  <2> QED
    BY <2>2 DEF count
<1> HIDE DEF pieces
<1>7. /\ flat \in Seq(Byte) /\ Len(flat) = 40
      /\ \A i \in 1..10 : Part(flat, (i - 1) * 4, BytesOf(a[IconFields[i]], 4))
  <2>1. 4 \in Nat /\ \A i \in 1..Len(pieces) : Len(pieces[i]) = 4
    BY <1>1, <1>5, <1>6
  <2> HIDE DEF flat
  <2>2. /\ flat \in Seq(Byte) /\ Len(flat) = Len(pieces) * 4
        /\ \A i \in 1..Len(pieces) : Part(flat, (i - 1) * 4, pieces[i])
    BY <1>6, <2>1, FlattenFixed DEF flat
  <2> QED
    BY <1>5, <1>6, <2>2
<1>8. glow \in Seq(Byte) /\ Len(glow) = 1 /\ glow[1] = IF a.glow THEN 1 ELSE 0
  <2>1. (IF a.glow THEN 1 ELSE 0) \in Byte
    BY DEF Byte
  <2> QED
    BY <2>1
<1>9. all = head \o string
  <2>1. WriteNumber(length, le) = length
    BY <1>3, WrittenAsIs
  <2> HIDE DEF length
  <2> QED
    BY <2>1 DEF EncodeAccountData, WriteString, pieces, length
<1> HIDE DEF flat, glow, length, string, head
<1>10. /\ string \in Seq(Byte) /\ Len(string) = 4 + Len(a.name)
       /\ Part(string, 0, length) /\ Part(string, 4, a.name)
  <2>1. /\ string \in Seq(Byte) /\ Len(string) = Len(length) + Len(a.name)
        /\ Part(string, 0, length) /\ Part(string, Len(length), a.name)
    BY <1>2, <1>3, ConcatParts DEF string
  <2> QED
    BY <1>3, <2>1
<1>11. /\ head \in Seq(Byte) /\ Len(head) = 41 /\ Part(head, 40, glow)
       /\ \A i \in 1..10 : Part(head, (i - 1) * 4, BytesOf(a[IconFields[i]], 4))
  <2>1. /\ head \in Seq(Byte) /\ Len(head) = Len(flat) + Len(glow)
        /\ Part(head, Len(flat), glow)
    BY <1>7, <1>8, ConcatParts DEF head
  <2>2. ASSUME NEW i \in 1..10
        PROVE  Part(head, (i - 1) * 4, BytesOf(a[IconFields[i]], 4))
    <3>1. (i - 1) * 4 \in Nat
      OBVIOUS
    <3> QED
      BY <1>1, <1>7, <1>8, <3>1, PartOfLonger DEF head
  <2> QED
    BY <1>7, <1>8, <2>1, <2>2
<1>12. all \in Seq(Byte) /\ Len(all) = 41 + Len(string) /\ Part(all, 41, string)
  <2>1. all \in Seq(Byte) /\ Len(all) = Len(head) + Len(string) /\ Part(all, Len(head), string)
    BY ZenonT(40), <1>9, <1>10, <1>11, ConcatParts
  <2> QED
    BY <1>11, <2>1
<1>13. ASSUME NEW i \in 1..10
       PROVE  Part(all, (i - 1) * 4, BytesOf(a[IconFields[i]], 4))
  <2>1. (i - 1) * 4 \in Nat
    OBVIOUS
  <2> QED
    BY <1>1, <1>9, <1>10, <1>11, <2>1, PartOfLonger
<1>14. all[41] = glow[1]
  <2>1. Part(all, 40, glow)
    BY <1>8, <1>9, <1>10, <1>11, PartOfLonger
  <2>2. all[40 + 1] = glow[1]
    BY <1>8, <2>1 DEF Part
  <2> QED
    BY <2>2
<1>15. Part(all, 41 + 0, length) /\ Part(all, 41 + 4, a.name)
  <2>1. Len(all) \in Nat
    BY <1>12, LenProperties
  <2> QED
    BY <1>2, <1>3, <1>10, <1>12, <2>1, PartOfPart
<1> QED
  BY <1>2, <1>8, <1>10, <1>12, <1>13, <1>14, <1>15, LenProperties DEF length

LEMMA NotTooShort ==
  ASSUME NEW n \in Nat, NEW l, l = 45 + n
  PROVE  ~(l < 45 \/ l < 45 + n)
OBVIOUS

LEMMA AccountRead ==
  ASSUME NEW a \in AccountsData, NEW le \in BOOLEAN, NEW reader \in BOOLEAN
  PROVE  DecodeAccountData(EncodeAccountData(a, le), reader) = a
<1> DEFINE bytes == EncodeAccountData(a, le)
           n == Len(a.name)
<1>1. /\ bytes \in Seq(Byte) /\ Len(bytes) = 45 + n
      /\ \A i \in 1..10 : Part(bytes, (i - 1) * 4, BytesOf(a[IconFields[i]], 4))
      /\ bytes[41] = IF a.glow THEN 1 ELSE 0
      /\ Part(bytes, 41, BytesOf(n, 4)) /\ Part(bytes, 45, a.name)
  <2> HIDE DEF bytes
  <2> QED
    BY AccountEncoded DEF bytes
<1>2. a.name \in Seq(Byte) /\ n \in Numbers /\ a.glow \in BOOLEAN
  BY DEF AccountsData
<1>3. n \in Nat
  BY <1>2, LenProperties
<1> HIDE DEF bytes
<1>4. ReadInt(bytes, 41, 4, reader) = n
  <2> DEFINE at == 41
  <2>1. at \in Nat /\ Part(bytes, at, BytesOf(n, 4))
    BY <1>1
  <2> HIDE DEF at, n
  <2>2. ReadInt(bytes, at, 4, reader) = n
    BY SMTT(30), <1>1, <1>2, <2>1, IntRead
  <2> QED
    BY <2>2 DEF at
<1>5. ASSUME NEW i \in 1..10
      PROVE  ReadInt(bytes, 4 * (i - 1), 4, reader) = a[IconFields[i]]
  <2>1. 4 * (i - 1) \in Nat /\ 4 * (i - 1) = (i - 1) * 4
    OBVIOUS
  <2>2. a[IconFields[i]] \in Numbers /\ Part(bytes, (i - 1) * 4, BytesOf(a[IconFields[i]], 4))
    BY <1>1, FieldsAreNumbers
  <2> QED
    BY <1>1, <2>1, <2>2, IntRead
<1>6. SubSeq(bytes, 45 + 1, 45 + n) = a.name
  <2>1. SubSeq(bytes, 45 + 1, 45 + n) = [i \in 1..n |-> bytes[45 + i]]
    BY <1>1, <1>3
  <2>2. \A i \in 1..n : bytes[45 + i] = a.name[i]
    BY <1>1 DEF Part
  <2>3. a.name = [i \in 1..n |-> a.name[i]]
    BY <1>2, LenProperties
  <2> QED
    BY <2>1, <2>2, <2>3
<1> DEFINE Number(f) ==
             ReadInt(bytes, 4 * (SelectInSeq(IconFields, LAMBDA g : g = f) - 1), 4, reader)
           Field(f) == CASE f = "glow" -> bytes[41] = 1
                         [] f = "name" -> SubSeq(bytes, 45 + 1, 45 + n)
                         [] OTHER -> Number(f)
           fields == ToSet(IconFields) \cup {"glow", "name"}
<1>7. ToSet(IconFields) = {"cube", "ship", "ball", "ufo", "wave", "robot", "spider",
                           "color1", "color2", "deathEffect"}
  BY DEF ToSet, IconFields
<1>8. \A f \in ToSet(IconFields) : Number(f) = a[f]
  <2> DEFINE numbers == [f \in ToSet(IconFields) |-> Number(f)]
  <2>1. ASSUME NEW i \in 1..10
        PROVE  numbers[IconFields[i]] = a[IconFields[i]]
    <3>1. IconFields[i] \in ToSet(IconFields)
      BY DEF ToSet, IconFields
    <3>2. numbers[IconFields[i]] = ReadInt(bytes, 4 * (i - 1), 4, reader)
      BY <3>1, FieldFound
    <3> QED
      BY <1>5, <3>2
  <2>2. \A f \in ToSet(IconFields) : \E i \in 1..10 : f = IconFields[i]
    BY DEF ToSet, IconFields
  <2>3. \A f \in ToSet(IconFields) : numbers[f] = Number(f)
    OBVIOUS
  <2> HIDE DEF numbers
  <2>4. \A f \in ToSet(IconFields) : numbers[f] = a[f]
    BY <2>1, <2>2
  <2> HIDE DEF Number
  <2> QED
    BY <2>3, <2>4
<1>9. DecodeAccountData(bytes, reader) = [f \in fields |-> Field(f)]
  <2>1. AccountDataBytes = 45
    BY DEF AccountDataBytes, IconFields
  <2> HIDE DEF n
  <2>2. ~(Len(bytes) < 45 \/ Len(bytes) < 45 + n)
    <3> HIDE DEF Number, Field, fields
    <3> QED
      BY <1>1, <1>3, NotTooShort
  <2> QED
    BY <1>4, <2>1, <2>2 DEF DecodeAccountData
<1>10. \A f \in fields : Field(f) = a[f]
  <2> SUFFICES ASSUME NEW f \in fields
               PROVE  Field(f) = a[f]
    OBVIOUS
  <2>1. CASE f = "glow"
    <3>1. (bytes[41] = 1) = a.glow
      BY SMTT(30), <1>1, <1>2
    <3> QED
      BY <2>1, <3>1
  <2>2. CASE f = "name"
    BY <1>6, <2>2
  <2>3. CASE f \in ToSet(IconFields)
    <3>1. Field(f) = Number(f)
      BY <1>7, <2>3
    <3> QED
      BY <1>8, <2>3, <3>1
  <2> QED
    BY <2>1, <2>2, <2>3
<1>11. a = [f \in fields |-> a[f]]
  BY <1>7 DEF AccountsData
<1> QED
  BY <1>9, <1>10, <1>11 DEF bytes

(* All icons of all players are relayed, between any two machines.         *)
THEOREM AllIconsRelayed == IconsRelayed(AccountsData)
BY AccountRead DEF IconsRelayed

-----------------------------------------------------------------------------
(* The properties, of any samples. *)
LEMMA PairIsLevel ==
  ASSUME NEW d \in PlayersData, NEW e \in PlayersData
  PROVE  /\ TwoPlayers(d, e) \in Levels /\ Len(TwoPlayers(d, e)) = 2
         /\ TwoPlayers(d, e)[1] = [id |-> 1, data |-> d]
         /\ TwoPlayers(d, e)[2] = [id |-> 2, data |-> e]
<1> DEFINE one == [id |-> 1, data |-> d]
           two == [id |-> 2, data |-> e]
           both == TwoPlayers(d, e)
<1>1. one \in Players /\ two \in Players /\ one.id # two.id
  BY DEF Players, Numbers
<1>2. both = <<one, two>>
  BY DEF TwoPlayers
<1> HIDE DEF one, two, both
<1>3. both \in Seq(Players) /\ Len(both) = 2 /\ both[1] = one /\ both[2] = two
      /\ DOMAIN both = {1, 2}
  BY <1>1, <1>2
<1>4. 2 \in Shorts
  BY DEF Shorts
<1>5. both \in Levels
  BY <1>1, <1>3, <1>4 DEF Levels
<1> QED
  BY <1>3, <1>5 DEF one, two, both

LEMMA AllPairsRead == BothRead(PlayersData)
<1> SUFFICES ASSUME NEW d \in PlayersData, NEW e \in PlayersData, NEW self \in 1..3,
                    NEW receiver \in BOOLEAN
             PROVE  ReadLevelData(WriteLevelData(TwoPlayers(d, e)), self, FALSE, receiver)
                      = [id \in {1, 2} \ {self} |-> TwoPlayers(d, e)[id].data]
  BY DEF BothRead
<1> DEFINE both == TwoPlayers(d, e)
           read == ReadLevelData(WriteLevelData(both), self, FALSE, receiver)
<1>1. /\ both \in Levels /\ Len(both) = 2
      /\ both[1] = [id |-> 1, data |-> d] /\ both[2] = [id |-> 2, data |-> e]
  BY PairIsLevel
<1> HIDE DEF both
<1>2. \A i \in 1..2 : both[i].id = i
  BY <1>1
<1>3. /\ DOMAIN read = {both[i].id : i \in 1..2} \ {self}
      /\ \A i \in 1..2 : both[i].id \in DOMAIN read => read[both[i].id] = both[i].data
      /\ read = [id \in DOMAIN read |-> read[id]]
  <2>1. PICK debug \in BOOLEAN : ~debug
    OBVIOUS
  <2>2. debug = FALSE
    BY <2>1
  <2>3. LevelOf(ReadLevelData(WriteLevelData(both), self, debug, receiver), both,
                IF debug THEN {} ELSE {self})
    BY <1>1, LevelsRead
  <2>4. LevelOf(read, both, {self})
    BY <2>1, <2>2, <2>3
  <2> HIDE DEF read
  <2> QED
    BY <1>1, <2>4 DEF LevelOf
<1> HIDE DEF read
<1>4. DOMAIN read = {1, 2} \ {self}
  BY <1>2, <1>3
<1>5. \A id \in {1, 2} \ {self} : read[id] = both[id].data
  BY <1>2, <1>3, <1>4
<1> QED
  BY <1>3, <1>4, <1>5 DEF read, both

LEMMA NoPairReadCutShort == NoneReadCutShort(PlayersData)
<1> SUFFICES ASSUME NEW d \in PlayersData, NEW receiver \in BOOLEAN,
                    NEW length \in 0..(Len(WriteLevelData(TwoPlayers(d, d))) - 1)
             PROVE  ReadLevelData(SubSeq(WriteLevelData(TwoPlayers(d, d)), 1, length), 3,
                                  FALSE, receiver) = Unreadable
  BY DEF NoneReadCutShort
<1>1. TwoPlayers(d, d) \in Levels
  BY PairIsLevel
<1> QED
  BY <1>1, NothingReadCutShort

(* The death effects there are. *)
THEOREM AllEffectsTimed == EffectsTimed(AccountsData)
<1> SUFFICES ASSUME NEW a \in AccountsData, NEW setting \in Settings, IsValid(a)
             PROVE  /\ AnimDelayIsSet(a.deathEffect, setting)
                    /\ LET effect == PlayDeathEffect(a.deathEffect, setting)
                       IN \A n \in effect.first : n <= effect.last
  BY DEF EffectsTimed
<1> DEFINE id == a.deathEffect
<1>1. id \in 1..17
  BY DEF IsValid, IconLimits
<1> HIDE DEF id
<1>2. DOMAIN Animations = 2..17
  BY DEF Animations
<1>3. CASE CircleOnly(id, setting)
  BY <1>3 DEF AnimDelayIsSet, PlayDeathEffect, Animation, id
<1>4. CASE ~CircleOnly(id, setting)
  <2>1. id \in 2..17
    BY <1>1, <1>4 DEF CircleOnly
  <2>2. PlayDeathEffect(id, setting) = Animations[id]
    BY <1>2, <1>4, <2>1 DEF PlayDeathEffect
  <2>3. Animations[id].first = FirstFrame(id) /\ Animations[id].last = LastFrame(id)
    BY <2>1 DEF Animations, Animation
  <2>4. FirstFrame(id) \subseteq 1..3 /\ LastFrame(id) \in 9..19
    BY <2>1 DEF FirstFrame, LastFrame
  <2>5. \A n \in FirstFrame(id) : n <= LastFrame(id)
    BY <2>4
  <2> QED
    BY <1>2, <2>1, <2>2, <2>3, <2>5 DEF AnimDelayIsSet, id
<1> QED
  BY <1>3, <1>4

LEMMA LookReceived ==
  ASSUME NEW d \in PlayersData
  PROVE  LookOf(Received(d)) = LookOf(d)
<1>1. Received(d) = d
  BY ServerKeepsData, ClientReadsData DEF Received
<1> QED
  BY <1>1

(* For any players' data and icons: what is encoded by one client and      *)
(* relayed by the server is what another one decodes, if Relayed is what   *)
(* the codec makes of a look, which is nothing else.                       *)
THEOREM RelayIsFaithful ==
  ASSUME \A look \in Looks : Relayed[look] = look
  PROVE  Spec => []RelayFaithful
<1>1. DataSent \subseteq PlayersData /\ DataCut \subseteq PlayersData
      /\ AccountsSent \subseteq AccountsData
  BY DataIsData
<1>2. DataRelayed(DataSent)
  BY <1>1, AllDataRelayed DEF DataRelayed
<1>3. IconsRelayed(AccountsSent)
  BY <1>1, AllIconsRelayed DEF IconsRelayed
<1>4. \A d \in DataSent : LookOf(d) \in Looks => Relayed[LookOf(d)] = LookOf(Received(d))
  BY <1>1, LookReceived
<1>5. BothRead(DataSent)
  BY <1>1, AllPairsRead DEF BothRead
<1>6. NoneReadCutShort(DataCut)
  BY <1>1, NoPairReadCutShort DEF NoneReadCutShort
<1>7. RelayFaithful
  BY <1>2, <1>3, <1>4, <1>5, <1>6 DEF RelayFaithful
<1> QED
  BY <1>7, PTL

(* Whatever icons the server lets through, their death effect is timed.    *)
THEOREM ValidEffectsHaveCases == Spec => []ValidEffectsTimed
<1>1. EffectsTimed(AccountsSent)
  BY AllEffectsTimed, DataIsData DEF EffectsTimed
<1>2. ValidEffectsTimed
  BY <1>1 DEF ValidEffectsTimed
<1> QED
  BY <1>2, PTL
=============================================================================
