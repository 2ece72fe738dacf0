----------------------------- MODULE ChatProofs -----------------------------
(***************************************************************************)
(* Proofs about Chat, for all players, texts and boxes: the lines of a     *)
(* message, the box, and, with the chat on, what the user has chosen.      *)
(* With it off a layer does not read the lists, and the first decision in  *)
(* the user list overwrites the saved ones.                                *)
(*                                                                         *)
(* What a recursive function computes is shown by an induction over a set  *)
(* of numbers, which the least-element theorem for well-founded relations  *)
(* gives (NatSetInduction).                                                *)
(***************************************************************************)
EXTENDS ChatProperties, SequenceTheorems, FiniteSetTheorems,
        WellFoundedInduction, TLAPS

-----------------------------------------------------------------------------
(* Induction. *)
Less == {pair \in Nat \X Nat : pair[1] < pair[2]}

LEMMA LessIsWellFounded == IsWellFoundedOn(Less, Nat)
  BY NatLessThanWellFounded DEF OpToRel, Less

LEMMA NatSetInduction ==
  ASSUME NEW S, 0 \in S, \A n \in Nat : n \in S => n + 1 \in S
  PROVE  Nat \subseteq S
<1> DEFINE T == Nat \ S
<1> SUFFICES ASSUME T # {} PROVE FALSE
  OBVIOUS
<1>1. PICK m \in T : \A n \in T : <<n, m>> \notin Less
  BY LessIsWellFounded, WFMin
<1>2. m - 1 \in Nat /\ m - 1 \notin S
  OBVIOUS
<1>3. <<m - 1, m>> \in Less
  BY <1>2 DEF Less
<1> QED
  BY <1>1, <1>2, <1>3

-----------------------------------------------------------------------------
(* The lines of a message. *)
Sums(text, n, sum) ==
  sum = [i \in 0..n |-> IF i = 0 THEN 0 ELSE sum[i - 1] + text[i]]

(* There are sums of a text's widths up to each character.                 *)
LEMMA SumsExist ==
  ASSUME NEW text \in Seq(Nat)
  PROVE  \A n \in 0..Len(text) : \E sum \in [0..n -> Nat] : Sums(text, n, sum)
<1> DEFINE S == {n \in Nat : n \in 0..Len(text) =>
                               \E sum \in [0..n -> Nat] : Sums(text, n, sum)}
<1>1. 0 \in S
  <2> DEFINE sum == [i \in 0..0 |-> 0]
  <2>1. sum \in [0..0 -> Nat] /\ Sums(text, 0, sum)
    BY DEF Sums
  <2> QED
    BY <2>1
<1>2. ASSUME NEW n \in Nat, n \in S PROVE n + 1 \in S
  <2> SUFFICES ASSUME n + 1 \in 0..Len(text)
               PROVE  \E sum \in [0..(n + 1) -> Nat] : Sums(text, n + 1, sum)
    OBVIOUS
  <2>1. PICK sum \in [0..n -> Nat] : Sums(text, n, sum)
    BY <1>2
  <2> DEFINE more == [i \in 0..(n + 1) |-> IF i = n + 1 THEN sum[n] + text[n + 1]
                                           ELSE sum[i]]
  <2>2. text[n + 1] \in Nat
    BY ElementOfSeq
  <2>3. more \in [0..(n + 1) -> Nat]
    BY <2>2
  <2>4. Sums(text, n + 1, more)
    BY <2>1 DEF Sums
  <2> QED
    BY <2>3, <2>4
<1> HIDE DEF S
<1>3. Nat \subseteq S
  BY <1>1, <1>2, NatSetInduction
<1> QED
  BY SMTT(30), <1>3 DEF S

(* A width is a number.                                                    *)
LEMMA WidthIsNat ==
  ASSUME NEW text \in Seq(Nat)
  PROVE  Width(text) \in Nat
<1> DEFINE sum == CHOOSE f : f = [i \in 0..Len(text) |->
                                    IF i = 0 THEN 0 ELSE f[i - 1] + text[i]]
<1>1. Width(text) = sum[Len(text)]
  BY DEF Width
<1>2. PICK given \in [0..Len(text) -> Nat] : Sums(text, Len(text), given)
  BY SumsExist, LenProperties
<1>3. Sums(text, Len(text), sum)
  BY <1>2 DEF Sums
<1> DEFINE S == {n \in Nat : n <= Len(text) => sum[n] \in Nat}
<1> HIDE DEF sum
<1>4. 0 \in S
  BY <1>3 DEF Sums
<1>5. ASSUME NEW n \in Nat, n \in S PROVE n + 1 \in S
  <2> SUFFICES ASSUME n + 1 <= Len(text) PROVE sum[n + 1] \in Nat
    OBVIOUS
  <2>1. text[n + 1] \in Nat /\ sum[n] \in Nat
    BY <1>5, ElementOfSeq
  <2>2. sum[n + 1] = sum[n] + text[n + 1]
    BY <1>3 DEF Sums
  <2> QED
    BY <2>1, <2>2
<1>6. Nat \subseteq S
  BY <1>4, <1>5, NatSetInduction
<1> QED
  BY <1>1, <1>6

(* What the binary search does with an interval.                           *)
Searched(text, maxSize, find, low, high) ==
  LET mid == low + (high - low) \div 2
  IN find[<<low, high>>] =
       IF low >= high THEN low
       ELSE IF Width(SubSeq(text, 1, mid)) < maxSize THEN find[<<mid + 1, high>>]
       ELSE find[<<low, mid>>]

LEMMA MidBetween ==
  ASSUME NEW low \in Nat, NEW high \in Nat, low < high
  PROVE  /\ low + (high - low) \div 2 \in low..(high - 1)
         /\ low + (high - low) \div 2 \in Nat
OBVIOUS

LEMMA LeastOrMore ==
  ASSUME NEW low \in Int, NEW high \in Int, NEW i \in low..high
  PROVE  i = low \/ i > low
OBVIOUS

(* There is a function that does it with all intervals: an interval is     *)
(* split into shorter ones.                                                *)
LEMMA SearchExists ==
  ASSUME NEW text \in Seq(Nat), NEW maxSize
  PROVE  \E find \in [(0..Len(text)) \X (0..Len(text)) -> 0..Len(text)] :
           \A low, high \in 0..Len(text) : Searched(text, maxSize, find, low, high)
<1> DEFINE Ends == 0..Len(text)
           Good(n, find) == \A low, high \in Ends :
             high - low <= n => Searched(text, maxSize, find, low, high)
           S == {n \in Nat : \E find \in [Ends \X Ends -> Ends] : Good(n, find)}
<1>0. Len(text) \in Nat
  BY LenProperties
<1>1. 0 \in S
  <2> DEFINE find == [ends \in Ends \X Ends |-> ends[1]]
  <2>1. find \in [Ends \X Ends -> Ends]
    OBVIOUS
  <2>2. ASSUME NEW low \in Ends, NEW high \in Ends, high - low <= 0
        PROVE  Searched(text, maxSize, find, low, high)
    BY <2>2 DEF Searched
  <2>3. Good(0, find)
    BY <2>2
  <2> HIDE DEF find
  <2> QED
    BY <2>1, <2>3
<1>2. ASSUME NEW n \in Nat, n \in S PROVE n + 1 \in S
  <2>1. PICK find \in [Ends \X Ends -> Ends] : Good(n, find)
    BY <1>2
  <2> DEFINE mid(low, high) == low + (high - low) \div 2
             longer == [ends \in Ends \X Ends |->
               IF ends[2] - ends[1] # n + 1 THEN find[ends]
               ELSE IF Width(SubSeq(text, 1, mid(ends[1], ends[2]))) < maxSize
                 THEN find[<<mid(ends[1], ends[2]) + 1, ends[2]>>]
                 ELSE find[<<ends[1], mid(ends[1], ends[2])>>]]
  <2>2. ASSUME NEW low \in Ends, NEW high \in Ends
        PROVE  /\ low < high => mid(low, high) \in low..(high - 1)
               /\ longer[<<low, high>>] \in Ends
               /\ high - low # n + 1 => longer[<<low, high>>] = find[<<low, high>>]
               /\ high - low = n + 1 =>
                    longer[<<low, high>>] =
                      IF Width(SubSeq(text, 1, mid(low, high))) < maxSize
                      THEN find[<<mid(low, high) + 1, high>>]
                      ELSE find[<<low, mid(low, high)>>]
    <3>1. low < high => mid(low, high) \in low..(high - 1)
      BY <1>0, MidBetween
    <3> HIDE DEF mid
    <3>2. /\ <<low, high>> \in Ends \X Ends
          /\ low < high => <<mid(low, high) + 1, high>> \in Ends \X Ends
                           /\ <<low, mid(low, high)>> \in Ends \X Ends
      BY <1>0, <3>1
    <3>3. longer[<<low, high>>] =
            IF high - low # n + 1 THEN find[<<low, high>>]
            ELSE IF Width(SubSeq(text, 1, mid(low, high))) < maxSize
              THEN find[<<mid(low, high) + 1, high>>]
              ELSE find[<<low, mid(low, high)>>]
      BY <3>2
    <3> HIDE DEF longer
    <3>4. longer[<<low, high>>] \in Ends
      <4>1. high - low = n + 1 => low < high
        OBVIOUS
      <4> QED
        BY <3>2, <3>3, <4>1
    <3> QED
      BY <3>1, <3>3, <3>4
  <2>3. longer \in [Ends \X Ends -> Ends]
    BY ZenonT(40), <2>2
  <2> HIDE DEF longer
  <2>4. ASSUME NEW low \in Ends, NEW high \in Ends, high - low <= n + 1
        PROVE  Searched(text, maxSize, longer, low, high)
    <3>1. CASE low >= high
      <4>1. high - low <= n /\ high - low # n + 1
        BY <1>0, <3>1
      <4>2. Searched(text, maxSize, find, low, high)
        BY <2>1, <4>1
      <4>3. longer[<<low, high>>] = low
        BY <2>2, <3>1, <4>1, <4>2 DEF Searched
      <4> QED
        BY <3>1, <4>3 DEF Searched
    <3>2. CASE low < high
      <4>1. mid(low, high) \in low..(high - 1)
        BY <2>2, <3>2
      <4> DEFINE m == mid(low, high)
      <4> HIDE DEF mid
      <4>2. /\ m \in Ends /\ m + 1 \in Ends
            /\ high - (m + 1) <= n /\ m - low <= n
        BY <1>0, <2>4, <4>1
      <4>3. /\ longer[<<m + 1, high>>] = find[<<m + 1, high>>]
            /\ longer[<<low, m>>] = find[<<low, m>>]
        <5>1. high - (m + 1) # n + 1 /\ m - low # n + 1
          BY SMTT(30), <1>0, <4>1, <4>2
        <5> QED
          BY <2>2, <4>2, <5>1
      <4>4. longer[<<low, high>>] =
              IF Width(SubSeq(text, 1, m)) < maxSize
              THEN find[<<m + 1, high>>] ELSE find[<<low, m>>]
        <5>1. CASE high - low = n + 1
          BY <2>2, <5>1
        <5>2. CASE high - low # n + 1
          <6>1. Searched(text, maxSize, find, low, high)
            BY <2>1, <2>4, <5>2
          <6>2. find[<<low, high>>] =
                  IF Width(SubSeq(text, 1, m)) < maxSize
                  THEN find[<<m + 1, high>>] ELSE find[<<low, m>>]
            BY <3>2, <6>1 DEF Searched, mid
          <6> QED
            BY <2>2, <5>2, <6>2
        <5> QED
          BY <5>1, <5>2
      <4> QED
        BY <3>2, <4>3, <4>4 DEF Searched, mid
    <3> QED
      BY <3>1, <3>2
  <2> QED
    BY <2>3, <2>4
<1>3. Len(text) \in S
  <2> HIDE DEF S
  <2> QED
    BY <1>0, <1>1, <1>2, NatSetInduction
<1>4. PICK find \in [Ends \X Ends -> Ends] : Good(Len(text), find)
  BY <1>3
<1>5. \A low, high \in Ends : high - low <= Len(text)
  BY <1>0
<1> QED
  BY <1>4, <1>5

(* The binary search ends at a length that is too wide, unless it is the   *)
(* last one, and the length before is not, unless there is none.           *)
LEMMA SearchFinds ==
  ASSUME NEW text \in Seq(Nat), NEW maxSize \in Int
  PROVE  LET length == FindLowerCharacterBound(text, maxSize)
         IN /\ length \in 0..Len(text)
            /\ length > 0 => Width(SubSeq(text, 1, length - 1)) < maxSize
            /\ length < Len(text) => ~(Width(SubSeq(text, 1, length)) < maxSize)
<1> DEFINE Ends == 0..Len(text)
           Wide(n) == ~(Width(SubSeq(text, 1, n)) < maxSize)
           Do(f, low, high) ==
             LET mid == low + (high - low) \div 2
             IN IF low >= high THEN low
                ELSE IF Width(SubSeq(text, 1, mid)) < maxSize
                  THEN f[<<mid + 1, high>>] ELSE f[<<low, mid>>]
           find == CHOOSE f : f = [bounds \in Ends \X Ends |-> Do(f, bounds[1], bounds[2])]
<1>0. Len(text) \in Nat
  BY LenProperties
<1>1. FindLowerCharacterBound(text, maxSize) = find[<<0, Len(text)>>]
  BY DEF FindLowerCharacterBound
<1>2. PICK given \in [Ends \X Ends -> Ends] :
        \A low, high \in Ends : Searched(text, maxSize, given, low, high)
  BY SearchExists
<1>3. given = [bounds \in Ends \X Ends |-> Do(given, bounds[1], bounds[2])]
  BY SMTT(30), <1>2 DEF Searched
<1>4. find = [bounds \in Ends \X Ends |-> Do(find, bounds[1], bounds[2])]
  BY <1>3
<1>5. \A low, high \in Ends : find[<<low, high>>] = Do(find, low, high)
  <2> SUFFICES ASSUME NEW low \in Ends, NEW high \in Ends
               PROVE  find[<<low, high>>] = Do(find, low, high)
    OBVIOUS
  <2> HIDE DEF find, Do
  <2>1. <<low, high>> \in Ends \X Ends /\ <<low, high>>[1] = low /\ <<low, high>>[2] = high
    OBVIOUS
  <2> QED
    BY <1>4, <2>1
<1> HIDE DEF find
<1> DEFINE Found(low, high) ==
             /\ find[<<low, high>>] \in low..high
             /\ find[<<low, high>>] > low => ~Wide(find[<<low, high>>] - 1)
             /\ find[<<low, high>>] < high => Wide(find[<<low, high>>])
           S == {n \in Nat : \A low, high \in Ends :
                   low <= high /\ high - low <= n => Found(low, high)}
<1>6. 0 \in S
  <2> SUFFICES ASSUME NEW low \in Ends, NEW high \in Ends, low <= high, high - low <= 0
               PROVE  Found(low, high)
    OBVIOUS
  <2>1. low = high
    BY <1>0
  <2>2. find[<<low, high>>] = low
    BY <1>0, <1>5, <2>1
  <2> HIDE DEF Wide
  <2> QED
    BY <1>0, <2>1, <2>2
<1>7. ASSUME NEW n \in Nat, n \in S PROVE n + 1 \in S
  <2> SUFFICES ASSUME NEW low \in Ends, NEW high \in Ends,
                      low <= high, high - low <= n + 1
               PROVE  Found(low, high)
    <3> HIDE DEF Found
    <3> QED
      OBVIOUS
  <2>1. CASE low >= high
    <3>1. low = high
      BY <1>0, <2>1
    <3>2. find[<<low, high>>] = low
      BY <1>0, <1>5, <3>1
    <3> HIDE DEF Wide
    <3> QED
      BY <1>0, <3>1, <3>2
  <2>2. CASE low < high
    <3> DEFINE mid == low + (high - low) \div 2
    <3>1. mid \in low..(high - 1)
      BY <1>0, <2>2, MidBetween
    <3>2. find[<<low, high>>] = IF Wide(mid) THEN find[<<low, mid>>] ELSE find[<<mid + 1, high>>]
      BY <1>5, <2>2
    <3> HIDE DEF mid, Wide
    <3>3. /\ mid \in Ends /\ mid + 1 \in Ends /\ mid + 1 <= high
          /\ mid - low <= n /\ high - (mid + 1) <= n
      BY <1>0, <3>1
    <3>4. Found(low, mid) /\ Found(mid + 1, high)
      <4> HIDE DEF Found
      <4> QED
        BY <1>0, <1>7, <3>1, <3>3
    <3>5. CASE Wide(mid)
      BY <1>0, <3>1, <3>2, <3>4, <3>5
    <3>6. CASE ~Wide(mid)
      <4>1. /\ find[<<low, high>>] \in (mid + 1)..high
            /\ find[<<low, high>>] > mid + 1 => ~Wide(find[<<low, high>>] - 1)
            /\ find[<<low, high>>] < high => Wide(find[<<low, high>>])
        BY <3>2, <3>4, <3>6
      <4>2. find[<<low, high>>] = mid + 1 => ~Wide(find[<<low, high>>] - 1)
        <5>1. (mid + 1) - 1 = mid
          BY <1>0, <3>1
        <5> QED
          BY <3>6, <5>1
      <4>3. find[<<low, high>>] \in low..high
        BY <1>0, <3>1, <4>1
      <4>4. find[<<low, high>>] = mid + 1 \/ find[<<low, high>>] > mid + 1
        <5>1. mid + 1 \in Int /\ high \in Int
          BY <1>0, <3>3
        <5> HIDE DEF Found
        <5> QED
          BY <4>1, <5>1, LeastOrMore
      <4>5. ~Wide(find[<<low, high>>] - 1)
        BY <4>1, <4>2, <4>4
      <4> QED
        BY <4>1, <4>3, <4>5
    <3> QED
      BY <3>5, <3>6
  <2> QED
    BY <1>0, <2>1, <2>2
<1>8. Len(text) \in S
  <2> HIDE DEF S
  <2> QED
    BY <1>0, <1>6, <1>7, NatSetInduction
<1>9. Found(0, Len(text))
  <2> HIDE DEF Found
  <2> QED
    BY <1>0, <1>8
<1> QED
  BY <1>0, <1>1, <1>9

(* A split loses nothing.                                                  *)
LEMMA SplitParts ==
  ASSUME NEW text \in Seq(Nat), NEW n \in 0..Len(text)
  PROVE  LET parts == SplitAt(text, n)
         IN /\ parts[1] \in Seq(Nat) /\ parts[2] \in Seq(Nat)
            /\ parts[1] \o parts[2] = text
            /\ parts[1] = SubSeq(text, 1, n)
            /\ parts[1] # <<>> => n > 0
            /\ n > 0 => Front(parts[1]) = SubSeq(text, 1, n - 1)
            /\ parts[2] # <<>> => n < Len(text)
<1>0. Len(text) \in Nat /\ n \in Nat
  BY LenProperties
<1>1. /\ SplitAt(text, n)[1] = SubSeq(text, 1, n)
      /\ SplitAt(text, n)[2] = SubSeq(text, n + 1, Len(text))
  BY DEF SplitAt
<1>2. \A i \in 1..Len(text) : text[i] \in Nat
  BY ElementOfSeq
<1>3. SubSeq(text, 1, n) \in Seq(Nat) /\ Len(SubSeq(text, 1, n)) = n
  BY <1>0, <1>2, SubSeqProperties
<1>4. SubSeq(text, n + 1, Len(text)) \in Seq(Nat)
  BY <1>0, <1>2, SubSeqProperties
<1>5. SubSeq(text, 1, n) \o SubSeq(text, n + 1, Len(text)) = text
  <2>1. SubSeq(text, 1, Len(text)) = text
    BY SubSeqFull
  <2>2. 1 \in 1..(Len(text) + 1) /\ n \in (1 - 1)..Len(text) /\ Len(text) \in n..Len(text)
    BY <1>0
  <2>3. SubSeq(text, 1, n) \o SubSeq(text, n + 1, Len(text)) = SubSeq(text, 1, Len(text))
    BY <2>2, ConcatAdjacentSubSeq
  <2> QED
    BY <2>1, <2>3
<1>6. SubSeq(text, 1, n) # <<>> => n > 0
  BY <1>0, SubSeqEmpty
<1>7. n > 0 => Front(SubSeq(text, 1, n)) = SubSeq(text, 1, n - 1)
  <2> SUFFICES ASSUME n > 0
               PROVE  SubSeq(SubSeq(text, 1, n), 1, n - 1) = SubSeq(text, 1, n - 1)
    BY <1>3 DEF Front
  <2>1. \A i \in 1..n : SubSeq(text, 1, n)[i] = text[i]
    BY <1>0, <1>2, SubSeqProperties
  <2>2. /\ SubSeq(SubSeq(text, 1, n), 1, n - 1) \in Seq(Nat)
        /\ Len(SubSeq(SubSeq(text, 1, n), 1, n - 1)) = n - 1
        /\ \A i \in 1..(n - 1) :
             SubSeq(SubSeq(text, 1, n), 1, n - 1)[i] = SubSeq(text, 1, n)[i]
    <3>1. \A i \in 1..(n - 1) : SubSeq(text, 1, n)[i] \in Nat
      BY <1>0, <1>2, <2>1
    <3>2. n - 1 \in Nat
      BY <1>0
    <3> QED
      BY <3>1, <3>2, SubSeqProperties
  <2>3. /\ SubSeq(text, 1, n - 1) \in Seq(Nat)
        /\ Len(SubSeq(text, 1, n - 1)) = n - 1
        /\ \A i \in 1..(n - 1) : SubSeq(text, 1, n - 1)[i] = text[i]
    <3>1. \A i \in 1..(n - 1) : text[i] \in Nat
      BY <1>0, <1>2
    <3>2. n - 1 \in Nat
      BY <1>0
    <3> QED
      BY <3>1, <3>2, SubSeqProperties
  <2> QED
    BY <1>0, <2>1, <2>2, <2>3, SeqEqual
<1>8. SubSeq(text, n + 1, Len(text)) # <<>> => n < Len(text)
  BY <1>0, SubSeqEmpty
<1> QED
  BY <1>1, <1>3, <1>4, <1>5, <1>6, <1>7, <1>8

(* What the flattening of a few sequences is.                              *)
LEMMA FlattenOne == \A a : FlattenSeq(<<a>>) = a
  BY DEF FlattenSeq

LEMMA FlattenTwo ==
  ASSUME NEW a, NEW b
  PROVE  FlattenSeq(<<a, b>>) = a \o b
<1> DEFINE flat == CHOOSE f : f = [i \in 1..2 |->
                     IF i = 1 THEN <<a, b>>[i] ELSE f[i - 1] \o <<a, b>>[i]]
           given == [i \in 1..2 |-> IF i = 1 THEN a ELSE a \o b]
<1>1. given = [i \in 1..2 |-> IF i = 1 THEN <<a, b>>[i] ELSE given[i - 1] \o <<a, b>>[i]]
  OBVIOUS
<1>2. flat = [i \in 1..2 |-> IF i = 1 THEN <<a, b>>[i] ELSE flat[i - 1] \o <<a, b>>[i]]
  <2> HIDE DEF given
  <2> QED
    BY <1>1
<1>3. FlattenSeq(<<a, b>>) = flat[2]
  BY DEF FlattenSeq
<1> HIDE DEF flat
<1>4. \A i \in 1..2 : flat[i] = IF i = 1 THEN <<a, b>>[i] ELSE flat[i - 1] \o <<a, b>>[i]
  BY <1>2
<1>5. <<a, b>>[1] = a /\ <<a, b>>[2] = b /\ 2 - 1 = 1
  OBVIOUS
<1>6. flat[1] = a
  BY <1>4, <1>5
<1>7. flat[2] = flat[1] \o b
  BY <1>4, <1>5
<1> QED
  BY <1>3, <1>6, <1>7

LEMMA FlattenThree ==
  ASSUME NEW a, NEW b, NEW c, NEW all, all = (a \o b) \o c
  PROVE  FlattenSeq(<<a, b, c>>) = all
<1> DEFINE flat == CHOOSE f : f = [i \in 1..3 |->
                     IF i = 1 THEN <<a, b, c>>[i] ELSE f[i - 1] \o <<a, b, c>>[i]]
           given == [i \in 1..3 |-> IF i = 1 THEN a ELSE IF i = 2 THEN a \o b
                                    ELSE all]
<1>1. given = [i \in 1..3 |-> IF i = 1 THEN <<a, b, c>>[i]
                              ELSE given[i - 1] \o <<a, b, c>>[i]]
  OBVIOUS
<1>2. flat = [i \in 1..3 |-> IF i = 1 THEN <<a, b, c>>[i]
                             ELSE flat[i - 1] \o <<a, b, c>>[i]]
  <2> HIDE DEF given
  <2> QED
    BY <1>1
<1>3. FlattenSeq(<<a, b, c>>) = flat[3]
  BY DEF FlattenSeq
<1> HIDE DEF flat
<1>4. \A i \in 1..3 : flat[i] = IF i = 1 THEN <<a, b, c>>[i]
                                ELSE flat[i - 1] \o <<a, b, c>>[i]
  BY <1>2
<1>5. /\ <<a, b, c>>[1] = a /\ <<a, b, c>>[2] = b /\ <<a, b, c>>[3] = c
      /\ 2 - 1 = 1 /\ 3 - 1 = 2
  OBVIOUS
<1>6. flat[1] = a
  BY <1>4, <1>5
<1>7. flat[2] = flat[1] \o b
  BY <1>4, <1>5
<1>8. flat[3] = flat[2] \o c
  BY <1>4, <1>5
<1> QED
  BY <1>3, <1>6, <1>7, <1>8

(* A text that is cut where the search says.                               *)
LEMMA CutAtBound ==
  ASSUME NEW text \in Seq(Nat), NEW max \in Int
  PROVE  LET parts == SplitAt(text, FindLowerCharacterBound(text, max))
         IN  /\ parts[1] \in Seq(Nat) /\ parts[2] \in Seq(Nat)
             /\ parts[1] \o parts[2] = text
             /\ parts[1] # <<>> => Width(Front(parts[1])) < max
             /\ parts[2] # <<>> => Width(parts[1]) >= max
<1> DEFINE n == FindLowerCharacterBound(text, max)
           parts == SplitAt(text, n)
<1>1. /\ n \in 0..Len(text)
      /\ n > 0 => Width(SubSeq(text, 1, n - 1)) < max
      /\ n < Len(text) => ~(Width(SubSeq(text, 1, n)) < max)
  BY SearchFinds
<1> HIDE DEF n
<1>2. /\ parts[1] \in Seq(Nat) /\ parts[2] \in Seq(Nat)
      /\ parts[1] \o parts[2] = text
      /\ parts[1] = SubSeq(text, 1, n)
      /\ parts[1] # <<>> => n > 0
      /\ n > 0 => Front(parts[1]) = SubSeq(text, 1, n - 1)
      /\ parts[2] # <<>> => n < Len(text)
  BY <1>1, SplitParts
<1>3. Width(parts[1]) \in Nat
  BY <1>2, WidthIsNat
<1> HIDE DEF parts
<1>4. parts[1] # <<>> => Width(Front(parts[1])) < max
  BY <1>1, <1>2
<1>5. parts[2] # <<>> => ~(Width(parts[1]) < max)
  BY <1>1, <1>2
<1>6. parts[2] # <<>> => Width(parts[1]) >= max
  BY <1>3, <1>5
<1> QED
  BY <1>2, <1>4, <1>6 DEF parts, n

(* The lines of any message.                                               *)
LEMMA LinesOfAny ==
  ASSUME NEW text \in Seq(Nat), NEW sender
  PROVE  LinesOf(text, sender) /\ Len(MessageLines(text, sender)) \in 1..3
<1> DEFINE max == FirstLineWidth(sender)
           n == FindLowerCharacterBound(text, max)
           first == SplitAt(text, n)
           m == FindLowerCharacterBound(first[2], LineWidth)
           second == SplitAt(first[2], m)
<1>1. max \in Int /\ LineWidth \in Int
  BY WidthsAreNumbers DEF FirstLineWidth
<1>3. /\ first[1] \in Seq(Nat) /\ first[2] \in Seq(Nat)
      /\ first[1] \o first[2] = text
      /\ first[1] # <<>> => Width(Front(first[1])) < max
      /\ first[2] # <<>> => Width(first[1]) >= max
  <2> HIDE DEF max
  <2> QED
    BY <1>1, CutAtBound
<1>5. /\ second[1] \in Seq(Nat) /\ second[2] \in Seq(Nat)
      /\ second[1] \o second[2] = first[2]
      /\ second[1] # <<>> => Width(Front(second[1])) < LineWidth
      /\ second[2] # <<>> => Width(second[1]) >= LineWidth
  <2> HIDE DEF first
  <2> QED
    BY <1>1, <1>3, CutAtBound
<1>6. MessageLines(text, sender) =
        IF first[2] = <<>> THEN <<first[1]>>
        ELSE IF second[2] = <<>> THEN <<first[1], second[1]>>
        ELSE <<first[1], second[1], second[2]>>
  BY DEF MessageLines
<1> DEFINE lines == MessageLines(text, sender)
<1> HIDE DEF max, n, first, m, second, lines
<1>7. LinesOf(text, sender) <=>
        /\ FlattenSeq(lines) = text
        /\ \A i \in DOMAIN lines \cap {1, 2} :
             /\ lines[i] # <<>> => Width(Front(lines[i])) < <<max, LineWidth>>[i]
             /\ i < Len(lines) => Width(lines[i]) >= <<max, LineWidth>>[i]
  BY DEF LinesOf, lines, max
<1>8. CASE first[2] = <<>>
  <2>1. lines = <<first[1]>>
    BY <1>6, <1>8 DEF lines
  <2>2. FlattenSeq(lines) = text
    <3>1. first[1] \o <<>> = first[1]
      BY <1>3, ConcatEmptySeq
    <3> QED
      BY <1>3, <1>8, <2>1, <3>1, FlattenOne
  <2>3. lines[1] # <<>> => Width(Front(lines[1])) < max
    BY <1>3, <2>1
  <2>4. DOMAIN lines = {1} /\ Len(lines) = 1
    BY <2>1
  <2> QED
    BY <1>7, <2>2, <2>3, <2>4 DEF lines
<1>9. CASE first[2] # <<>> /\ second[2] = <<>>
  <2>1. lines = <<first[1], second[1]>>
    BY <1>6, <1>9 DEF lines
  <2>2. FlattenSeq(lines) = text
    <3>1. second[1] \o <<>> = second[1]
      BY <1>5, ConcatEmptySeq
    <3>2. first[2] = second[1]
      BY <1>5, <1>9, <3>1
    <3>3. FlattenSeq(lines) = first[1] \o second[1]
      BY <2>1, FlattenTwo
    <3> QED
      BY <1>3, <3>2, <3>3
  <2>3. /\ lines[1] # <<>> => Width(Front(lines[1])) < max
        /\ Width(lines[1]) >= max
        /\ lines[2] # <<>> => Width(Front(lines[2])) < LineWidth
    BY <1>3, <1>5, <1>9, <2>1
  <2>4. DOMAIN lines = {1, 2} /\ Len(lines) = 2
    BY <2>1
  <2> QED
    BY <1>7, <2>2, <2>3, <2>4 DEF lines
<1>10. CASE first[2] # <<>> /\ second[2] # <<>>
  <2>1. lines = <<first[1], second[1], second[2]>>
    BY <1>6, <1>10 DEF lines
  <2>2. FlattenSeq(lines) = text
    <3>1. (first[1] \o second[1]) \o second[2] = first[1] \o (second[1] \o second[2])
      <4>1. first[1] \in Seq(Nat) /\ second[1] \in Seq(Nat) /\ second[2] \in Seq(Nat)
        BY <1>3, <1>5
      <4>2. \A s, t, u \in Seq(Nat) : (s \o t) \o u = s \o (t \o u)
        BY SMTT(30), ConcatAssociative
      <4> QED
        BY <4>1, <4>2
    <3> QED
      <4>1. text = (first[1] \o second[1]) \o second[2]
        BY <1>3, <1>5, <3>1
      <4> QED
        BY <2>1, <4>1, FlattenThree
  <2>3. /\ lines[1] # <<>> => Width(Front(lines[1])) < max
        /\ Width(lines[1]) >= max
        /\ lines[2] # <<>> => Width(Front(lines[2])) < LineWidth
        /\ Width(lines[2]) >= LineWidth
    BY <1>3, <1>5, <1>10, <2>1
  <2>4. DOMAIN lines \cap {1, 2} = {1, 2} /\ Len(lines) = 3
    BY <2>1
  <2> QED
    BY <1>7, <2>2, <2>3, <2>4 DEF lines
<1> QED
  BY <1>8, <1>9, <1>10

(* A message is cut into lines as LinesFaithful says, whatever its text    *)
(* and the widths of the box and of the name are.                          *)
THEOREM LinesAreFaithful ==
  /\ \A text \in Seq(Nat), sender \in Players \cup {Self, Server} :
       LinesOf(text, sender)
  /\ Spec => []LinesFaithful
<1>1. \A text \in Seq(Nat), sender \in Players \cup {Self, Server} :
        LinesOf(text, sender)
  BY LinesOfAny
<1>2. UNION {[1..n -> 1..2] : n \in 0..6} \subseteq Seq(Nat)
  <2> SUFFICES ASSUME NEW n \in 0..6, NEW text \in [1..n -> 1..2]
               PROVE  text \in Seq(Nat)
    OBVIOUS
  <2>1. n \in Nat /\ text \in [1..n -> Nat]
    OBVIOUS
  <2> QED
    BY <2>1, SeqDef
<1>3. LinesFaithful
  BY <1>1, <1>2 DEF LinesFaithful
<1>4. Spec => []LinesFaithful
  BY <1>3, PTL
<1> QED
  BY <1>1, <1>4

-----------------------------------------------------------------------------
(* The messages of a frame, and the box. *)
Chosing(messages, n, passing) ==
  passing = [i \in 0..n |-> IF i = 0 THEN <<>>
                            ELSE IF Passes(messages[i]) THEN Append(passing[i - 1], messages[i])
                            ELSE passing[i - 1]]

LEMMA PassingExists ==
  ASSUME NEW S, NEW messages \in Seq(S)
  PROVE  \A n \in 0..Len(messages) : \E passing : Chosing(messages, n, passing)
<1> DEFINE T == {n \in Nat : n \in 0..Len(messages) =>
                               \E passing : Chosing(messages, n, passing)}
<1>1. 0 \in T
  <2> DEFINE passing == [i \in 0..0 |-> <<>>]
  <2>1. Chosing(messages, 0, passing)
    BY DEF Chosing
  <2> QED
    BY <2>1
<1>2. ASSUME NEW n \in Nat, n \in T PROVE n + 1 \in T
  <2> SUFFICES ASSUME n + 1 \in 0..Len(messages)
               PROVE  \E passing : Chosing(messages, n + 1, passing)
    OBVIOUS
  <2>1. PICK passing : Chosing(messages, n, passing)
    BY <1>2
  <2> DEFINE m == messages[n + 1]
             more == [i \in 0..(n + 1) |->
                        IF i # n + 1 THEN passing[i]
                        ELSE IF Passes(m) THEN Append(passing[n], m) ELSE passing[n]]
  <2>2. \A i \in 0..n : more[i] = passing[i]
    OBVIOUS
  <2>3. more[n + 1] = IF Passes(m) THEN Append(more[n], m) ELSE more[n]
    BY <2>2
  <2>4. \A i \in 0..n : passing[i] = IF i = 0 THEN <<>>
                            ELSE IF Passes(messages[i]) THEN Append(passing[i - 1], messages[i])
                            ELSE passing[i - 1]
    BY <2>1 DEF Chosing
  <2>5. ASSUME NEW i \in 0..(n + 1)
        PROVE  more[i] = IF i = 0 THEN <<>>
                         ELSE IF Passes(messages[i]) THEN Append(more[i - 1], messages[i])
                         ELSE more[i - 1]
    <3>1. CASE i = 0
      BY <2>2, <2>4, <3>1
    <3>2. CASE i \in 1..n
      BY <2>2, <2>4, <3>2
    <3>3. CASE i = n + 1
      <4>1. i - 1 = n /\ i # 0
        BY <3>3
      <4> HIDE DEF more
      <4> QED
        BY <2>3, <3>3, <4>1
    <3> QED
      BY <3>1, <3>2, <3>3
  <2>6. Chosing(messages, n + 1, more)
    BY <2>5 DEF Chosing
  <2> QED
    BY <2>6
<1> HIDE DEF T
<1>3. Nat \subseteq T
  BY <1>1, <1>2, NatSetInduction
<1> QED
  BY <1>3 DEF T

(* What is shown in a frame are messages of the queue that pass.           *)
LEMMA PassingPass ==
  ASSUME NEW S, NEW messages \in Seq(S)
  PROVE  Passing(messages) \in Seq({m \in S : Passes(m)})
<1> DEFINE Body(f) == [i \in 0..Len(messages) |->
             IF i = 0 THEN <<>>
             ELSE IF Passes(messages[i]) THEN Append(f[i - 1], messages[i])
             ELSE f[i - 1]]
           passing == CHOOSE f : f = Body(f)
           Good == {m \in S : Passes(m)}
<1>1. Passing(messages) = passing[Len(messages)]
  BY DEF Passing
<1>2. PICK given : Chosing(messages, Len(messages), given)
  BY PassingExists, LenProperties
<1>3. given = Body(given)
  BY <1>2 DEF Chosing
<1>4. passing = Body(passing)
  <2> HIDE DEF Body
  <2> QED
    BY <1>3
<1> HIDE DEF passing
<1> DEFINE T == {n \in Nat : n <= Len(messages) => passing[n] \in Seq(Good)}
<1>5. 0 \in T
  <2>1. passing[0] = <<>>
    BY <1>4, LenProperties
  <2> HIDE DEF Good
  <2> QED
    BY <2>1, EmptySeq
<1>6. ASSUME NEW n \in Nat, n \in T PROVE n + 1 \in T
  <2> SUFFICES ASSUME n + 1 <= Len(messages) PROVE passing[n + 1] \in Seq(Good)
    OBVIOUS
  <2>1. passing[n + 1] = IF Passes(messages[n + 1]) THEN Append(passing[n], messages[n + 1])
                         ELSE passing[n]
    <3>1. n + 1 \in 0..Len(messages) /\ n + 1 # 0 /\ (n + 1) - 1 = n
      BY LenProperties
    <3>2. \A i \in 0..Len(messages) :
            passing[i] = IF i = 0 THEN <<>>
                         ELSE IF Passes(messages[i]) THEN Append(passing[i - 1], messages[i])
                         ELSE passing[i - 1]
      BY <1>4
    <3> QED
      BY <3>1, <3>2
  <2>2. passing[n] \in Seq(Good) /\ messages[n + 1] \in S
    BY <1>6, ElementOfSeq
  <2>3. Passes(messages[n + 1]) => messages[n + 1] \in Good
    BY <2>2
  <2> HIDE DEF Good
  <2> QED
    BY <2>1, <2>2, <2>3, AppendProperties
<1> HIDE DEF T
<1>7. Nat \subseteq T
  BY <1>5, <1>6, NatSetInduction
<1> QED
  BY <1>1, <1>7, LenProperties DEF T

LEMMA PushAllFacts ==
  ASSUME NEW S, NEW box \in Seq(S), NEW new \in Seq(S)
  PROVE  PushAll(box, new) \in Seq(S) /\ Len(PushAll(box, new)) <= Cap
<1> DEFINE all == box \o new
<1>1. all \in Seq(S) /\ Len(all) \in Nat
  BY ConcatProperties, LenProperties
<1>2. PushAll(box, new) = IF Len(all) <= Cap THEN all
                          ELSE SubSeq(all, Len(all) - Cap + 1, Len(all))
  BY DEF PushAll
<1> HIDE DEF all
<1>3. CASE Len(all) <= Cap
  BY <1>1, <1>2, <1>3
<1>4. CASE ~(Len(all) <= Cap)
  <2>1. Len(all) - Cap + 1 \in 1..Len(all) /\ Cap \in Nat
    BY <1>1, <1>4, BoundsArePositive
  <2>2. \A i \in (Len(all) - Cap + 1)..Len(all) : all[i] \in S
    BY <1>1, <2>1, ElementOfSeq
  <2>3. /\ SubSeq(all, Len(all) - Cap + 1, Len(all)) \in Seq(S)
        /\ Len(SubSeq(all, Len(all) - Cap + 1, Len(all))) = Len(all) - (Len(all) - Cap + 1) + 1
    BY <1>1, <2>1, <2>2, SubSeqProperties
  <2> QED
    BY <1>1, <1>2, <1>4, <2>1, <2>3
<1> QED
  BY <1>3, <1>4

(* How high a message is does not depend on which ones are visible.        *)
LEMMA HeightOfLines ==
  ASSUME NEW S, NEW box \in Seq(S), NEW other \in Seq(S), Len(other) = Len(box),
         \A i \in DOMAIN box : other[i].lines = box[i].lines,
         NEW i \in DOMAIN box
  PROVE  Height(other, i) = Height(box, i)
<1> DEFINE Sum(b, f) == [j \in i..Len(b) + 1 |->
                           IF j > Len(b) THEN 0 ELSE b[j].lines + f[j + 1]]
<1>1. DOMAIN box = 1..Len(box) /\ Len(box) \in Nat
  BY LenProperties
<1>2. \A f : Sum(other, f) = Sum(box, f)
  BY <1>1
<1>3. Height(box, i) = (CHOOSE f : f = Sum(box, f))[i]
      /\ Height(other, i) = (CHOOSE f : f = Sum(other, f))[i]
  BY DEF Height
<1> HIDE DEF Sum
<1> QED
  BY <1>2, <1>3

LEMMA HideTooHighFacts ==
  ASSUME NEW box \in Seq(Shown)
  PROVE  /\ HideTooHigh(box) \in Seq(Shown)
         /\ Len(HideTooHigh(box)) = Len(box)
         /\ \A i \in DOMAIN box :
              /\ HideTooHigh(box)[i].heardIn = box[i].heardIn
              /\ HideTooHigh(box)[i].decided = box[i].decided
              /\ Fits(HideTooHigh(box), i) => HideTooHigh(box)[i].visible
<1>1. DOMAIN box = 1..Len(box) /\ Len(box) \in Nat
  BY LenProperties
<1> DEFINE hidden == HideTooHigh(box)
<1>2. \A i \in DOMAIN box : Fits(box, i) \in BOOLEAN
  BY DEF Fits
<1>3. \A i \in DOMAIN box :
        /\ hidden[i] = [box[i] EXCEPT !.visible = Fits(box, i)]
        /\ box[i] \in Shown
  BY ElementOfSeq, <1>1 DEF HideTooHigh
<1>4. \A i \in DOMAIN box :
        /\ hidden[i] \in Shown
        /\ hidden[i].heardIn = box[i].heardIn
        /\ hidden[i].decided = box[i].decided
        /\ hidden[i].lines = box[i].lines
        /\ hidden[i].visible = Fits(box, i)
  <2> HIDE DEF hidden
  <2> QED
    BY <1>2, <1>3 DEF Shown
<1>5. hidden \in [1..Len(box) -> Shown]
  BY <1>1, <1>4 DEF HideTooHigh
<1>6. hidden \in Seq(Shown) /\ Len(hidden) = Len(box)
  BY <1>1, <1>5, SeqDef
<1>7. \A i \in DOMAIN box : Height(hidden, i) = Height(box, i)
  <2> HIDE DEF hidden
  <2> QED
    BY <1>4, <1>6, HeightOfLines
<1>8. \A i \in DOMAIN box : Fits(hidden, i) <=> Fits(box, i)
  BY <1>7 DEF Fits
<1> QED
  BY <1>4, <1>6, <1>8

-----------------------------------------------------------------------------
(* The types, and what is in the box.  A message waits in the level it was *)
(* heard in, for the queue is cleared on entry.                            *)
QueueRight == \A i \in DOMAIN queue : queue[i].heardIn = layer.level

BoxRight ==
  /\ Len(layer.box) <= Cap
  /\ \A i \in DOMAIN layer.box :
       /\ layer.box[i].heardIn = layer.level
       /\ IF layer.expanded THEN Fits(layer.box, i) => layer.box[i].visible
          ELSE ~layer.box[i].visible

(* The user list is open in a layer only.                                  *)
Playing == layer # None \/ popup # None

ChatInv == TypeOK /\ (Playing => layer \in Layers /\ QueueRight /\ BoxRight)

LEMMA BlockedIsBoolean ==
  ASSUME layer \in Layers, NEW p
  PROVE  IsUserBlocked(p) \in BOOLEAN
BY DEF IsUserBlocked, Layers

(* Saved lists are lists of players, in some order.                        *)
LEMMA SavedLists ==
  ASSUME NEW ids \in SUBSET Players, NEW list \in IdLists(ids)
  PROVE  list \in Seq(Players) /\ ToSet(list) = ids
<1>1. IsFiniteSet(ids)
  BY FS_Subset, OthersAreOthers
<1>2. Cardinality(ids) \in Nat
  BY <1>1, FS_CardinalityType
<1>3. list \in [1..Cardinality(ids) -> Players] /\ ToSet(list) = ids
  BY DEF IdLists
<1> QED
  BY <1>2, <1>3, SeqDef

(* What a frame adds to the box.                                           *)
LEMMA NewMessages ==
  ASSUME ChatInv, layer # None
  PROVE  LET passing == Passing(queue)
             new == [i \in DOMAIN passing |-> ChatMessage(passing[i])]
         IN new \in Seq({ChatMessage(m) : m \in {m \in Messages :
                           Passes(m) /\ m.heardIn = layer.level}})
<1> DEFINE passing == Passing(queue)
           Heard == {m \in Messages : m.heardIn = layer.level}
           Good == {m \in Messages : Passes(m) /\ m.heardIn = layer.level}
           new == [i \in DOMAIN passing |-> ChatMessage(passing[i])]
<1>1. queue \in Seq(Heard)
  <2>1. queue \in [1..Len(queue) -> Messages] /\ Len(queue) \in Nat
    BY LenProperties DEF ChatInv, TypeOK
  <2>2. queue \in [1..Len(queue) -> Heard]
    BY <2>1 DEF ChatInv, Playing, QueueRight
  <2> HIDE DEF Heard
  <2> QED
    BY <2>1, <2>2, SeqDef
<1>2. passing \in Seq({m \in Heard : Passes(m)})
  <2> HIDE DEF Heard
  <2> QED
    BY <1>1, PassingPass
<1>3. {m \in Heard : Passes(m)} = Good
  OBVIOUS
<1>4. passing \in [1..Len(passing) -> Good] /\ Len(passing) \in Nat
  <2> HIDE DEF passing, Good, Heard
  <2> QED
    BY <1>2, <1>3, LenProperties
<1>5. new \in [1..Len(passing) -> {ChatMessage(m) : m \in Good}]
  <2> HIDE DEF passing, Good
  <2> QED
    BY <1>4
<1> HIDE DEF new, passing, Good
<1>6. new \in Seq({ChatMessage(m) : m \in Good})
  BY <1>4, <1>5, SeqDef
<1> QED
  BY <1>6 DEF new, passing, Good

LEMMA MessageShown ==
  ASSUME TypeOK, NEW m \in Messages
  PROVE  ChatMessage(m) \in Shown
<1>1. Len(MessageLines(m.text, m.sender)) \in 1..3
  <2>1. m.text \in Seq(Nat)
    BY WidthsAreNumbers DEF Messages
  <2> QED
    BY <2>1, LinesOfAny
<1>2. Chosen(m.sender) \in {"none", "block", "allow"}
  BY DEF TypeOK, Chosen
<1> QED
  BY <1>1, <1>2 DEF ChatMessage, Messages, Shown

LEMMA UpdateKeepsTypes ==
  ASSUME ChatInv, UpdateMessages
  PROVE  ChatInv'
<1> DEFINE passing == Passing(queue)
           new == [i \in DOMAIN passing |-> ChatMessage(passing[i])]
           pushed == PushAll(layer.box, new)
           Here == {s \in Shown : s.heardIn = layer.level}
<1>1. /\ layer # None /\ layer.expanded /\ queue' = <<>>
      /\ layer' = IF layer.chat THEN [layer EXCEPT !.box = HideTooHigh(pushed)] ELSE layer
      /\ crashed' = IF layer.chat THEN crashed ELSE TRUE
      /\ allowedLost' \in BOOLEAN
      /\ UNCHANGED <<saved, popup, delegate, fetches, levels, decision>>
  <2>1. CASE layer.chat
    BY <2>1 DEF UpdateMessages, ChatInv, TypeOK
  <2>2. CASE ~layer.chat
    BY <2>2 DEF UpdateMessages, ChatInv, TypeOK
  <2> QED
    BY <2>1, <2>2
<1>2. layer \in Layers
  BY <1>1 DEF ChatInv, Playing
<1>3. new \in Seq(Here)
  <2>1. new \in Seq({ChatMessage(m) : m \in {m \in Messages :
                           Passes(m) /\ m.heardIn = layer.level}})
    BY <1>1, NewMessages
  <2>2. {ChatMessage(m) : m \in {m \in Messages : Passes(m) /\ m.heardIn = layer.level}}
          \subseteq Here
    <3> SUFFICES ASSUME NEW m \in Messages, m.heardIn = layer.level
                 PROVE  ChatMessage(m) \in Here
      OBVIOUS
    <3>1. ChatMessage(m) \in Shown
      BY MessageShown DEF ChatInv
    <3>2. ChatMessage(m).heardIn = m.heardIn
      BY DEF ChatMessage
    <3> QED
      BY <3>1, <3>2
  <2> HIDE DEF new, Here
  <2> QED
    BY <2>1, <2>2, SeqMonotonic
<1>4. layer.box \in Seq(Here)
  <2>1. layer.box \in [1..Len(layer.box) -> Shown] /\ Len(layer.box) \in Nat
    BY <1>2, LenProperties DEF Layers
  <2>2. layer.box \in [1..Len(layer.box) -> Here]
    BY <1>1, <2>1 DEF ChatInv, Playing, BoxRight
  <2> HIDE DEF Here
  <2> QED
    BY <2>1, <2>2, SeqDef
<1>5. pushed \in Seq(Here) /\ Len(pushed) <= Cap
  <2> HIDE DEF new, Here
  <2> QED
    BY <1>3, <1>4, PushAllFacts
<1>6. pushed \in Seq(Shown) /\ \A i \in DOMAIN pushed : pushed[i].heardIn = layer.level
  <2> HIDE DEF pushed
  <2>1. \A i \in DOMAIN pushed : pushed[i] \in Here
    <3> HIDE DEF Here
    <3> QED
      BY <1>5, ElementOfSeq, LenProperties
  <2>2. Here \subseteq Shown
    OBVIOUS
  <2>3. pushed \in Seq(Shown)
    <3> HIDE DEF Here
    <3> QED
      BY <1>5, <2>2, SeqMonotonic
  <2> QED
    BY <2>1, <2>3
<1> HIDE DEF pushed, new, passing, Here
<1>7. CASE layer.chat
  <2> DEFINE box == HideTooHigh(pushed)
  <2>1. /\ box \in Seq(Shown) /\ Len(box) = Len(pushed) /\ DOMAIN box = DOMAIN pushed
        /\ \A i \in DOMAIN pushed :
             /\ box[i].heardIn = pushed[i].heardIn
             /\ Fits(box, i) => box[i].visible
    <3>1. /\ box \in Seq(Shown) /\ Len(box) = Len(pushed)
          /\ \A i \in DOMAIN pushed :
               /\ box[i].heardIn = pushed[i].heardIn
               /\ Fits(box, i) => box[i].visible
      BY <1>6, HideTooHighFacts
    <3>2. DOMAIN box = DOMAIN pushed
      BY DEF HideTooHigh
    <3> QED
      BY <3>1, <3>2
  <2> HIDE DEF box
  <2>2. layer' = [layer EXCEPT !.box = box]
    BY <1>1, <1>7 DEF box
  <2>3. /\ layer' \in Layers /\ layer'.box = box /\ layer'.expanded
        /\ layer'.level = layer.level
    BY <1>1, <1>2, <2>1, <2>2 DEF Layers
  <2>4. TypeOK'
    <3>1. queue' \in Seq(Messages)
      BY <1>1
    <3>2. UNCHANGED <<saved, popup, delegate, fetches, levels, decision, crashed>>
          /\ allowedLost' \in BOOLEAN
      BY <1>1, <1>7
    <3>3. layer' \in Layers
      BY <2>3
    <3> QED
      BY <3>1, <3>2, <3>3 DEF ChatInv, TypeOK, Layers
  <2>5. BoxRight'
    BY <1>5, <1>6, <2>1, <2>3 DEF BoxRight
  <2>6. QueueRight'
    BY <1>1 DEF QueueRight
  <2> QED
    BY <2>3, <2>4, <2>5, <2>6 DEF ChatInv
<1>8. CASE ~layer.chat
  <2>1. TypeOK'
    BY <1>1, <1>8 DEF ChatInv, TypeOK
  <2>2. QueueRight' /\ BoxRight' /\ layer' \in Layers
    BY <1>1, <1>2, <1>8 DEF ChatInv, Playing, QueueRight, BoxRight, Fits, Height
  <2> QED
    BY <2>1, <2>2 DEF ChatInv
<1> QED
  BY <1>7, <1>8

(* The queue and the box need nothing of a layer but these fields.         *)
LEMMA BoxRightSame ==
  ASSUME BoxRight, UNCHANGED <<layer.level, layer.box, layer.expanded>>
  PROVE  BoxRight'
<1>1. \A i : Fits(layer.box, i) <=> Fits(layer.box, i)'
  BY DEF Fits, Height
<1> QED
  BY <1>1 DEF BoxRight

LEMMA BoxSame ==
  ASSUME QueueRight, BoxRight,
         UNCHANGED <<queue, layer.level, layer.box, layer.expanded>>
  PROVE  QueueRight' /\ BoxRight'
BY BoxRightSame DEF QueueRight

LEMMA NextTypes ==
  ASSUME ChatInv, [Next]_vars
  PROVE  ChatInv'
<1> USE DEF ChatInv
<1>1. ASSUME NEW sender \in Players \cup {Self, Server}, NEW text \in Texts,
             ReceiveMessage(sender, text)
      PROVE  ChatInv'
  <2> DEFINE heardIn == IF layer = None THEN None ELSE layer.level
             message == [sender |-> sender, text |-> text, heardIn |-> heardIn]
  <2>1. /\ queue' = Append(queue, message)
        /\ UNCHANGED <<saved, layer, popup, delegate, fetches, levels, crashed,
                       decision, allowedLost>>
    BY <1>1 DEF ReceiveMessage
  <2>2. heardIn \in Nat \cup {None}
    BY DEF Playing, Layers
  <2>3. message \in Messages /\ (Playing => message.heardIn = layer.level)
    BY <2>2, NoLayerIsNone DEF Messages, Playing
  <2> HIDE DEF message
  <2>4. queue \in Seq(Messages) /\ Len(queue) \in Nat
    BY LenProperties DEF TypeOK
  <2>5. /\ queue' \in Seq(Messages) /\ Len(queue') = Len(queue) + 1
        /\ \A i \in 1..Len(queue) : queue'[i] = queue[i]
        /\ queue'[Len(queue) + 1] = message
    BY <2>1, <2>3, <2>4, AppendProperties
  <2>6. TypeOK'
    BY <2>1, <2>5 DEF TypeOK
  <2>7. Playing => QueueRight'
    <3> SUFFICES ASSUME Playing, NEW i \in DOMAIN queue'
                 PROVE  queue'[i].heardIn = layer.level
      BY <2>1 DEF QueueRight
    <3>1. i \in 1..(Len(queue) + 1) /\ DOMAIN queue = 1..Len(queue)
      BY <2>4, <2>5, LenProperties
    <3>2. CASE i \in 1..Len(queue)
      BY <2>5, <3>1, <3>2 DEF QueueRight
    <3>3. CASE i = Len(queue) + 1
      BY <2>3, <2>5, <3>3
    <3> QED
      BY <2>4, <3>1, <3>2, <3>3
  <2>8. Playing => BoxRight'
    BY <2>1, BoxRightSame
  <2>9. Playing' => Playing /\ layer' \in Layers
    BY <2>1 DEF Playing
  <2> QED
    BY <2>6, <2>7, <2>8, <2>9
<1>2. ASSUME NEW ids \in {Friends, {}}, FriendListAnswered(ids) PROVE ChatInv'
  <2>1. /\ UNCHANGED <<queue, saved, popup, levels, decision, allowedLost>>
        /\ fetches' = fetches - 1 /\ fetches > 0 /\ delegate' = None
        /\ crashed' \in BOOLEAN
        /\ \/ layer # None /\ layer' = [layer EXCEPT !.friends = @ \cup ids]
           \/ layer' = layer
    BY <1>2 DEF FriendListAnswered, TypeOK
  <2>2. ids \subseteq Players
    BY OthersAreOthers
  <2>3. CASE layer' = layer
    <3>1. TypeOK'
      BY <2>1, <2>3 DEF TypeOK
    <3>2. Playing => QueueRight' /\ BoxRight'
      BY <2>1, <2>3, BoxSame
    <3>3. Playing' => Playing /\ layer' \in Layers
      BY <2>1, <2>3 DEF Playing, Layers
    <3> QED
      BY <3>1, <3>2, <3>3
  <2>4. CASE layer # None /\ layer' = [layer EXCEPT !.friends = @ \cup ids]
    <3>1. layer' \in Layers /\ UNCHANGED <<layer.level, layer.box, layer.expanded>>
      BY <2>2, <2>4 DEF Playing, Layers
    <3>2. TypeOK'
      BY <2>1, <3>1 DEF TypeOK, Layers
    <3>3. QueueRight' /\ BoxRight'
      BY <2>1, <2>4, <3>1, BoxSame DEF Playing
    <3> QED
      BY <3>1, <3>2, <3>3
  <2> QED
    BY <2>1, <2>3, <2>4
<1>3. CASE UpdateMessages
  BY <1>3, UpdateKeepsTypes
<1>4. ASSUME NEW chat \in ChatSettings, NEW onlyAllowed \in BOOLEAN,
             EnterLevel(chat, onlyAllowed)
      PROVE  ChatInv'
  <2> DEFINE black == IF chat THEN ParseIdList(saved.blacklist) ELSE {}
             white == IF chat THEN ParseIdList(saved.whitelist) ELSE {}
  <2>1. black \subseteq Players /\ white \subseteq Players
    <3>1. saved.blacklist \in Seq(Players) /\ saved.whitelist \in Seq(Players)
      BY DEF TypeOK
    <3>2. ToSet(saved.blacklist) \subseteq Players /\ ToSet(saved.whitelist) \subseteq Players
      BY <3>1, ElementOfSeq, LenProperties DEF ToSet
    <3> QED
      BY <3>2 DEF ParseIdList
  <2>2. /\ queue' = <<>> /\ levels' = levels + 1
        /\ layer' = Layer(levels + 1, chat, onlyAllowed, black, white)
        /\ delegate' \in {levels + 1, delegate} /\ fetches' \in {fetches + 1, fetches}
        /\ UNCHANGED <<saved, popup, crashed, decision, allowedLost>>
    BY <1>4 DEF EnterLevel
  <2>3. chat \in BOOLEAN /\ levels \in Nat
    BY OthersAreOthers DEF TypeOK
  <2> HIDE DEF black, white
  <2>4. layer' \in Layers /\ layer'.box = <<>>
    BY <2>1, <2>2, <2>3 DEF Layer, Layers
  <2>5. TypeOK'
    <3>1. queue' \in Seq(Messages)
      BY <2>2
    <3> QED
      BY <2>2, <2>4, <3>1 DEF TypeOK, Layers
  <2>6. QueueRight' /\ BoxRight'
    <3>1. Len(layer'.box) <= Cap /\ DOMAIN layer'.box = {}
      BY <2>4, BoundsArePositive
    <3> QED
      BY <2>2, <3>1 DEF QueueRight, BoxRight
  <2> QED
    BY <2>4, <2>5, <2>6
<1>5. CASE Quit
  <2>1. TypeOK'
    BY <1>5 DEF Quit, TypeOK
  <2> QED
    BY <1>5, <2>1 DEF Quit, QueueRight, BoxRight, Playing
<1>6. CASE ToggleChat
  <2> DEFINE box == SetAllVisible(layer.box, ~layer.expanded)
  <2>1. /\ layer # None /\ layer \in Layers
        /\ layer' = [layer EXCEPT !.expanded = ~layer.expanded, !.box = box]
        /\ UNCHANGED <<queue, saved, popup, delegate, fetches, levels, crashed,
                       decision, allowedLost>>
    BY <1>6 DEF ToggleChat, Playing
  <2>2. layer.box \in [1..Len(layer.box) -> Shown] /\ Len(layer.box) \in Nat
        /\ layer.expanded \in BOOLEAN
    BY <2>1, LenProperties DEF Layers
  <2>3. \A i \in DOMAIN layer.box :
          /\ box[i] \in Shown /\ box[i].visible = ~layer.expanded
          /\ box[i].heardIn = layer.box[i].heardIn
    BY <2>2 DEF SetAllVisible, Shown
  <2>4. box \in [1..Len(layer.box) -> Shown]
    BY <2>2, <2>3 DEF SetAllVisible
  <2> HIDE DEF box
  <2>5. box \in Seq(Shown) /\ Len(box) = Len(layer.box) /\ DOMAIN box = DOMAIN layer.box
    BY <2>2, <2>4, SeqDef
  <2>6. /\ layer' \in Layers /\ layer'.box = box /\ layer'.level = layer.level
        /\ layer'.expanded = ~layer.expanded
    BY <2>1, <2>5 DEF Layers
  <2>7. TypeOK'
    BY <2>1, <2>6 DEF TypeOK, Layers
  <2>8. BoxRight'
    BY <2>1, <2>2, <2>3, <2>5, <2>6 DEF BoxRight, Playing
  <2>9. QueueRight'
    BY <2>1, <2>6 DEF QueueRight, Playing
  <2> QED
    BY <2>6, <2>7, <2>8, <2>9
<1>7. ASSUME NEW listed \in SUBSET Players, OpenUserList(listed) PROVE ChatInv'
  <2>1. layer # None /\ popup' = [p \in listed |-> IsUserBlocked(p)]
        /\ UNCHANGED <<queue, saved, layer, delegate, fetches, levels, crashed,
                       decision, allowedLost>>
    BY <1>7 DEF OpenUserList
  <2>2. layer \in Layers
    BY <2>1 DEF Playing
  <2>3. popup' \in [listed -> BOOLEAN]
    BY <2>1, <2>2, BlockedIsBoolean
  <2>4. TypeOK'
    BY <2>1, <2>3 DEF TypeOK
  <2>5. QueueRight' /\ BoxRight'
    BY <2>1, BoxSame DEF Playing
  <2> QED
    BY <2>1, <2>2, <2>4, <2>5
<1>8. CASE CloseUserList
  <2>1. popup' = None /\ UNCHANGED <<queue, saved, layer, delegate, fetches, levels,
                                     crashed, decision, allowedLost>>
    BY <1>8 DEF CloseUserList
  <2>2. TypeOK'
    BY <2>1 DEF TypeOK
  <2> QED
    BY <2>1, <2>2 DEF QueueRight, BoxRight, Fits, Height, Playing
<1>9. ASSUME NEW p \in Players, OnBlock(p) PROVE ChatInv'
  <2> DEFINE black == IF popup'[p] THEN layer.blacklist \cup {p}
                      ELSE layer.blacklist \ {p}
             white == IF popup'[p] THEN layer.whitelist \ {p}
                      ELSE layer.whitelist \cup {p}
  <2>1. /\ popup # None /\ popup' = [popup EXCEPT ![p] = ~popup[p]]
        /\ layer' = [layer EXCEPT !.blacklist = black, !.whitelist = white]
        /\ saved' \in [blacklist : IdLists(black), whitelist : IdLists(white)]
        /\ decision' = [decision EXCEPT ![p] = IF popup'[p] THEN "block" ELSE "allow"]
        /\ UNCHANGED <<queue, delegate, fetches, levels, crashed, allowedLost>>
    BY <1>9 DEF OnBlock, ChatBlockUser, ChatUnblockUser, SaveChatUserLists
  <2>2. layer \in Layers
    BY <2>1 DEF Playing
  <2>3. black \in SUBSET Players /\ white \in SUBSET Players
    BY <2>2 DEF Layers
  <2> HIDE DEF black, white
  <2>4. layer' \in Layers /\ UNCHANGED <<layer.level, layer.box, layer.expanded>>
    BY <2>1, <2>2, <2>3 DEF Layers
  <2>5. DOMAIN saved' = {"blacklist", "whitelist"}
        /\ \A list \in DOMAIN saved' : saved'[list] \in Seq(Players)
    BY <2>1, <2>3, SavedLists
  <2>6. \E listed \in SUBSET Players : popup' \in [listed -> BOOLEAN]
    <3>1. PICK listed \in SUBSET Players : popup \in [listed -> BOOLEAN]
      BY <2>1 DEF TypeOK
    <3>2. popup' \in [listed -> BOOLEAN]
      BY <2>1, <3>1
    <3> QED
      BY <3>2
  <2>7. decision' \in [Players -> {"none", "block", "allow"}]
    BY <2>1 DEF TypeOK
  <2>8. TypeOK'
    BY <2>1, <2>4, <2>5, <2>6, <2>7 DEF TypeOK, Layers
  <2>9. QueueRight' /\ BoxRight'
    BY <2>1, <2>4, BoxSame DEF Playing
  <2> QED
    BY <2>4, <2>8, <2>9
<1>10. CASE UNCHANGED vars
  <2>1. TypeOK' /\ (Playing' => Playing /\ layer' \in Layers)
    BY <1>10 DEF vars, TypeOK, Playing, Layers
  <2>2. Playing => QueueRight' /\ BoxRight'
    BY <1>10, BoxSame DEF vars
  <2> QED
    BY <2>1, <2>2
<1> QED
  BY <1>1, <1>2, <1>3, <1>4, <1>5, <1>6, <1>7, <1>8, <1>9, <1>10
  DEF Next, FromOutside, ByUser

LEMMA TypeInvariant == Spec => []ChatInv
<1>1. Init => ChatInv
  <2> SUFFICES ASSUME Init PROVE ChatInv
    OBVIOUS
  <2>1. TypeOK
    <3>1. queue \in Seq(Messages)
      BY DEF Init
    <3>3. saved = [blacklist |-> <<>>, whitelist |-> <<>>] /\ <<>> \in Seq(Players)
      BY DEF Init
    <3>4. DOMAIN saved = {"blacklist", "whitelist"}
          /\ saved.blacklist = <<>> /\ saved.whitelist = <<>>
      BY <3>3
    <3>5. \A list \in DOMAIN saved : saved[list] \in Seq(Players)
      BY <3>3, <3>4
    <3>2. decision \in [Players -> {"none", "block", "allow"}]
      BY DEF Init
    <3> QED
      BY <3>1, <3>2, <3>4, <3>5 DEF Init, TypeOK
  <2> QED
    BY <2>1 DEF Init, ChatInv, Playing, QueueRight, BoxRight
<1>2. ChatInv /\ [Next]_vars => ChatInv'
  BY NextTypes
<1> QED
  BY <1>1, <1>2, PTL DEF Spec

(* The types are right, for all players, texts, widths and bounds.         *)
THEOREM TypeCorrect == Spec => []TypeOK
<1>1. ChatInv => TypeOK
  BY DEF ChatInv
<1> QED
  BY <1>1, TypeInvariant, PTL

(* The box keeps to its capacity, to this level, and to what fits.         *)
THEOREM BoxKept == Spec => []BoxOfThisLevel
<1>1. ChatInv => BoxOfThisLevel
  BY DEF ChatInv, Playing, BoxRight, BoxOfThisLevel
<1> QED
  BY <1>1, TypeInvariant, PTL

-----------------------------------------------------------------------------
(* What the user chose.  With the chat off a layer does not read the       *)
(* lists, and the first choice in the user list overwrites the saved ones. *)
Kept(black, white) ==
  /\ black \cap white = {}
  /\ \A p \in Players : /\ decision[p] = "block" => p \in black
                        /\ decision[p] = "allow" => p \in white

DecisionInv ==
  /\ Kept(ToSet(saved.blacklist), ToSet(saved.whitelist))
  /\ Playing => Kept(layer.blacklist, layer.whitelist)
  /\ BlockedNotShown /\ AllowedHeard

(* A choice in the user list moves the player to one list, off the other.  *)
LEMMA OnBlockKeeps ==
  ASSUME ChatInv, DecisionInv, NEW p \in Players, OnBlock(p)
  PROVE  DecisionInv'
<1>1. Playing /\ layer \in Layers
  BY DEF OnBlock, Playing, ChatInv
<1> DEFINE black == IF popup'[p] THEN layer.blacklist \cup {p}
                    ELSE layer.blacklist \ {p}
           white == IF popup'[p] THEN layer.whitelist \ {p}
                    ELSE layer.whitelist \cup {p}
<1>2. /\ layer' = [layer EXCEPT !.blacklist = black, !.whitelist = white]
      /\ saved' \in [blacklist : IdLists(black), whitelist : IdLists(white)]
  BY DEF OnBlock, ChatBlockUser, ChatUnblockUser, SaveChatUserLists
<1>3. /\ layer'.blacklist = black /\ layer'.whitelist = white
      /\ UNCHANGED layer.box /\ layer # None
  BY <1>1, <1>2, NoLayerIsNone DEF Layers
<1>4. ToSet(saved'.blacklist) = black /\ ToSet(saved'.whitelist) = white
  BY <1>2 DEF IdLists
<1>5. decision' = [decision EXCEPT ![p] = IF popup'[p] THEN "block" ELSE "allow"]
      /\ decision \in [Players -> {"none", "block", "allow"}]
  BY DEF OnBlock, ChatInv, TypeOK
<1>6. /\ black \cap white = {}
      /\ \A q \in Players : /\ decision'[q] = "block" => q \in black
                            /\ decision'[q] = "allow" => q \in white
  <2>1. Kept(layer.blacklist, layer.whitelist)
    BY <1>1 DEF DecisionInv
  <2>2. CASE popup'[p]
    BY <1>5, <2>1, <2>2 DEF Kept
  <2>3. CASE ~popup'[p]
    BY <1>5, <2>1, <2>3 DEF Kept
  <2> QED
    BY <2>2, <2>3
<1>7. UNCHANGED allowedLost
  BY DEF OnBlock
<1> HIDE DEF black, white
<1>8. Kept(layer.blacklist, layer.whitelist)' /\ Kept(ToSet(saved.blacklist), ToSet(saved.whitelist))'
  BY <1>3, <1>4, <1>6 DEF Kept
<1> QED
  BY <1>3, <1>7, <1>8 DEF DecisionInv, AllowedHeard, BlockedNotShown

(* A message that waits passes if the user allowed its sender, and does    *)
(* not if the user blocked its sender: Self and Server are no players.     *)
LEMMA ChosenPasses ==
  ASSUME Kept(layer.blacklist, layer.whitelist), NEW message
  PROVE  /\ Chosen(message.sender) = "allow" => Passes(message)
         /\ Chosen(message.sender) = "block" => ~Passes(message)
BY OthersAreOthers DEF Chosen, Kept, Passes, IsUserBlocked

LEMMA UpdateKeepsDecisions ==
  ASSUME ChatInv, DecisionInv, UpdateMessages
  PROVE  DecisionInv'
<1> DEFINE passing == Passing(queue)
           new == [i \in DOMAIN passing |-> ChatMessage(passing[i])]
           pushed == PushAll(layer.box, new)
           Unblocked == {s \in Shown : s.decided # "block"}
<1>1. /\ layer # None
      /\ layer' = IF layer.chat THEN [layer EXCEPT !.box = HideTooHigh(pushed)] ELSE layer
      /\ UNCHANGED <<saved, popup, decision>>
  <2>1. CASE layer.chat
    BY <2>1 DEF UpdateMessages
  <2>2. CASE ~layer.chat
    BY <2>2 DEF UpdateMessages
  <2> QED
    BY <2>1, <2>2
<1>2. layer \in Layers /\ Kept(layer.blacklist, layer.whitelist)
  BY <1>1 DEF ChatInv, DecisionInv, Playing
<1>3. new \in Seq(Unblocked)
  <2>1. new \in Seq({ChatMessage(m) : m \in {m \in Messages :
                           Passes(m) /\ m.heardIn = layer.level}})
    BY <1>1, NewMessages
  <2>2. ASSUME NEW m \in Messages, Passes(m) PROVE ChatMessage(m) \in Unblocked
    <3>1. ChatMessage(m) \in Shown
      BY MessageShown DEF ChatInv
    <3>2. ChatMessage(m).decided = Chosen(m.sender)
      BY DEF ChatMessage
    <3> QED
      BY <1>2, <2>2, <3>1, <3>2, ChosenPasses
  <2>3. {ChatMessage(m) : m \in {m \in Messages : Passes(m) /\ m.heardIn = layer.level}}
          \subseteq Unblocked
    <3> HIDE DEF Unblocked
    <3> QED
      BY <2>2
  <2> HIDE DEF new, Unblocked
  <2> QED
    BY <2>1, <2>3, SeqMonotonic
<1>4. layer.box \in Seq(Unblocked)
  <2>1. layer.box \in [1..Len(layer.box) -> Shown] /\ Len(layer.box) \in Nat
    BY <1>2, LenProperties DEF Layers
  <2>2. layer.box \in [1..Len(layer.box) -> Unblocked]
    BY <1>1, <2>1 DEF DecisionInv, BlockedNotShown
  <2> HIDE DEF Unblocked
  <2> QED
    BY <2>1, <2>2, SeqDef
<1>5. pushed \in Seq(Unblocked)
  <2> HIDE DEF new, Unblocked
  <2> QED
    BY <1>3, <1>4, PushAllFacts
<1>6. pushed \in Seq(Shown) /\ \A i \in DOMAIN pushed : pushed[i].decided # "block"
  <2>1. \A i \in DOMAIN pushed : pushed[i] \in Unblocked
    <3> HIDE DEF Unblocked, pushed
    <3> QED
      BY <1>5, ElementOfSeq, LenProperties
  <2>2. Unblocked \subseteq Shown
    OBVIOUS
  <2>3. pushed \in Seq(Shown)
    <3> HIDE DEF Unblocked, pushed
    <3> QED
      BY <1>5, <2>2, SeqMonotonic
  <2> HIDE DEF pushed
  <2> QED
    BY <2>1, <2>3
<1> HIDE DEF new, passing, pushed, Unblocked
<1>7. /\ UNCHANGED <<layer.blacklist, layer.whitelist>>
      /\ \A i \in DOMAIN layer'.box : layer'.box[i].decided # "block"
  <2>1. CASE layer.chat
    <3>1. /\ layer'.box = HideTooHigh(pushed)
          /\ UNCHANGED <<layer.blacklist, layer.whitelist>>
      BY <1>1, <1>2, <2>1 DEF Layers
    <3>2. DOMAIN HideTooHigh(pushed) = DOMAIN pushed
      BY DEF HideTooHigh
    <3> QED
      BY <1>6, <3>1, <3>2, HideTooHighFacts
  <2>2. CASE ~layer.chat
    BY <1>1, <2>2 DEF DecisionInv, BlockedNotShown
  <2> QED
    BY <2>1, <2>2
<1>8. BlockedNotShown'
  BY <1>7 DEF BlockedNotShown
<1>9. AllowedHeard'
  <2>1. allowedLost' = (allowedLost \/ \E i \in DOMAIN queue :
          Chosen(queue[i].sender) = "allow" /\ ~Passes(queue[i]))
    BY DEF UpdateMessages
  <2> QED
    BY <1>2, <2>1, ChosenPasses DEF DecisionInv, AllowedHeard
<1> QED
  BY <1>1, <1>7, <1>8, <1>9 DEF DecisionInv, Kept, Playing

LEMMA DecisionInvariant ==
  ASSUME ChatSettings \subseteq {TRUE}
  PROVE  Spec => []DecisionInv
<1>1. Init => DecisionInv
  BY DEF Init, DecisionInv, Kept, Playing, AllowedHeard, BlockedNotShown, ToSet
<1>2. ChatInv /\ DecisionInv /\ [Next]_vars => DecisionInv'
  <2> SUFFICES ASSUME ChatInv, DecisionInv, [Next]_vars PROVE DecisionInv'
    OBVIOUS
  <2>1. CASE UNCHANGED <<saved, layer, decision, allowedLost>>
             /\ (Playing' => Playing)
    BY <2>1 DEF DecisionInv, Kept, Playing, AllowedHeard, BlockedNotShown
  <2>2. ASSUME NEW chat \in ChatSettings, NEW onlyAllowed \in BOOLEAN,
               EnterLevel(chat, onlyAllowed)
        PROVE  DecisionInv'
    <3>1. layer' = Layer(levels + 1, TRUE, onlyAllowed, ToSet(saved.blacklist),
                         ToSet(saved.whitelist))
      BY <2>2, ChatSettings \subseteq {TRUE} DEF EnterLevel, ParseIdList
    <3>2. /\ layer'.box = <<>>
          /\ layer'.blacklist = ToSet(saved.blacklist)
          /\ layer'.whitelist = ToSet(saved.whitelist)
      BY <3>1 DEF Layer
    <3> QED
      BY <2>2, <3>2 DEF EnterLevel, DecisionInv, Kept, AllowedHeard, BlockedNotShown
  <2>3. CASE Quit
    BY <2>3 DEF Quit, DecisionInv, Kept, Playing, AllowedHeard, BlockedNotShown
  <2>4. ASSUME NEW ids, FriendListAnswered(ids) PROVE DecisionInv'
    <3>1. CASE layer' = layer
      BY <2>1, <2>4, <3>1 DEF FriendListAnswered, Playing
    <3>2. CASE layer # None /\ layer' = [layer EXCEPT !.friends = @ \cup ids]
      <4>1. UNCHANGED <<saved, decision, allowedLost, layer.blacklist,
                        layer.whitelist, layer.box>>
        BY <2>4, <3>2 DEF FriendListAnswered, ChatInv, Playing, Layers
      <4> QED
        BY <3>2, <4>1 DEF DecisionInv, Kept, Playing, AllowedHeard, BlockedNotShown
    <3> QED
      BY <2>4, <3>1, <3>2 DEF FriendListAnswered
  <2>5. CASE UpdateMessages
    BY <2>5, UpdateKeepsDecisions
  <2>6. CASE ToggleChat
    <3> DEFINE box == SetAllVisible(layer.box, ~layer.expanded)
    <3>1. /\ UNCHANGED <<saved, decision, popup, allowedLost>> /\ layer # None
          /\ layer' = [layer EXCEPT !.expanded = ~layer.expanded, !.box = box]
      BY <2>6 DEF ToggleChat
    <3>2. layer \in Layers
      BY <3>1 DEF ChatInv, Playing
    <3>3. DOMAIN box = DOMAIN layer.box
          /\ \A i \in DOMAIN box : box[i].decided = layer.box[i].decided
      <4>1. \A i \in DOMAIN layer.box : layer.box[i] \in Shown
        BY <3>2, ElementOfSeq, LenProperties DEF Layers
      <4> QED
        BY <4>1 DEF SetAllVisible, Shown
    <3> HIDE DEF box
    <3>4. layer'.box = box /\ UNCHANGED <<layer.blacklist, layer.whitelist>>
      BY <3>1, <3>2 DEF Layers
    <3> QED
      BY <3>1, <3>3, <3>4 DEF DecisionInv, Kept, Playing, AllowedHeard, BlockedNotShown
  <2>7. ASSUME NEW p \in Players, OnBlock(p) PROVE DecisionInv'
    BY <2>7, OnBlockKeeps
  <2>8. ASSUME NEW sender, NEW text, ReceiveMessage(sender, text) PROVE DecisionInv'
    BY <2>1, <2>8 DEF ReceiveMessage, Playing
  <2>9. ASSUME NEW listed, OpenUserList(listed) PROVE DecisionInv'
    BY <2>1, <2>9 DEF OpenUserList, Playing
  <2>10. CASE CloseUserList \/ UNCHANGED vars
    BY <2>1, <2>10 DEF CloseUserList, vars, Playing
  <2> QED
    BY <2>2, <2>3, <2>4, <2>5, <2>6, <2>7, <2>8, <2>9, <2>10
    DEF Next, FromOutside, ByUser
<1> QED
  BY <1>1, <1>2, TypeInvariant, PTL DEF Spec

(* With the chat on, no message of someone the user blocked is put in the  *)
(* box, none of someone the user allowed is dropped, and nobody is both    *)
(* blocked and allowed: not in the layer, and not in what is saved for the *)
(* next one.                                                               *)
THEOREM DecisionsHonoured ==
  ASSUME ChatSettings \subseteq {TRUE}
  PROVE  Spec => []DecisionHonoured
<1>1. DecisionInv => DecisionHonoured
  BY DEF DecisionInv, DecisionHonoured, ListsApart, Kept, Playing, ParseIdList
<1> QED
  BY <1>1, DecisionInvariant, PTL
=============================================================================
