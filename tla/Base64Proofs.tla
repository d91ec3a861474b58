---------------------------- MODULE Base64Proofs ----------------------------
(***************************************************************************)
(* base64_encode encodes every word as base64 does, and base64_decode gives *)
(* every word back, for words of any length.                               *)
(***************************************************************************)
EXTENDS Base64, SequenceTheorems, WellFoundedInduction, TLAPS

Byte == 1..127

Word == Seq(Byte) \ {<<>>}
----------------------------------------------------------------------------
(* The tables are inverse to each other.                                   *)
LEMMA SuffixOfAlphabet ==
    ASSUME NEW v \in 0..63
    PROVE  suffix_map(alphabet(v)) = v /\ alphabet(v) \in Nat /\ alphabet(v) # EQ
BY DEF suffix_map, alphabet, EQ

LEMMA Powers ==
    /\ 2^0 = 1 /\ 2^1 = 2 /\ 2^2 = 4 /\ 2^3 = 8 /\ 2^4 = 16
    /\ 2^5 = 32 /\ 2^6 = 64 /\ 2^7 = 128
OBVIOUS

(* What the encoder makes of one, two and three bytes.                     *)
LEMMA Shifts ==
    ASSUME NEW a \in Byte
    PROVE  /\ cmove_bits(a, 6, 2) = ((a * 64) % 256) \div 4
           /\ cmove_bits(a, 4, 2) = ((a * 16) % 256) \div 4
           /\ cmove_bits(a, 0, 4) = a \div 16
           /\ cmove_bits(a, 0, 6) = a \div 64
BY Powers DEF cmove_bits, Byte

(* Bit d of a byte, from the left.                                         *)
ByteBit(x, d) == (x \div 2^(7 - d)) % 2

(* Six bits of a byte, or four and two, from its bits.                     *)
LEMMA BitsOfByte ==
    ASSUME NEW a \in 0..127
    PROVE  LET bit(i) == ByteBit(a, i) IN
           /\ \A i \in 0..7 : bit(i) \in 0..1
           /\ 32 * bit(0) + 16 * bit(1) + 8 * bit(2) + 4 * bit(3) + 2 * bit(4) + bit(5) = a \div 4
           /\ 32 * bit(6) + 16 * bit(7) = ((a * 64) % 256) \div 4
           /\ 8 * bit(0) + 4 * bit(1) + 2 * bit(2) + bit(3) = a \div 16
           /\ 32 * bit(4) + 16 * bit(5) + 8 * bit(6) + 4 * bit(7) = ((a * 16) % 256) \div 4
           /\ 2 * bit(0) + bit(1) = a \div 64
           /\ 32 * bit(2) + 16 * bit(3) + 8 * bit(4) + 4 * bit(5) + 2 * bit(6) + bit(7) = a % 64
<1> DEFINE bit(i) == ByteBit(a, i)
<1>1. /\ bit(0) = (a \div 128) % 2 /\ bit(1) = (a \div 64) % 2 /\ bit(2) = (a \div 32) % 2
      /\ bit(3) = (a \div 16) % 2 /\ bit(4) = (a \div 8) % 2 /\ bit(5) = (a \div 4) % 2
      /\ bit(6) = (a \div 2) % 2 /\ bit(7) = a % 2
  BY Powers DEF ByteBit
<1>2. PICK b0 \in 0..1, b1 \in 0..1, b2 \in 0..1, b3 \in 0..1,
           b4 \in 0..1, b5 \in 0..1, b6 \in 0..1, b7 \in 0..1 :
          /\ b0 = (a \div 128) % 2 /\ b1 = (a \div 64) % 2 /\ b2 = (a \div 32) % 2
          /\ b3 = (a \div 16) % 2 /\ b4 = (a \div 8) % 2 /\ b5 = (a \div 4) % 2
          /\ b6 = (a \div 2) % 2 /\ b7 = a % 2
  OBVIOUS
<1>3. /\ 32 * b0 + 16 * b1 + 8 * b2 + 4 * b3 + 2 * b4 + b5 = a \div 4
      /\ 32 * b6 + 16 * b7 = ((a * 64) % 256) \div 4
      /\ 8 * b0 + 4 * b1 + 2 * b2 + b3 = a \div 16
      /\ 32 * b4 + 16 * b5 + 8 * b6 + 4 * b7 = ((a * 16) % 256) \div 4
      /\ 2 * b0 + b1 = a \div 64
      /\ 32 * b2 + 16 * b3 + 8 * b4 + 4 * b5 + 2 * b6 + b7 = a % 64
  BY <1>2
<1>4. /\ bit(0) = b0 /\ bit(1) = b1 /\ bit(2) = b2 /\ bit(3) = b3
      /\ bit(4) = b4 /\ bit(5) = b5 /\ bit(6) = b6 /\ bit(7) = b7
  BY <1>1, <1>2
<1>5. \A i \in 0..7 : bit(i) \in 0..1
  <2> TAKE i \in 0..7
  <2>1. i = 0 \/ i = 1 \/ i = 2 \/ i = 3 \/ i = 4 \/ i = 5 \/ i = 6 \/ i = 7
    OBVIOUS
  <2> HIDE DEF bit
  <2>2. QED
    BY <1>4, <2>1
<1>6. QED
  BY <1>3, <1>4, <1>5
----------------------------------------------------------------------------
(* The bytes of a group, with 0 after the end of the word.                 *)
ByteOf(g, i) == IF i <= Len(g) THEN g[i] ELSE 0

(* The six bits that a group's character r is for.                         *)
Six(g, r) ==
    CASE r = 0 -> ByteOf(g, 1) \div 4
      [] r = 1 -> (((ByteOf(g, 1) * 64) % 256) \div 4) + (ByteOf(g, 2) \div 16)
      [] r = 2 -> (((ByteOf(g, 2) * 16) % 256) \div 4) + (ByteOf(g, 3) \div 64)
      [] r = 3 -> ByteOf(g, 3) % 64

GroupWord == {g \in Seq(Byte) : Len(g) \in 1..3}

LEMMA ByteOfType ==
    ASSUME NEW g \in GroupWord
    PROVE  /\ \A i \in 1..3 : ByteOf(g, i) \in 0..127
           /\ g[1] = ByteOf(g, 1) /\ ByteOf(g, 1) \in Byte
           /\ Len(g) >= 2 => g[2] = ByteOf(g, 2) /\ ByteOf(g, 2) \in Byte
           /\ Len(g) >= 3 => g[3] = ByteOf(g, 3) /\ ByteOf(g, 3) \in Byte
<1>1. Len(g) \in 1..3 /\ \A i \in 1..Len(g) : g[i] \in 1..127
  <2>1. g \in Seq(Byte) /\ Len(g) \in 1..3
    BY DEF GroupWord
  <2>2. \A i \in 1..Len(g) : g[i] \in Byte
    BY <2>1
  <2>3. QED
    BY <2>1, <2>2 DEF Byte
<1>2. \A i \in 1..3 : i <= Len(g) => ByteOf(g, i) = g[i] /\ g[i] \in 1..127
  BY <1>1 DEF ByteOf
<1>3. \A i \in 1..3 : ~(i <= Len(g)) => ByteOf(g, i) = 0
  BY DEF ByteOf
<1>4. \A i \in 1..3 : ByteOf(g, i) \in 0..127
  <2> TAKE i \in 1..3
  <2>1. 0 \in 0..127 /\ 1..127 \subseteq 0..127
    OBVIOUS
  <2>2. QED
    BY <1>2, <1>3, <2>1
<1>5. /\ g[1] = ByteOf(g, 1) /\ ByteOf(g, 1) \in 1..127
      /\ Len(g) >= 2 => g[2] = ByteOf(g, 2) /\ ByteOf(g, 2) \in 1..127
      /\ Len(g) >= 3 => g[3] = ByteOf(g, 3) /\ ByteOf(g, 3) \in 1..127
  <2>1. /\ 1 <= Len(g) /\ 1 \in 1..3 /\ 2 \in 1..3 /\ 3 \in 1..3
        /\ Len(g) >= 2 <=> 2 <= Len(g)
        /\ Len(g) >= 3 <=> 3 <= Len(g)
    BY <1>1
  <2>2. QED
    BY <1>2, <2>1
<1>6. QED
  BY <1>4, <1>5 DEF Byte

LEMMA SixType ==
    ASSUME NEW g \in GroupWord, NEW r \in 0..3
    PROVE  Six(g, r) \in 0..63
<1>1. PICK a \in 0..127, b \in 0..127, c \in 0..127 :
          a = ByteOf(g, 1) /\ b = ByteOf(g, 2) /\ c = ByteOf(g, 3)
  <2>1. 1 \in 1..3 /\ 2 \in 1..3 /\ 3 \in 1..3
    OBVIOUS
  <2>2. QED
    BY <2>1, ByteOfType
<1>2. CASE r = 0
  BY <1>1, <1>2 DEF Six
<1>3. CASE r = 1
  BY <1>1, <1>3 DEF Six
<1>4. CASE r = 2
  BY <1>1, <1>4 DEF Six
<1>5. CASE r = 3
  BY <1>1, <1>5 DEF Six
<1>6. QED
  BY <1>2, <1>3, <1>4, <1>5

(* A turn of the encoder writes these, and '=' for the missing bytes.      *)
LEMMA TurnWrites ==
    ASSUME NEW g \in GroupWord
    PROVE  \A r \in 0..3 :
               EncodeGroup(g)[r + 1] = IF r > Len(g) THEN EQ ELSE alphabet(Six(g, r))
<1> DEFINE a == ByteOf(g, 1)
           b == ByteOf(g, 2)
           c == ByteOf(g, 3)
<1>1. /\ Six(g, 0) = a \div 4
      /\ Six(g, 1) = (((a * 64) % 256) \div 4) + (b \div 16)
      /\ Six(g, 2) = (((b * 16) % 256) \div 4) + (c \div 64)
      /\ Six(g, 3) = c % 64
  BY DEF Six
<1>2. /\ a \in Byte /\ g[1] = a
      /\ Len(g) >= 2 => b \in Byte /\ g[2] = b
      /\ Len(g) >= 3 => c \in Byte /\ g[3] = c
      /\ Len(g) < 2 => b = 0
      /\ Len(g) < 3 => c = 0
  BY ByteOfType DEF ByteOf, GroupWord
<1> HIDE DEF a, b, c
<1>3. CASE Len(g) = 1
  <2>1. EncodeGroup(g) = <<alphabet(a \div 4), alphabet(((a * 64) % 256) \div 4), EQ, EQ>>
    BY <1>2, <1>3, Shifts DEF EncodeGroup
  <2>2. Six(g, 1) = ((a * 64) % 256) \div 4
    BY <1>1, <1>2, <1>3 DEF Byte
  <2>3. QED
    BY <1>1, <1>3, <2>1, <2>2
<1>4. CASE Len(g) = 2
  <2>1. EncodeGroup(g) = <<alphabet(a \div 4), alphabet((((a * 64) % 256) \div 4) + (b \div 16)),
                           alphabet(((b * 16) % 256) \div 4), EQ>>
    BY <1>2, <1>4, Shifts DEF EncodeGroup
  <2>2. Six(g, 2) = ((b * 16) % 256) \div 4
    BY <1>1, <1>2, <1>4 DEF Byte
  <2>3. QED
    BY <1>1, <1>4, <2>1, <2>2
<1>5. CASE Len(g) = 3
  <2>1. EncodeGroup(g) = <<alphabet(a \div 4), alphabet((((a * 64) % 256) \div 4) + (b \div 16)),
                           alphabet((((b * 16) % 256) \div 4) + (c \div 64)), alphabet(c % 64)>>
    BY <1>2, <1>5, Shifts DEF EncodeGroup
  <2>2. QED
    BY <1>1, <1>5, <2>1
<1>6. QED
  BY <1>3, <1>4, <1>5 DEF GroupWord

(* The bytes a turn is given.                                              *)
LEMMA GroupOf ==
    ASSUME NEW w \in Seq(Byte), NEW q \in Nat, 3 * q < Len(w)
    PROVE  /\ Group(w, q) \in GroupWord
           /\ Len(Group(w, q)) = Min3(Len(w) - 3 * q)
           /\ \A i \in 1..3 :
                  ByteOf(Group(w, q), i) = IF 3 * q + i <= Len(w) THEN w[3 * q + i] ELSE 0
<1>1. PICK m \in Nat : m = Len(w)
  OBVIOUS
<1>2. PICK n \in 1..3 : n = Min3(m - 3 * q) /\ 3 * q + n <= m /\ (n < 3 => 3 * q + n = m)
  BY <1>1 DEF Min3
<1>3. /\ Group(w, q) = SubSeq(w, 3 * q + 1, 3 * q + n)
      /\ 3 * q + 1 \in 1..(m + 1) /\ 3 * q + n \in (3 * q)..m
  BY <1>1, <1>2 DEF Group
<1>4. /\ Group(w, q) \in Seq(Byte)
      /\ Len(Group(w, q)) = n
      /\ \A i \in 1..n : Group(w, q)[i] = w[3 * q + i]
  BY <1>1, <1>2, <1>3
<1>5. ASSUME NEW i \in 1..3
      PROVE  ByteOf(Group(w, q), i) = IF 3 * q + i <= Len(w) THEN w[3 * q + i] ELSE 0
  <2>1. i <= n <=> 3 * q + i <= m
    BY <1>2
  <2>2. QED
    BY <1>1, <1>4, <2>1 DEF ByteOf
<1>6. QED
  BY <1>1, <1>2, <1>4, <1>5 DEF GroupWord

(* Where the bits of a group are.                                          *)
LEMMA BitOf ==
    ASSUME NEW w \in Seq(Byte), NEW q \in Nat, 3 * q < Len(w), NEW c \in 0..2, NEW d \in 0..7
    PROVE  Bit(w, 24 * q + 8 * c + d) = ByteBit(ByteOf(Group(w, q), c + 1), d)
<1>1. (24 * q + 8 * c + d) \div 8 = 3 * q + c /\ (24 * q + 8 * c + d) % 8 = d
  OBVIOUS
<1>2. ByteOf(Group(w, q), c + 1) = IF 3 * q + c >= Len(w) THEN 0 ELSE w[3 * q + c + 1]
  <2>1. c + 1 \in 1..3 /\ 3 * q + (c + 1) = 3 * q + c + 1
    OBVIOUS
  <2>2. 3 * q + (c + 1) <= Len(w) <=> ~(3 * q + c >= Len(w))
    OBVIOUS
  <2>3. QED
    BY <2>1, <2>2, GroupOf
<1>3. ByteBit(0, d) = 0
  <2>1. d = 0 \/ d = 1 \/ d = 2 \/ d = 3 \/ d = 4 \/ d = 5 \/ d = 6 \/ d = 7
    OBVIOUS
  <2>2. /\ ByteBit(0, 0) = 0 /\ ByteBit(0, 1) = 0 /\ ByteBit(0, 2) = 0 /\ ByteBit(0, 3) = 0
        /\ ByteBit(0, 4) = 0 /\ ByteBit(0, 5) = 0 /\ ByteBit(0, 6) = 0 /\ ByteBit(0, 7) = 0
    BY Powers DEF ByteBit
  <2>3. QED
    BY <2>1, <2>2
<1>4. QED
  BY <1>1, <1>2, <1>3 DEF Bit, ByteBit

LEMMA BitsOfGroup ==
    ASSUME NEW w \in Seq(Byte), NEW q \in Nat, 3 * q < Len(w), NEW d \in 0..7
    PROVE  /\ Bit(w, 24 * q + d) = ByteBit(ByteOf(Group(w, q), 1), d)
           /\ Bit(w, 24 * q + 8 + d) = ByteBit(ByteOf(Group(w, q), 2), d)
           /\ Bit(w, 24 * q + 16 + d) = ByteBit(ByteOf(Group(w, q), 3), d)
<1>1. /\ Bit(w, 24 * q + 8 * 0 + d) = ByteBit(ByteOf(Group(w, q), 0 + 1), d)
      /\ Bit(w, 24 * q + 8 * 1 + d) = ByteBit(ByteOf(Group(w, q), 1 + 1), d)
      /\ Bit(w, 24 * q + 8 * 2 + d) = ByteBit(ByteOf(Group(w, q), 2 + 1), d)
  <2>1. 0 \in 0..2 /\ 1 \in 0..2 /\ 2 \in 0..2
    OBVIOUS
  <2>2. QED
    BY <2>1, BitOf
<1>2. QED
  BY <1>1

LEMMA SextetOf ==
    ASSUME NEW w \in Seq(Byte), NEW q \in Nat, 3 * q < Len(w), NEW r \in 0..3
    PROVE  Sextet(w, 4 * q + r) = Six(Group(w, q), r)
<1> DEFINE k == 24 * q + 6 * r
<1>1. Sextet(w, 4 * q + r) = 32 * Bit(w, k) + 16 * Bit(w, k + 1) + 8 * Bit(w, k + 2)
                              + 4 * Bit(w, k + 3) + 2 * Bit(w, k + 4) + Bit(w, k + 5)
  <2>1. /\ 6 * (4 * q + r) + 0 = k /\ 6 * (4 * q + r) + 1 = k + 1 /\ 6 * (4 * q + r) + 2 = k + 2
        /\ 6 * (4 * q + r) + 3 = k + 3 /\ 6 * (4 * q + r) + 4 = k + 4
        /\ 6 * (4 * q + r) + 5 = k + 5
    OBVIOUS
  <2> HIDE DEF k
  <2>2. QED
    BY <2>1 DEF Sextet
<1>2. PICK a \in 0..127, b \in 0..127, c \in 0..127 :
          /\ a = ByteOf(Group(w, q), 1) /\ b = ByteOf(Group(w, q), 2)
          /\ c = ByteOf(Group(w, q), 3)
  <2>1. 1 \in 1..3 /\ 2 \in 1..3 /\ 3 \in 1..3
    OBVIOUS
  <2>2. QED
    BY <2>1, GroupOf, ByteOfType
<1>3. \A d \in 0..7 : /\ Bit(w, 24 * q + d) = ByteBit(a, d)
                      /\ Bit(w, 24 * q + 8 + d) = ByteBit(b, d)
                      /\ Bit(w, 24 * q + 16 + d) = ByteBit(c, d)
  BY <1>2, BitsOfGroup
<1>4. \A i \in 0..7 : ByteBit(a, i) \in 0..1 /\ ByteBit(b, i) \in 0..1 /\ ByteBit(c, i) \in 0..1
  BY BitsOfByte
<1>5. CASE r = 0
  <2>1. /\ Bit(w, k) = ByteBit(a, 0) /\ Bit(w, k + 1) = ByteBit(a, 1)
        /\ Bit(w, k + 2) = ByteBit(a, 2) /\ Bit(w, k + 3) = ByteBit(a, 3)
        /\ Bit(w, k + 4) = ByteBit(a, 4) /\ Bit(w, k + 5) = ByteBit(a, 5)
    BY <1>3, <1>5
  <2>2. Six(Group(w, q), r) = a \div 4
    BY <1>2, <1>5 DEF Six
  <2>3. 32 * ByteBit(a, 0) + 16 * ByteBit(a, 1) + 8 * ByteBit(a, 2) + 4 * ByteBit(a, 3)
          + 2 * ByteBit(a, 4) + ByteBit(a, 5) = a \div 4
    BY BitsOfByte
  <2>4. QED
    BY <1>1, <2>1, <2>2, <2>3
<1>6. CASE r = 1
  <2>1. /\ Bit(w, k) = ByteBit(a, 6) /\ Bit(w, k + 1) = ByteBit(a, 7)
        /\ Bit(w, k + 2) = ByteBit(b, 0) /\ Bit(w, k + 3) = ByteBit(b, 1)
        /\ Bit(w, k + 4) = ByteBit(b, 2) /\ Bit(w, k + 5) = ByteBit(b, 3)
    BY <1>3, <1>6
  <2>2. Six(Group(w, q), r) = (((a * 64) % 256) \div 4) + (b \div 16)
    BY <1>2, <1>6 DEF Six
  <2>3. /\ 32 * ByteBit(a, 6) + 16 * ByteBit(a, 7) = ((a * 64) % 256) \div 4
        /\ 8 * ByteBit(b, 0) + 4 * ByteBit(b, 1) + 2 * ByteBit(b, 2) + ByteBit(b, 3) = b \div 16
    BY BitsOfByte
  <2>4. PICK x0 \in 0..1, x1 \in 0..1, x2 \in 0..1, x3 \in 0..1, x4 \in 0..1, x5 \in 0..1 :
            /\ x0 = ByteBit(a, 6) /\ x1 = ByteBit(a, 7) /\ x2 = ByteBit(b, 0)
            /\ x3 = ByteBit(b, 1) /\ x4 = ByteBit(b, 2) /\ x5 = ByteBit(b, 3)
    BY <1>4
  <2>5. 32 * x0 + 16 * x1 = ((a * 64) % 256) \div 4 /\ 8 * x2 + 4 * x3 + 2 * x4 + x5 = b \div 16
    BY <2>3, <2>4
  <2>6. Six(Group(w, q), r) = 32 * x0 + 16 * x1 + 8 * x2 + 4 * x3 + 2 * x4 + x5
    BY <2>2, <2>5
  <2>7. Sextet(w, 4 * q + r) = 32 * x0 + 16 * x1 + 8 * x2 + 4 * x3 + 2 * x4 + x5
    BY <1>1, <2>1, <2>4
  <2>8. QED
    BY <2>6, <2>7
<1>7. CASE r = 2
  <2>1. /\ Bit(w, k) = ByteBit(b, 4) /\ Bit(w, k + 1) = ByteBit(b, 5)
        /\ Bit(w, k + 2) = ByteBit(b, 6) /\ Bit(w, k + 3) = ByteBit(b, 7)
        /\ Bit(w, k + 4) = ByteBit(c, 0) /\ Bit(w, k + 5) = ByteBit(c, 1)
    BY <1>3, <1>7
  <2>2. Six(Group(w, q), r) = (((b * 16) % 256) \div 4) + (c \div 64)
    BY <1>2, <1>7 DEF Six
  <2>3. /\ 32 * ByteBit(b, 4) + 16 * ByteBit(b, 5) + 8 * ByteBit(b, 6) + 4 * ByteBit(b, 7)
             = ((b * 16) % 256) \div 4
        /\ 2 * ByteBit(c, 0) + ByteBit(c, 1) = c \div 64
    BY BitsOfByte
  <2>4. PICK x0 \in 0..1, x1 \in 0..1, x2 \in 0..1, x3 \in 0..1, x4 \in 0..1, x5 \in 0..1 :
            /\ x0 = ByteBit(b, 4) /\ x1 = ByteBit(b, 5) /\ x2 = ByteBit(b, 6)
            /\ x3 = ByteBit(b, 7) /\ x4 = ByteBit(c, 0) /\ x5 = ByteBit(c, 1)
    BY <1>4
  <2>5. 32 * x0 + 16 * x1 + 8 * x2 + 4 * x3 = ((b * 16) % 256) \div 4 /\ 2 * x4 + x5 = c \div 64
    BY <2>3, <2>4
  <2>6. Six(Group(w, q), r) = 32 * x0 + 16 * x1 + 8 * x2 + 4 * x3 + 2 * x4 + x5
    BY <2>2, <2>5
  <2>7. Sextet(w, 4 * q + r) = 32 * x0 + 16 * x1 + 8 * x2 + 4 * x3 + 2 * x4 + x5
    BY <1>1, <2>1, <2>4
  <2>8. QED
    BY <2>6, <2>7
<1>8. CASE r = 3
  <2>1. /\ Bit(w, k) = ByteBit(c, 2) /\ Bit(w, k + 1) = ByteBit(c, 3)
        /\ Bit(w, k + 2) = ByteBit(c, 4) /\ Bit(w, k + 3) = ByteBit(c, 5)
        /\ Bit(w, k + 4) = ByteBit(c, 6) /\ Bit(w, k + 5) = ByteBit(c, 7)
    BY <1>3, <1>8
  <2>2. Six(Group(w, q), r) = c % 64
    BY <1>2, <1>8 DEF Six
  <2>3. 32 * ByteBit(c, 2) + 16 * ByteBit(c, 3) + 8 * ByteBit(c, 4) + 4 * ByteBit(c, 5)
          + 2 * ByteBit(c, 6) + ByteBit(c, 7) = c % 64
    BY BitsOfByte
  <2>4. QED
    BY <1>1, <2>1, <2>2, <2>3
<1>9. QED
  BY <1>5, <1>6, <1>7, <1>8

(* Turns of the encoder, and characters it writes.                         *)
Turns(w) == (Len(w) + 2) \div 3

Code(w) == base64_encode(w).outdata

LEMMA CodeByTurn ==
    ASSUME NEW w \in Word
    PROVE  /\ base64_encode(w).outlen = 4 * Turns(w)
           /\ Code(w) = [j \in 1..(4 * Turns(w)) |->
                            EncodeGroup(Group(w, (j - 1) \div 4))[((j - 1) % 4) + 1]]
<1> DEFINE inlen   == Len(w)
           pad_num == IF inlen % 3 = 0 THEN 0 ELSE 3 - (inlen % 3)
           in_len  == inlen + pad_num
           outdata == [j \in 1..(4 * (in_len \div 3)) |->
                          EncodeGroup(Group(w, (j - 1) \div 4))[((j - 1) % 4) + 1]]
<1>1. PICK n \in Nat \ {0} : n = Len(w)
  BY EmptySeq DEF Word
<1>2. in_len \div 3 = Turns(w) /\ (in_len * 8) \div 6 = 4 * Turns(w)
  <2>1. PICK k \in Nat : k = (n + 2) \div 3
    OBVIOUS
  <2>2. in_len = 3 * k
    <3>1. CASE n % 3 = 0
      <4>1. in_len = n /\ n = 3 * k
        BY <1>1, <2>1, <3>1
      <4>2. QED
        BY <4>1
    <3>2. CASE n % 3 = 1
      <4>1. in_len = n + 2 /\ n + 2 = 3 * k
        BY <1>1, <2>1, <3>2
      <4>2. QED
        BY <4>1
    <3>3. CASE n % 3 = 2
      <4>1. in_len = n + 1 /\ n + 1 = 3 * k
        BY <1>1, <2>1, <3>3
      <4>2. QED
        BY <4>1
    <3>4. n % 3 = 0 \/ n % 3 = 1 \/ n % 3 = 2
      OBVIOUS
    <3>5. QED
      BY <3>1, <3>2, <3>3, <3>4
  <2> HIDE DEF in_len
  <2>3. (3 * k) \div 3 = k /\ (3 * k * 8) \div 6 = 4 * k
    OBVIOUS
  <2>4. Turns(w) = k
    BY <1>1, <2>1 DEF Turns
  <2>5. QED
    BY <2>2, <2>3, <2>4
<1>3. inlen # 0
  BY <1>1
<1>4. base64_encode(w) = [ret |-> 0, outdata |-> outdata, outlen |-> (in_len * 8) \div 6]
  BY <1>3 DEF base64_encode
<1> HIDE DEF in_len
<1>5. QED
  BY <1>2, <1>4 DEF Code

(* A position in the code is a character of a turn.                        *)
LEMMA TurnOf ==
    ASSUME NEW w \in Word, NEW j \in 1..(4 * Turns(w))
    PROVE  \E q \in 0..(Turns(w) - 1), r \in 0..3 :
               /\ j = 4 * q + r + 1 /\ q = (j - 1) \div 4 /\ r = (j - 1) % 4
               /\ 3 * q < Len(w)
<1>1. PICK n \in Nat \ {0} : n = Len(w)
  BY EmptySeq DEF Word
<1> DEFINE q == (j - 1) \div 4
           r == (j - 1) % 4
<1>2. q \in 0..(Turns(w) - 1) /\ r \in 0..3 /\ j = 4 * q + r + 1 /\ 3 * q < n
  BY <1>1 DEF Turns
<1>3. QED
  BY <1>1, <1>2

(* The characters of the code.                                             *)
LEMMA CodeIs ==
    ASSUME NEW w \in Word, NEW q \in 0..(Turns(w) - 1), NEW r \in 0..3
    PROVE  /\ q \in Nat /\ 3 * q < Len(w) /\ Group(w, q) \in GroupWord
           /\ 4 * q + r + 1 \in 1..(4 * Turns(w))
           /\ Code(w)[4 * q + r + 1] =
                  IF r > Len(Group(w, q)) THEN EQ ELSE alphabet(Six(Group(w, q), r))
<1>1. PICK n \in Nat \ {0} : n = Len(w)
  BY EmptySeq DEF Word
<1> DEFINE j == 4 * q + r + 1
<1>2. /\ q \in Nat /\ 3 * q < n /\ j \in 1..(4 * Turns(w))
      /\ (j - 1) \div 4 = q /\ ((j - 1) % 4) + 1 = r + 1
  BY <1>1 DEF Turns
<1>3. Group(w, q) \in GroupWord
  BY <1>1, <1>2, GroupOf DEF Word
<1> HIDE DEF j
<1>4. Code(w)[j] = EncodeGroup(Group(w, q))[r + 1]
  BY <1>2, CodeByTurn
<1>5. QED
  BY <1>1, <1>2, <1>3, <1>4, TurnWrites DEF j

(* What is written is what the bits of the word say.                       *)
LEMMA CodeIsReference ==
    ASSUME NEW w \in Word
    PROVE  Code(w) = Reference(w)
<1>1. ASSUME NEW j \in 1..(4 * Turns(w))
      PROVE  Code(w)[j] = IF 6 * (j - 1) >= 8 * Len(w) THEN EQ ELSE alphabet(Sextet(w, j - 1))
  <2>1. PICK q \in 0..(Turns(w) - 1), r \in 0..3 : j = 4 * q + r + 1
    BY TurnOf
  <2>2. /\ q \in Nat /\ 3 * q < Len(w) /\ Group(w, q) \in GroupWord
        /\ Code(w)[j] = IF r > Len(Group(w, q)) THEN EQ ELSE alphabet(Six(Group(w, q), r))
    BY <2>1, CodeIs
  <2>3. Len(Group(w, q)) = Min3(Len(w) - 3 * q) /\ Sextet(w, 4 * q + r) = Six(Group(w, q), r)
    BY <2>2, GroupOf, SextetOf DEF Word
  <2>4. r > Len(Group(w, q)) <=> 6 * (j - 1) >= 8 * Len(w)
    <3>1. PICK n \in Nat : n = Len(w)
      BY DEF Word
    <3>2. r > Min3(n - 3 * q) <=> 6 * (j - 1) >= 8 * n
      BY <2>1, <2>2, <3>1 DEF Min3
    <3>3. QED
      BY <2>3, <3>1, <3>2
  <2>5. j - 1 = 4 * q + r
    BY <2>1
  <2>6. QED
    BY <2>2, <2>3, <2>4, <2>5
<1>2. Code(w) = [j \in 1..(4 * Turns(w)) |-> Code(w)[j]]
  BY CodeByTurn
<1>3. Reference(w) = [j \in 1..(4 * Turns(w)) |->
          IF 6 * (j - 1) >= 8 * Len(w) THEN EQ ELSE alphabet(Sextet(w, j - 1))]
  BY DEF Reference, Turns
<1>4. QED
  BY <1>1, <1>2, <1>3
----------------------------------------------------------------------------
(* The words that can be typed.                                            *)
WordOK == word \in Seq(Byte)

LEMMA WordType == Spec => []WordOK
<1>1. Init => WordOK
  BY DEF Init, WordOK
<1>2. WordOK /\ [Type]_word => WordOK'
  <2>1. Bytes \subseteq Byte
    BY Base64Assumption DEF Byte
  <2>2. ASSUME WordOK, Type
        PROVE  WordOK'
    <3>1. PICK b \in Byte : word' = Append(word, b)
      BY <2>1, <2>2 DEF Type
    <3>2. QED
      BY <2>2, <3>1 DEF WordOK
  <2>3. QED
    BY <2>2 DEF WordOK
<1>3. QED
  BY <1>1, <1>2, PTL DEF Spec

(* base64_encode is base64 for words of any length over any bytes below    *)
(* 128, with '=' for what the last group lacks, and reports the length of  *)
(* what it wrote.                                                          *)
THEOREM EncodingIsBase64 == Spec => []EncodeIsBase64
<1>1. WordOK => EncodeIsBase64
  <2> SUFFICES ASSUME word \in Seq(Byte), word # <<>>
               PROVE  LET code == base64_encode(word)
                      IN  code.outdata = Reference(word) /\ code.outlen = Len(code.outdata)
    BY DEF EncodeIsBase64, WordOK
  <2>1. word \in Word
    BY DEF Word
  <2>2. Code(word) = Reference(word)
    BY <2>1, CodeIsReference
  <2>3. 4 * Turns(word) \in Nat
    BY <2>1 DEF Turns, Word
  <2>4. Len(Code(word)) = 4 * Turns(word)
    BY <2>1, <2>3, CodeByTurn
  <2>5. QED
    BY <2>1, <2>2, <2>4, CodeByTurn DEF Code
<1>2. QED
  BY <1>1, WordType, PTL
----------------------------------------------------------------------------
(* Induction over the natural numbers, for a set of them: the library's    *)
(* theorem is about predicates. It follows from the least number that the  *)
(* set lacks.                                                              *)
Smaller == {p \in Nat \X Nat : p[1] < p[2]}

LEMMA LeastNumber ==
    ASSUME NEW S \in SUBSET Nat, S # {}
    PROVE  \E n \in S : \A m \in S : n <= m
<1>1. IsWellFoundedOn(Smaller, Nat)
  BY NatLessThanWellFounded DEF OpToRel, Smaller
<1>2. PICK n \in S : \A m \in S : ~(<<m, n>> \in Smaller)
  BY <1>1, WFMin
<1>3. ASSUME NEW m \in S PROVE n <= m
  <2>1. m \in Nat /\ n \in Nat
    OBVIOUS
  <2>2. m < n => <<m, n>> \in Smaller
    BY <2>1 DEF Smaller
  <2>3. QED
    BY <1>2, <2>1, <2>2
<1>4. QED
  BY <1>3

LEMMA InductionOverSet ==
    ASSUME NEW S \in SUBSET Nat, 0 \in S, \A n \in S : n + 1 \in S
    PROVE  S = Nat
<1> SUFFICES ASSUME Nat \ S # {} PROVE FALSE
  OBVIOUS
<1>1. PICK n \in Nat \ S : \A m \in Nat \ S : n <= m
  BY LeastNumber
<1>2. n # 0 /\ n - 1 \in Nat
  OBVIOUS
<1>3. n - 1 \in S
  BY <1>1, <1>2
<1>4. QED
  BY <1>2, <1>3

(* The decoder's loop is well defined: there is one function that says     *)
(* what each turn makes of the turn before.                                *)
LEMMA AfterEachChar ==
    ASSUME NEW s, Len(s) \in Nat
    PROVE  /\ AfterChars(s)[0] = Start
           /\ \A x \in 1..Len(s) : AfterChars(s)[x] = DecodeChar(AfterChars(s)[x - 1], s[x])
<1> DEFINE Rule(f, n) == f = [x \in 0..n |-> IF x = 0 THEN Start ELSE DecodeChar(f[x - 1], s[x])]
           S == {n \in Nat : \E f : Rule(f, n)}
<1>1. 0 \in S
  <2> DEFINE f == [x \in 0..0 |-> Start]
  <2>1. Rule(f, 0)
    OBVIOUS
  <2>2. QED
    BY <2>1
<1>2. ASSUME NEW n \in S PROVE n + 1 \in S
  <2>1. PICK f : Rule(f, n)
    OBVIOUS
  <2> DEFINE h == [x \in 0..(n + 1) |-> IF x = n + 1 THEN DecodeChar(f[n], s[n + 1]) ELSE f[x]]
  <2>2. n \in Nat /\ n + 1 \in Nat
    OBVIOUS
  <2>3. ASSUME NEW x \in 0..(n + 1)
        PROVE  h[x] = IF x = 0 THEN Start ELSE DecodeChar(h[x - 1], s[x])
    <3>1. CASE x = n + 1
      <4>1. h[n] = f[n] /\ x # 0 /\ x - 1 = n
        BY <2>2, <3>1
      <4>2. QED
        BY <3>1, <4>1
    <3>2. CASE x \in 0..n
      <4>1. h[x] = f[x] /\ x # n + 1
        BY <2>2, <3>2
      <4>2. x # 0 => h[x - 1] = f[x - 1]
        BY <2>2, <3>2
      <4>3. f[x] = IF x = 0 THEN Start ELSE DecodeChar(f[x - 1], s[x])
        BY <2>1, <3>2
      <4> HIDE DEF h
      <4>4. QED
        BY <4>1, <4>2, <4>3
    <3>3. QED
      BY <2>2, <3>1, <3>2
  <2>4. Rule(h, n + 1)
    <3>1. h = [x \in 0..(n + 1) |-> h[x]]
      OBVIOUS
    <3> HIDE DEF h
    <3>2. QED
      BY <2>3, <3>1
  <2>5. QED
    BY <2>2, <2>4
<1>3. S = Nat
  <2> HIDE DEF S
  <2>1. S \in SUBSET Nat
    BY DEF S
  <2>2. QED
    BY <1>1, <1>2, <2>1, InductionOverSet
<1>4. \E f : Rule(f, Len(s))
  BY <1>3
<1>5. AfterChars(s) = CHOOSE f : Rule(f, Len(s))
  BY DEF AfterChars
<1>6. Rule(AfterChars(s), Len(s))
  BY <1>4, <1>5
<1>7. QED
  BY <1>6
----------------------------------------------------------------------------
(* The decoder between two characters, when nothing was wrong.             *)
Locals(t, y, g, o) == [ret |-> 0, t |-> t, y |-> y, g |-> g, outdata |-> o]

(* What the map says of padding and line breaks.                           *)
LEMMA SuffixOfOthers ==
    suffix_map(EQ) = 254 /\ suffix_map(13) = 253 /\ suffix_map(10) = 253
<1>1. suffix_map(EQ) = 254
  BY DEF suffix_map, EQ
<1>2. suffix_map(13) = 253
  BY DEF suffix_map, EQ
<1>3. suffix_map(10) = 253
  BY DEF suffix_map, EQ
<1>4. QED
  BY <1>1, <1>2, <1>3

(* A line break changes nothing.                                           *)
LEMMA SkipsBreak ==
    ASSUME NEW s, NEW c, suffix_map(c) = 253
    PROVE  DecodeChar(s, c) = s
BY DEF DecodeChar

(* The other characters of a code do.                                      *)
LEMMA TakesSextet ==
    ASSUME NEW t, NEW y, NEW g, NEW o, NEW c, NEW v,
           suffix_map(c) = v, v # 253, v # 255
    PROVE  DecodeChar(Locals(t, y, g, o), c) = DecodeSextet(Locals(t, y, g, o), v)
BY DEF DecodeChar, Locals

(* The first three characters of four, and the fourth, which writes three  *)
(* bytes, two or one: with p '=' among the two.                            *)
Means(v, d, p) ==
    /\ v = 254 => d = 0 /\ p = 1
    /\ v # 254 => d = v /\ p = 0

LEMMA DecodesOne ==
    ASSUME NEW t \in Nat, NEW y \in Nat, y < 3, NEW g \in Nat, NEW o, NEW v \in Nat,
           NEW d \in Nat, NEW p \in Nat, Means(v, d, p)
    PROVE  DecodeSextet(Locals(t, y, g, o), v) = Locals(t * 64 + d, y + 1, g - p, o)
BY DEF DecodeSextet, Locals, Means

LEMMA DecodesFourth ==
    ASSUME NEW t \in Nat, NEW g \in Nat, NEW o, NEW v \in Nat,
           NEW d \in Nat, NEW p \in Nat, Means(v, d, p),
           NEW n, n = IF g - p > 2 THEN 3 ELSE IF g - p > 1 THEN 2 ELSE 1
    PROVE  DecodeSextet(Locals(t, 3, g, o), v)
             = Locals(0, 0, g - p, o \o SubSeq(Bytes3(t * 64 + d), 1, n))
<1> DEFINE h == IF v = 254 THEN g - 1 ELSE g
           u == t * 64 + IF v = 254 THEN 0 ELSE v
           m == IF h > 2 THEN 3 ELSE IF h > 1 THEN 2 ELSE 1
<1>1. DecodeSextet(Locals(t, 3, g, o), v) = Locals(0, 0, h, o \o SubSeq(Bytes3(u), 1, m))
  BY DEF DecodeSextet, Locals
<1>2. h = g - p /\ u = t * 64 + d
  BY DEF Means
<1> HIDE DEF h, u
<1>3. m = n
  BY <1>2
<1> HIDE DEF m
<1>4. QED
  BY <1>1, <1>2, <1>3

(* A loop that goes as the turns say is the decoder's.                     *)
LEMMA LoopFollows ==
    ASSUME NEW s, NEW l \in Nat, l = Len(s), NEW f, f[0] = Start,
           \A x \in 1..l : f[x] = DecodeChar(f[x - 1], s[x])
    PROVE  \A x \in 0..l : AfterChars(s)[x] = f[x]
<1> DEFINE S == {n \in Nat : n <= l => AfterChars(s)[n] = f[n]}
<1>1. 0 \in S
  BY AfterEachChar
<1>2. ASSUME NEW n \in S PROVE n + 1 \in S
  <2>1. n \in Nat /\ n + 1 \in Nat
    OBVIOUS
  <2>2. ASSUME n + 1 <= l PROVE AfterChars(s)[n + 1] = f[n + 1]
    <3>1. n + 1 \in 1..l /\ (n + 1) - 1 = n /\ n <= l
      BY <2>1, <2>2
    <3>2. AfterChars(s)[n] = f[n]
      BY <3>1
    <3>3. AfterChars(s)[n + 1] = DecodeChar(AfterChars(s)[(n + 1) - 1], s[n + 1])
      BY <3>1, AfterEachChar
    <3>4. f[n + 1] = DecodeChar(f[(n + 1) - 1], s[n + 1])
      BY <3>1
    <3>5. QED
      BY <3>1, <3>2, <3>3, <3>4
  <2>3. QED
    BY <2>1, <2>2
<1>3. S = Nat
  <2> HIDE DEF S
  <2>1. S \in SUBSET Nat
    BY DEF S
  <2>2. QED
    BY <1>1, <1>2, <2>1, InductionOverSet
<1>4. QED
  BY <1>3
----------------------------------------------------------------------------
(* The characters of a group, and the locals after r of them.              *)
Char(g, r) == IF r > Len(g) THEN EQ ELSE alphabet(Six(g, r))

Within(g, r, o) ==
    Locals(CASE r = 0 -> 0
             [] r = 1 -> Six(g, 0)
             [] r = 2 -> Six(g, 0) * 64 + Six(g, 1)
             [] r = 3 -> (Six(g, 0) * 64 + Six(g, 1)) * 64 + Six(g, 2),
           r,
           IF r = 3 /\ Len(g) = 1 THEN 2 ELSE 3,
           o)

LEMMA SuffixOfChar ==
    ASSUME NEW g \in GroupWord, NEW r \in 0..3
    PROVE  suffix_map(Char(g, r)) = IF r > Len(g) THEN 254 ELSE Six(g, r)
<1>1. CASE r > Len(g)
  BY <1>1, SuffixOfOthers DEF Char
<1>2. CASE ~(r > Len(g))
  <2>1. Six(g, r) \in 0..63 /\ Char(g, r) = alphabet(Six(g, r))
    BY <1>2, SixType DEF Char
  <2>2. QED
    BY <1>2, <2>1, SuffixOfAlphabet
<1>3. QED
  BY <1>1, <1>2

(* What is missing counts for nothing.                                     *)
LEMMA SixOfMissing ==
    ASSUME NEW g \in GroupWord, NEW r \in 0..3, r > Len(g)
    PROVE  Six(g, r) = 0
<1>1. Len(g) \in 1..3
  BY DEF GroupWord
<1>2. ByteOf(g, 3) = 0 /\ (Len(g) = 1 => ByteOf(g, 2) = 0)
  BY <1>1 DEF ByteOf
<1>3. r = 3 \/ (r = 2 /\ Len(g) = 1)
  BY <1>1
<1>4. Six(g, 3) = 0 /\ (Len(g) = 1 => Six(g, 2) = 0)
  BY <1>2 DEF Six
<1>5. QED
  BY <1>3, <1>4

LEMMA DecodesWithin ==
    ASSUME NEW g \in GroupWord, NEW o, NEW r \in 0..2
    PROVE  DecodeChar(Within(g, r, o), Char(g, r)) = Within(g, r + 1, o)
<1>1. PICK v0 \in 0..63, v1 \in 0..63, v2 \in 0..63 :
          v0 = Six(g, 0) /\ v1 = Six(g, 1) /\ v2 = Six(g, 2)
  <2>1. 0 \in 0..3 /\ 1 \in 0..3 /\ 2 \in 0..3
    OBVIOUS
  <2>2. QED
    BY <2>1, SixType
<1>2. PICK n \in 1..3 : n = Len(g)
  BY DEF GroupWord
<1>3. PICK t \in Nat : t = CASE r = 0 -> 0 [] r = 1 -> v0 [] r = 2 -> v0 * 64 + v1
  OBVIOUS
<1>4. Within(g, r, o) = Locals(t, r, 3, o)
  BY <1>1, <1>3 DEF Within
<1>5. PICK v \in 0..254 : v = IF r > n THEN 254 ELSE Six(g, r)
  BY SixType
<1>6. DecodeChar(Within(g, r, o), Char(g, r)) = DecodeSextet(Locals(t, r, 3, o), v)
  <2>1. suffix_map(Char(g, r)) = v
    BY <1>2, <1>5, SuffixOfChar
  <2>2. v # 253 /\ v # 255
    BY <1>5, SixType
  <2>3. QED
    BY <1>4, <2>1, <2>2, TakesSextet
<1>7. v = 254 <=> r > n
  BY <1>5, SixType
<1>8. PICK d \in 0..63, p \in 0..1 :
          /\ Means(v, d, p)
          /\ d = CASE r = 0 -> v0 [] r = 1 -> v1 [] r = 2 -> v2
          /\ p = IF r = 2 /\ n = 1 THEN 1 ELSE 0
  <2>1. CASE r > n
    <3>1. r = 2 /\ n = 1 /\ v2 = 0
      BY <1>1, <1>2, <2>1, SixOfMissing
    <3>2. QED
      BY <1>7, <2>1, <3>1 DEF Means
  <2>2. CASE ~(r > n)
    <3>1. v = CASE r = 0 -> v0 [] r = 1 -> v1 [] r = 2 -> v2
      BY <1>1, <1>5, <2>2
    <3>2. QED
      BY <1>7, <2>2, <3>1 DEF Means
  <2>3. QED
    BY <2>1, <2>2
<1>9. DecodeSextet(Locals(t, r, 3, o), v) = Locals(t * 64 + d, r + 1, 3 - p, o)
  <2>1. r \in Nat /\ r < 3 /\ v \in Nat /\ d \in Nat /\ p \in Nat /\ Means(v, d, p)
    BY <1>8
  <2>2. QED
    BY <2>1, DecodesOne
<1>10. Locals(t * 64 + d, r + 1, 3 - p, o) = Within(g, r + 1, o)
  <2>1. CASE r = 0
    <3>1. t * 64 + d = v0
      BY <1>3, <1>8, <2>1
    <3>2. QED
      BY <1>1, <1>2, <1>8, <2>1, <3>1 DEF Within
  <2>2. CASE r = 1
    <3>1. t * 64 + d = v0 * 64 + v1
      BY <1>3, <1>8, <2>2
    <3>2. QED
      BY <1>1, <1>2, <1>8, <2>2, <3>1 DEF Within
  <2>3. CASE r = 2
    <3>1. t * 64 + d = (v0 * 64 + v1) * 64 + v2
      BY <1>3, <1>8, <2>3
    <3>2. QED
      BY <1>1, <1>2, <1>8, <2>3, <3>1 DEF Within
  <2>4. QED
    BY <2>1, <2>2, <2>3
<1>11. QED
  BY <1>6, <1>9, <1>10

(* The four sextets of a group are its bytes.                              *)
LEMMA BytesBack ==
    ASSUME NEW g \in GroupWord
    PROVE  Bytes3(((Six(g, 0) * 64 + Six(g, 1)) * 64 + Six(g, 2)) * 64 + Six(g, 3))
             = <<ByteOf(g, 1), ByteOf(g, 2), ByteOf(g, 3)>>
<1>1. PICK a \in 0..127, b \in 0..127, c \in 0..127 :
          a = ByteOf(g, 1) /\ b = ByteOf(g, 2) /\ c = ByteOf(g, 3)
  <2>1. 1 \in 1..3 /\ 2 \in 1..3 /\ 3 \in 1..3
    OBVIOUS
  <2>2. QED
    BY <2>1, ByteOfType
<1>2. PICK v0 \in Nat, v1 \in Nat, v2 \in Nat, v3 \in Nat :
          /\ v0 = a \div 4
          /\ v1 = (((a * 64) % 256) \div 4) + (b \div 16)
          /\ v2 = (((b * 16) % 256) \div 4) + (c \div 64)
          /\ v3 = c % 64
  OBVIOUS
<1>3. Six(g, 0) = v0 /\ Six(g, 1) = v1 /\ Six(g, 2) = v2 /\ Six(g, 3) = v3
  BY <1>1, <1>2 DEF Six
<1>4. ((v0 * 64 + v1) * 64 + v2) * 64 + v3 = 65536 * a + 256 * b + c
  BY <1>2
<1>5. PICK u \in Nat : u = 65536 * a + 256 * b + c
  OBVIOUS
<1>6. (u \div 65536) % 256 = a /\ (u \div 256) % 256 = b /\ u % 256 = c
  BY <1>5
<1>7. Bytes3(u) = <<a, b, c>>
  BY <1>6 DEF Bytes3
<1>8. QED
  BY <1>1, <1>3, <1>4, <1>5, <1>7

(* The fourth character of a group writes the group.                       *)
LEMMA DecodesGroup ==
    ASSUME NEW g \in GroupWord, NEW o
    PROVE  DecodeChar(Within(g, 3, o), Char(g, 3)) = Locals(0, 0, Len(g), o \o g)
<1>1. PICK v0 \in 0..63, v1 \in 0..63, v2 \in 0..63, v3 \in 0..63 :
          v0 = Six(g, 0) /\ v1 = Six(g, 1) /\ v2 = Six(g, 2) /\ v3 = Six(g, 3)
  <2>1. 0 \in 0..3 /\ 1 \in 0..3 /\ 2 \in 0..3 /\ 3 \in 0..3
    OBVIOUS
  <2>2. QED
    BY <2>1, SixType
<1>2. PICK n \in 1..3 : n = Len(g)
  BY DEF GroupWord
<1>3. PICK t \in Nat, k \in Nat :
          t = (v0 * 64 + v1) * 64 + v2 /\ k = IF n = 1 THEN 2 ELSE 3
  OBVIOUS
<1>4. Within(g, 3, o) = Locals(t, 3, k, o)
  BY <1>1, <1>2, <1>3 DEF Within
<1>5. PICK v \in Nat, p \in Nat :
          v = (IF n < 3 THEN 254 ELSE v3) /\ p = IF n < 3 THEN 1 ELSE 0
  OBVIOUS
<1>6. DecodeChar(Within(g, 3, o), Char(g, 3)) = DecodeSextet(Locals(t, 3, k, o), v)
  <2>1. 3 \in 0..3 /\ (3 > n <=> n < 3)
    OBVIOUS
  <2>2. suffix_map(Char(g, 3)) = v
    BY <1>1, <1>2, <1>5, <2>1, SuffixOfChar
  <2>3. v # 253 /\ v # 255
    BY <1>5
  <2>4. QED
    BY <1>4, <2>2, <2>3, TakesSextet
<1>7. n < 3 => v3 = 0
  <2>1. 3 \in 0..3 /\ (n < 3 => 3 > n)
    OBVIOUS
  <2>2. QED
    BY <1>1, <1>2, <2>1, SixOfMissing
<1>8. Means(v, v3, p)
  BY <1>5, <1>7 DEF Means
<1>9. k - p = n /\ n = IF k - p > 2 THEN 3 ELSE IF k - p > 1 THEN 2 ELSE 1
  BY <1>3, <1>5
<1>10. DecodeSextet(Locals(t, 3, k, o), v)
          = Locals(0, 0, k - p, o \o SubSeq(Bytes3(t * 64 + v3), 1, n))
  <2>1. v3 \in Nat
    OBVIOUS
  <2>2. QED
    BY <1>8, <1>9, <2>1, DecodesFourth
<1>11. SubSeq(Bytes3(t * 64 + v3), 1, n) = g
  <2>1. Bytes3(t * 64 + v3) = <<ByteOf(g, 1), ByteOf(g, 2), ByteOf(g, 3)>>
    BY <1>1, <1>3, BytesBack
  <2>2. g \in Seq(Byte) /\ Len(g) = n
    BY <1>2 DEF GroupWord
  <2>3. /\ ByteOf(g, 1) = g[1] /\ (n >= 2 => ByteOf(g, 2) = g[2])
        /\ (n >= 3 => ByteOf(g, 3) = g[3])
    BY <1>2, ByteOfType
  <2>4. CASE n = 1
    BY <2>1, <2>2, <2>3, <2>4
  <2>5. CASE n = 2
    BY <2>1, <2>2, <2>3, <2>5
  <2>6. CASE n = 3
    BY <2>1, <2>2, <2>3, <2>6
  <2>7. QED
    BY <2>4, <2>5, <2>6
<1>12. QED
  BY <1>2, <1>6, <1>9, <1>10, <1>11

(* The locals after x characters of a code.                                *)
DecodedAt(w, x) ==
    IF x < 4 * Turns(w) THEN Within(Group(w, x \div 4), x % 4, SubSeq(w, 1, 3 * (x \div 4)))
    ELSE Locals(0, 0, Len(Group(w, Turns(w) - 1)), w)

LEMMA CodeDecodes ==
    ASSUME NEW w \in Word, NEW x \in 1..(4 * Turns(w))
    PROVE  DecodeChar(DecodedAt(w, x - 1), Code(w)[x]) = DecodedAt(w, x)
<1>1. PICK q \in 0..(Turns(w) - 1), r \in 0..3 :
          /\ x = 4 * q + r + 1 /\ q = (x - 1) \div 4 /\ r = (x - 1) % 4
          /\ 3 * q < Len(w)
  BY TurnOf
<1>2. PICK n \in Nat : n = Len(w)
  BY DEF Word
<1>3. PICK k \in Nat : k = Turns(w) /\ k = (n + 2) \div 3 /\ q < k
  BY <1>1, <1>2 DEF Turns
<1> DEFINE g == Group(w, q)
           o == SubSeq(w, 1, 3 * q)
<1>4. /\ g \in GroupWord /\ Len(g) = Min3(n - 3 * q)
      /\ Code(w)[x] = Char(g, r)
  <2>1. q \in Nat /\ w \in Seq(Byte)
    BY <1>1, <1>3 DEF Word
  <2>2. QED
    BY <1>1, <1>2, <2>1, CodeIs, GroupOf DEF Char
<1>5. DecodedAt(w, x - 1) = Within(g, r, o)
  <2>1. x - 1 < 4 * k
    BY <1>3
  <2>2. QED
    BY <1>1, <1>3, <2>1 DEF DecodedAt
<1> HIDE DEF o
<1>6. CASE r < 3
  <2>1. r \in 0..2 /\ x < 4 * k /\ x \div 4 = q /\ x % 4 = r + 1
    BY <1>1, <1>3, <1>6
  <2>2. DecodeChar(Within(g, r, o), Char(g, r)) = Within(g, r + 1, o)
    BY <1>4, <2>1, DecodesWithin
  <2>3. DecodedAt(w, x) = Within(g, r + 1, o)
    BY <1>3, <2>1 DEF DecodedAt, o
  <2>4. QED
    BY <1>4, <1>5, <2>2, <2>3
<1>7. CASE r = 3
  <2>1. DecodeChar(Within(g, 3, o), Char(g, 3)) = Locals(0, 0, Len(g), o \o g)
    BY <1>4, DecodesGroup
  <2>2. PICK m \in Nat : /\ m = 3 * q + Min3(n - 3 * q)
                         /\ 3 * q \in 0..n /\ m \in (3 * q)..n
    <3>1. PICK z \in 1..3 : z = Min3(n - 3 * q) /\ 3 * q + z <= n
      BY <1>1, <1>2 DEF Min3
    <3>2. 3 * q + z \in Nat /\ 3 * q \in 0..n /\ 3 * q + z \in (3 * q)..n
      BY <3>1
    <3>3. QED
      BY <3>1, <3>2
  <2>3. o \o g = SubSeq(w, 1, m)
    <3>1. w \in Seq(Byte) /\ 1 \in 1..(Len(w) + 1) /\ 3 * q \in (1 - 1)..Len(w)
          /\ m \in (3 * q)..Len(w)
      BY <1>2, <2>2 DEF Word
    <3>2. SubSeq(w, 1, 3 * q) \o SubSeq(w, 3 * q + 1, m) = SubSeq(w, 1, m)
      BY <3>1, ConcatAdjacentSubSeq
    <3>3. g = SubSeq(w, 3 * q + 1, m)
      BY <1>2, <2>2 DEF Group
    <3>4. QED
      BY <3>2, <3>3 DEF o
  <2>4. CASE q + 1 < k
    <3>1. /\ x < 4 * k /\ x \div 4 = q + 1 /\ x % 4 = 0
          /\ Min3(n - 3 * q) = 3 /\ m = 3 * (q + 1)
      BY <1>1, <1>3, <1>7, <2>2, <2>4 DEF Min3
    <3>2. DecodedAt(w, x) = Within(Group(w, q + 1), 0, SubSeq(w, 1, m))
      BY <1>3, <3>1 DEF DecodedAt
    <3>3. DecodedAt(w, x) = Locals(0, 0, 3, SubSeq(w, 1, m))
      BY <3>2 DEF Within
    <3>4. QED
      BY <1>4, <1>5, <1>7, <2>1, <2>3, <3>1, <3>3
  <2>5. CASE q + 1 = k
    <3>1. ~(x < 4 * k) /\ k - 1 = q /\ m = n
      BY <1>1, <1>3, <1>7, <2>2, <2>5 DEF Min3
    <3>2. DecodedAt(w, x) = Locals(0, 0, Len(g), w)
      BY <1>3, <3>1 DEF DecodedAt
    <3>3. SubSeq(w, 1, m) = w
      BY <1>2, <3>1 DEF Word
    <3>4. QED
      BY <1>4, <1>5, <1>7, <2>1, <2>3, <3>2, <3>3
  <2>6. QED
    BY <1>3, <2>4, <2>5
<1>8. QED
  BY <1>6, <1>7

LEMMA DecodedEnds ==
    ASSUME NEW w \in Word
    PROVE  /\ 4 * Turns(w) \in Nat \ {0}
           /\ DecodedAt(w, 0) = Start
           /\ DecodedAt(w, 4 * Turns(w)) = Locals(0, 0, Len(Group(w, Turns(w) - 1)), w)
<1>1. PICK k \in Nat : k = Turns(w) /\ k # 0
  <2>1. PICK n \in Nat \ {0} : n = Len(w)
    BY EmptySeq DEF Word
  <2>2. QED
    BY <2>1 DEF Turns
<1>2. DecodedAt(w, 0) = Within(Group(w, 0), 0, SubSeq(w, 1, 3 * 0))
  <2>1. 0 < 4 * k /\ 0 \div 4 = 0 /\ 0 % 4 = 0
    BY <1>1
  <2>2. QED
    BY <1>1, <2>1 DEF DecodedAt
<1>3. SubSeq(w, 1, 3 * 0) = <<>>
  BY SubSeqEmpty
<1>4. DecodedAt(w, 0) = Start
  BY <1>2, <1>3 DEF Within, Locals, Start
<1>5. ~(4 * k < 4 * k) /\ 4 * k \in Nat \ {0}
  BY <1>1
<1>6. QED
  BY <1>1, <1>4, <1>5 DEF DecodedAt

(* The code is a sequence of characters.                                   *)
LEMMA CodeType ==
    ASSUME NEW w \in Word
    PROVE  Code(w) \in Seq(Nat) /\ Len(Code(w)) = 4 * Turns(w)
<1>1. ASSUME NEW j \in 1..(4 * Turns(w)) PROVE Code(w)[j] \in Nat
  <2>1. PICK q \in 0..(Turns(w) - 1), r \in 0..3 : j = 4 * q + r + 1
    BY TurnOf
  <2>2. /\ Group(w, q) \in GroupWord
        /\ Code(w)[j] = IF r > Len(Group(w, q)) THEN EQ ELSE alphabet(Six(Group(w, q), r))
    BY <2>1, CodeIs
  <2>3. Six(Group(w, q), r) \in 0..63
    BY <2>2, SixType
  <2>4. alphabet(Six(Group(w, q), r)) \in Nat /\ EQ \in Nat
    BY <2>3, SuffixOfAlphabet DEF EQ
  <2>5. QED
    BY <2>2, <2>4
<1>2. 4 * Turns(w) \in Nat
  BY DecodedEnds
<1>3. Code(w) = [j \in 1..(4 * Turns(w)) |-> Code(w)[j]]
  BY CodeByTurn
<1>4. QED
  BY <1>1, <1>2, <1>3

LEMMA DecodeEnds ==
    ASSUME NEW s \in Seq(Nat), NEW g, NEW o, Len(s) # 0, Len(s) % 4 = 0,
           AfterChars(s)[Len(s)] = Locals(0, 0, g, o)
    PROVE  base64_decode(s) = [ret |-> 0, outdata |-> o]
<1>1. Locals(0, 0, g, o).ret = 0 /\ Locals(0, 0, g, o).outdata = o
  BY DEF Locals
<1>2. QED
  BY <1>1 DEF base64_decode

LEMMA DecodesCode ==
    ASSUME NEW w \in Word
    PROVE  base64_decode(Code(w)) = [ret |-> 0, outdata |-> w]
<1>1. PICK n \in Nat \ {0} : n = 4 * Turns(w) /\ n % 4 = 0
  <2>1. PICK k \in Nat : k = Turns(w)
    BY DEF Turns, Word
  <2>2. (4 * k) % 4 = 0
    OBVIOUS
  <2>3. QED
    BY <2>1, <2>2, DecodedEnds
<1>2. Code(w) \in Seq(Nat) /\ Len(Code(w)) = n
  BY <1>1, CodeType
<1> DEFINE f == [x \in 0..n |-> DecodedAt(w, x)]
<1>3. f[0] = Start /\ f[n] = DecodedAt(w, n)
  BY DecodedEnds
<1>4. ASSUME NEW x \in 1..n PROVE f[x] = DecodeChar(f[x - 1], Code(w)[x])
  <2>1. x \in 1..n /\ x \in 0..n /\ x - 1 \in 0..n
    OBVIOUS
  <2>2. QED
    BY <1>1, <2>1, CodeDecodes
<1> HIDE DEF f
<1>5. \A x \in 0..n : AfterChars(Code(w))[x] = f[x]
  BY <1>2, <1>3, <1>4, LoopFollows
<1>6. AfterChars(Code(w))[Len(Code(w))] = Locals(0, 0, Len(Group(w, Turns(w) - 1)), w)
  BY <1>1, <1>2, <1>3, <1>5, DecodedEnds
<1>7. QED
  BY <1>1, <1>2, <1>6, DecodeEnds
----------------------------------------------------------------------------
LEMMA Joined ==
    ASSUME NEW a \in Seq(Nat), NEW b \in Seq(Nat)
    PROVE  a \o b \in Seq(Nat) /\ Len(a \o b) = Len(a) + Len(b)
OBVIOUS

LEMMA FirstOfJoined ==
    ASSUME NEW a \in Seq(Nat), NEW b \in Seq(Nat), NEW x \in 1..Len(a)
    PROVE  (a \o b)[x] = a[x]
OBVIOUS

LEMMA SecondOfJoined ==
    ASSUME NEW a \in Seq(Nat), NEW b \in Seq(Nat), NEW x \in 1..Len(b)
    PROVE  (a \o b)[Len(a) + x] = b[x]
OBVIOUS

(* The characters of a broken code.                                        *)
LEMMA Broken ==
    ASSUME NEW c \in Seq(Nat), NEW n \in Nat, n = Len(c), NEW i \in Nat, i <= n
    PROVE  /\ BrokenAfter(c, i) \in Seq(Nat)
           /\ Len(BrokenAfter(c, i)) = n + 4
           /\ \A x \in 1..(n + 4) :
                  /\ x <= i => BrokenAfter(c, i)[x] = c[x]
                  /\ x > i /\ x <= i + 4 => BrokenAfter(c, i)[x] \in {10, 13}
                  /\ x > i + 4 => BrokenAfter(c, i)[x] = c[x - 4]
<1> DEFINE a == SubSeq(c, 1, i)
           b == <<13, 10, 13, 10>>
           d == SubSeq(c, i + 1, Len(c))
<1>1. a \in Seq(Nat) /\ Len(a) = i /\ \A x \in 1..i : a[x] = c[x]
  OBVIOUS
<1>2. b \in Seq(Nat) /\ Len(b) = 4 /\ \A x \in 1..4 : b[x] \in {10, 13}
  OBVIOUS
<1>3. d \in Seq(Nat) /\ Len(d) = n - i /\ \A x \in 1..(n - i) : d[x] = c[i + x]
  OBVIOUS
<1> HIDE DEF a, b, d
<1>4. /\ a \o b \in Seq(Nat)
      /\ Len(a \o b) = i + 4
  <2>1. a \in Seq(Nat) /\ b \in Seq(Nat) /\ Len(a) = i /\ Len(b) = 4
    BY <1>1, <1>2
  <2>2. a \o b \in Seq(Nat) /\ Len(a \o b) = Len(a) + Len(b)
    BY <2>1, Joined, Zenon
  <2>3. QED
    BY <2>1, <2>2, Zenon
<1>5. ASSUME NEW x \in 1..i PROVE (a \o b)[x] = c[x]
  <2>1. x \in 1..Len(a) /\ a[x] = c[x]
    BY <1>1
  <2>2. QED
    BY <1>1, <1>2, <2>1, FirstOfJoined, Zenon
<1>6. ASSUME NEW x \in 1..4 PROVE (a \o b)[i + x] \in {10, 13}
  <2>1. (a \o b)[i + x] = b[x]
    <3>1. a \in Seq(Nat) /\ b \in Seq(Nat) /\ Len(a) = i /\ x \in 1..Len(b)
      BY <1>1, <1>2
    <3>2. (a \o b)[Len(a) + x] = b[x]
      BY <3>1, SecondOfJoined, Zenon
    <3>3. QED
      BY <3>1, <3>2, Zenon
  <2>2. QED
    BY <1>2, <2>1
<1> DEFINE s == a \o b
<1> HIDE DEF s
<1>7. s \o d \in Seq(Nat) /\ Len(s \o d) = n + 4
  <2>1. s \o d \in Seq(Nat) /\ Len(s \o d) = (i + 4) + (n - i)
    <3>1. s \in Seq(Nat) /\ d \in Seq(Nat) /\ Len(s) = i + 4 /\ Len(d) = n - i
      BY <1>3, <1>4 DEF s
    <3>2. s \o d \in Seq(Nat) /\ Len(s \o d) = Len(s) + Len(d)
      BY <3>1, Joined, Zenon
    <3>3. QED
      BY <3>1, <3>2, Zenon
  <2>2. QED
    BY <2>1
<1>8. ASSUME NEW x \in 1..(i + 4) PROVE (s \o d)[x] = s[x]
  <2>1. s \in Seq(Nat) /\ d \in Seq(Nat) /\ x \in 1..Len(s)
    BY <1>3, <1>4 DEF s
  <2>2. QED
    BY <2>1, FirstOfJoined, Zenon
<1>9. ASSUME NEW x \in 1..(n - i) PROVE (s \o d)[(i + 4) + x] = c[i + x]
  <2>1. (s \o d)[(i + 4) + x] = d[x]
    <3>1. s \in Seq(Nat) /\ d \in Seq(Nat) /\ Len(s) = i + 4 /\ x \in 1..Len(d)
      BY <1>3, <1>4 DEF s
    <3>2. (s \o d)[Len(s) + x] = d[x]
      BY <3>1, SecondOfJoined, Zenon
    <3>3. QED
      BY <3>1, <3>2, Zenon
  <2>2. QED
    BY <1>3, <2>1
<1>10. BrokenAfter(c, i) = s \o d
  BY DEF BrokenAfter, s, a, b, d
<1> DEFINE r == BrokenAfter(c, i)
<1> HIDE DEF r
<1>11. ASSUME NEW x \in 1..(n + 4), x <= i PROVE r[x] = c[x]
  <2>1. x \in 1..(i + 4) /\ x \in 1..i
    BY <1>11
  <2>2. (s \o d)[x] = s[x] /\ s[x] = c[x]
    BY <1>5, <1>8, <2>1 DEF s
  <2>3. QED
    BY <1>10, <2>2 DEF r
<1>12. ASSUME NEW x \in 1..(n + 4), x > i, x <= i + 4 PROVE r[x] \in {10, 13}
  <2>1. x \in 1..(i + 4) /\ x - i \in 1..4 /\ i + (x - i) = x
    BY <1>12
  <2>2. (s \o d)[x] = s[x]
    BY <1>8, <2>1
  <2>3. (a \o b)[i + (x - i)] \in {10, 13}
    BY <1>6, <2>1
  <2>4. QED
    BY <1>10, <2>1, <2>2, <2>3 DEF r, s
<1>13. ASSUME NEW x \in 1..(n + 4), x > i + 4 PROVE r[x] = c[x - 4]
  <2>1. PICK z \in 1..(n - i) : x = (i + 4) + z /\ i + z = x - 4
    <3>1. /\ x - (i + 4) \in 1..(n - i) /\ x = (i + 4) + (x - (i + 4))
          /\ i + (x - (i + 4)) = x - 4
      BY <1>13
    <3>2. QED
      BY <3>1
  <2>2. (s \o d)[(i + 4) + z] = c[i + z]
    BY <1>9
  <2>3. QED
    BY <1>10, <2>1, <2>2 DEF r
<1>14. QED
  BY <1>7, <1>10, <1>11, <1>12, <1>13 DEF r

LEMMA DecodesBroken ==
    ASSUME NEW w \in Word, NEW i \in 0..Len(Code(w))
    PROVE  base64_decode(BrokenAfter(Code(w), i)) = [ret |-> 0, outdata |-> w]
<1>1. PICK n \in Nat, l \in Nat : n = 4 * Turns(w) /\ l = n + 4 /\ l % 4 = 0
  <2>1. PICK k \in Nat : k = Turns(w)
    BY DEF Turns, Word
  <2>2. (4 * k + 4) % 4 = 0 /\ 4 * k \in Nat /\ 4 * k + 4 \in Nat
    OBVIOUS
  <2>3. QED
    BY <2>1, <2>2
<1>2. Code(w) \in Seq(Nat) /\ Len(Code(w)) = n /\ i \in Nat /\ i <= n
  BY <1>1, CodeType
<1> DEFINE b == BrokenAfter(Code(w), i)
           at(x) == IF x <= i THEN x ELSE IF x <= i + 4 THEN i ELSE x - 4
           f == [x \in 0..l |-> DecodedAt(w, at(x))]
<1>3. /\ b \in Seq(Nat) /\ Len(b) = l
      /\ \A x \in 1..l :
             /\ x <= i => b[x] = Code(w)[x]
             /\ x > i /\ x <= i + 4 => b[x] \in {10, 13}
             /\ x > i + 4 => b[x] = Code(w)[x - 4]
  BY <1>1, <1>2, Broken
<1> HIDE DEF b
<1>4. \A x \in 0..l : f[x] = DecodedAt(w, at(x))
  OBVIOUS
<1> HIDE DEF f
<1>5. f[0] = Start /\ f[l] = DecodedAt(w, n)
  <2>1. at(0) = 0 /\ at(l) = n /\ 0 \in 0..l /\ l \in 0..l
    BY <1>1, <1>2
  <2> HIDE DEF at
  <2>2. QED
    BY <1>4, <2>1, DecodedEnds
<1>6. ASSUME NEW x \in 1..l PROVE f[x] = DecodeChar(f[x - 1], b[x])
  <2>1. f[x] = DecodedAt(w, at(x)) /\ f[x - 1] = DecodedAt(w, at(x - 1))
    <3>1. x \in 0..l /\ x - 1 \in 0..l
      OBVIOUS
    <3> HIDE DEF at
    <3>2. QED
      BY <1>4, <3>1
  <2>2. CASE x <= i
    <3>1. at(x) = x /\ at(x - 1) = x - 1 /\ x \in 1..n /\ b[x] = Code(w)[x]
      BY <1>2, <1>3, <2>2
    <3> HIDE DEF at
    <3>2. DecodeChar(DecodedAt(w, x - 1), Code(w)[x]) = DecodedAt(w, x)
      BY <1>1, <3>1, CodeDecodes
    <3>3. QED
      BY <2>1, <3>1, <3>2
  <2>3. CASE x > i /\ x <= i + 4
    <3>1. at(x) = i /\ at(x - 1) = i
      BY <1>2, <2>3
    <3>2. b[x] = 10 \/ b[x] = 13
      BY <1>3, <2>3
    <3>3. suffix_map(b[x]) = 253
      BY <3>2, SuffixOfOthers
    <3> HIDE DEF at
    <3>4. QED
      BY <2>1, <3>1, <3>3, SkipsBreak
  <2>4. CASE x > i + 4
    <3>1. PICK z \in 1..n : z = x - 4
      BY <1>1, <1>2, <2>4
    <3>2. at(x) = z /\ at(x - 1) = z - 1 /\ b[x] = Code(w)[z]
      BY <1>2, <1>3, <2>4, <3>1
    <3> HIDE DEF at
    <3>3. DecodeChar(DecodedAt(w, z - 1), Code(w)[z]) = DecodedAt(w, z)
      BY <1>1, CodeDecodes
    <3>4. QED
      BY <2>1, <3>2, <3>3
  <2>5. QED
    BY <1>2, <2>2, <2>3, <2>4
<1> HIDE DEF at
<1>7. \A x \in 0..l : AfterChars(b)[x] = f[x]
  BY <1>3, <1>5, <1>6, LoopFollows
<1>8. AfterChars(b)[Len(b)] = Locals(0, 0, Len(Group(w, Turns(w) - 1)), w)
  BY <1>1, <1>3, <1>5, <1>7, DecodedEnds
<1>9. Len(b) # 0 /\ Len(b) % 4 = 0 /\ b \in Seq(Nat)
  BY <1>1, <1>3
<1>10. base64_decode(b) = [ret |-> 0, outdata |-> w]
  BY <1>8, <1>9, DecodeEnds
<1>11. QED
  BY <1>10 DEF b

(* base64_decode gives back every word that was encoded, whatever its      *)
(* length and its bytes below 128, and does so when a line break stands    *)
(* anywhere in the code.                                                   *)
THEOREM DecodingInverts == Spec => []DecodeInverts
<1>1. WordOK => DecodeInverts
  <2> SUFFICES ASSUME word \in Seq(Byte), word # <<>>
               PROVE  LET code == base64_encode(word).outdata
                          back == [ret |-> 0, outdata |-> word]
                      IN  /\ base64_decode(code) = back
                          /\ \A i \in 0..Len(code) : base64_decode(BrokenAfter(code, i)) = back
    BY DEF DecodeInverts, WordOK
  <2>1. word \in Word
    BY DEF Word
  <2>2. QED
    BY <2>1, DecodesCode, DecodesBroken DEF Code
<1>2. QED
  BY <1>1, WordType, PTL
=============================================================================
