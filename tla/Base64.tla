------------------------------- MODULE Base64 -------------------------------
(***************************************************************************)
(* base64_encode, which process_msg uses on "username:password", and       *)
(* base64_decode. A string is a sequence of byte values; the encoder reads *)
(* signed chars, so its input is limited to bytes below 128.               *)
(***************************************************************************)
EXTENDS Integers, Sequences

CONSTANTS
    Bytes,     \* the bytes of words considered
    MaxLen     \* bound: length of a word

ASSUME Base64Assumption == Bytes \subseteq 1..127 /\ MaxLen \in Nat

VARIABLE word   \* what has been typed so far
----------------------------------------------------------------------------
EQ == 61   \* '='

(* base64_alphabet, by index.                                              *)
alphabet(v) ==
    CASE v \in 0..25  -> 65 + v
      [] v \in 26..51 -> 97 + (v - 26)
      [] v \in 52..61 -> 48 + (v - 52)
      [] v = 62       -> 43
      [] v = 63       -> 47

(* base64_suffix_map: 253 is skipped, 254 is '=', 255 is not in the table. *)
suffix_map(c) ==
    CASE c \in 65..90     -> c - 65
      [] c \in 97..122    -> c - 97 + 26
      [] c \in 48..57     -> c - 48 + 52
      [] c = 43           -> 62
      [] c = 47           -> 63
      [] c \in {10, 13, 32} -> 253
      [] c = EQ           -> 254
      [] OTHER            -> 255

(* Shifts of an unsigned char: what leaves its eight bits is lost.         *)
cmove_bits(src, lnum, rnum) == ((src * 2^lnum) % 256) \div 2^rnum

Min3(n) == IF n < 3 THEN n ELSE 3

(* Mutant: with one byte missing, the third character is shifted too far.  *)
EncodeGroup_Shift(g) ==
    LET a == g[1] IN
    CASE Len(g) = 1 -> <<alphabet(a \div 4), alphabet(cmove_bits(a, 6, 2)), EQ, EQ>>
      [] Len(g) = 2 -> <<alphabet(a \div 4), alphabet(cmove_bits(a, 6, 2) + cmove_bits(g[2], 0, 4)),
                         alphabet(cmove_bits(g[2], 4, 4)), EQ>>
      [] OTHER      -> <<alphabet(a \div 4), alphabet(cmove_bits(a, 6, 2) + cmove_bits(g[2], 0, 4)),
                         alphabet(cmove_bits(g[2], 4, 2) + cmove_bits(g[3], 0, 6)),
                         alphabet(g[3] % 64)>>

(* One turn of the encoder's loop: three bytes, or the last one or two.    *)
EncodeGroup(g) ==
    LET a == g[1] IN
    CASE Len(g) = 1 -> <<alphabet(a \div 4), alphabet(cmove_bits(a, 6, 2)), EQ, EQ>>
      [] Len(g) = 2 -> <<alphabet(a \div 4), alphabet(cmove_bits(a, 6, 2) + cmove_bits(g[2], 0, 4)),
                         alphabet(cmove_bits(g[2], 4, 2)), EQ>>
      [] OTHER      -> <<alphabet(a \div 4), alphabet(cmove_bits(a, 6, 2) + cmove_bits(g[2], 0, 4)),
                         alphabet(cmove_bits(g[2], 4, 2) + cmove_bits(g[3], 0, 6)),
                         alphabet(g[3] % 64)>>

(* What the turn for i = 3 * k is given.                                   *)
Group(indata, k) == SubSeq(indata, 3*k + 1, 3*k + Min3(Len(indata) - 3*k))

(* outdata and *outlen; ret is 1 for an empty word, with nothing written.  *)
(* Each turn writes four characters, next to those of the turn before.     *)
base64_encode(indata) ==
    LET inlen   == Len(indata)
        pad_num == IF inlen % 3 = 0 THEN 0 ELSE 3 - (inlen % 3)
        in_len  == inlen + pad_num
        out_len == (in_len * 8) \div 6
        outdata == [j \in 1..(4 * (in_len \div 3)) |->
                       EncodeGroup(Group(indata, (j - 1) \div 4))[((j - 1) % 4) + 1]]
    IN  IF inlen = 0 THEN [ret |-> 1, outdata |-> <<>>, outlen |-> 0]
        ELSE [ret |-> 0, outdata |-> outdata, outlen |-> out_len]

(* The decoder's locals; ret # 0 once it has returned.                     *)
Start == [ret |-> 0, t |-> 0, y |-> 0, g |-> 3, outdata |-> <<>>]

(* The low 24 bits of t, as three unsigned chars.                          *)
Bytes3(t) == <<(t \div 65536) % 256, (t \div 256) % 256, t % 256>>

(* Mutant: g counts no '='.                                                *)
DecodeSextet_NoPad(s, v) ==
    LET t == s.t * 64 + IF v = 254 THEN 0 ELSE v
    IN  IF s.y < 3 THEN [s EXCEPT !.t = t, !.y = s.y + 1]
        ELSE [s EXCEPT !.t = 0, !.y = 0, !.outdata = @ \o Bytes3(t)]

(* What a character of the table adds. Every fourth one writes three bytes, *)
(* one fewer for each '=' so far.                                          *)
DecodeSextet(s, v) ==
    LET g == IF v = 254 THEN s.g - 1 ELSE s.g
        t == s.t * 64 + IF v = 254 THEN 0 ELSE v
        n == IF g > 2 THEN 3 ELSE IF g > 1 THEN 2 ELSE 1
    IN  IF s.y < 3 THEN [ret |-> 0, t |-> t, y |-> s.y + 1, g |-> g, outdata |-> s.outdata]
        ELSE [ret |-> 0, t |-> 0, y |-> 0, g |-> g,
              outdata |-> s.outdata \o SubSeq(Bytes3(t), 1, n)]

(* One turn of the decoder's loop, which a character outside the table     *)
(* ends.                                                                   *)
DecodeChar(s, c) ==
    LET v == suffix_map(c)
    IN  IF s.ret # 0 \/ v = 253 THEN s
        ELSE IF v = 255 THEN [s EXCEPT !.ret = -1]
        ELSE DecodeSextet(s, v)

(* The locals after each turn.                                             *)
AfterChars(indata) ==
    LET after[x \in 0..Len(indata)] == IF x = 0 THEN Start ELSE DecodeChar(after[x - 1], indata[x])
    IN  after

base64_decode(indata) ==
    LET inlen == Len(indata)
        last  == AfterChars(indata)[inlen]
    IN  CASE inlen = 0     -> [ret |-> -1, outdata |-> <<>>]
          [] inlen % 4 # 0 -> [ret |-> -2, outdata |-> <<>>]
          [] OTHER         -> [ret |-> last.ret, outdata |-> last.outdata]
----------------------------------------------------------------------------
Init == word = <<>>

(* Every word is reached, a byte at a time.                                *)
Type == Len(word) < MaxLen /\ \E b \in Bytes : word' = Append(word, b)

Spec == Init /\ [][Type]_word
----------------------------------------------------------------------------
(* Reference: the word as bits, most significant first and 0 after its     *)
(* end, read off six at a time and filled up with '=' to a multiple of 4.  *)
Bit(w, k) == IF k \div 8 >= Len(w) THEN 0 ELSE (w[k \div 8 + 1] \div 2^(7 - (k % 8))) % 2

Sextet(w, j) ==
    LET bit(i) == Bit(w, 6 * j + i)
    IN  32 * bit(0) + 16 * bit(1) + 8 * bit(2) + 4 * bit(3) + 2 * bit(4) + bit(5)

Reference(w) ==
    [j \in 1..(4 * ((Len(w) + 2) \div 3)) |->
        IF 6 * (j - 1) >= 8 * Len(w) THEN EQ ELSE alphabet(Sextet(w, j - 1))]

(* base64_encode is base64, and the length it reports is that of its       *)
(* output, which the credential of a client is compared over               *)
(* (process_map.cpp, 300 to 308).                                          *)
EncodeIsBase64 ==
    word # <<>> => LET code == base64_encode(word)
                   IN  code.outdata = Reference(word) /\ code.outlen = Len(code.outdata)

(* A line break may stand anywhere in what is decoded as long as the whole *)
(* is a multiple of four characters.                                       *)
BrokenAfter(code, i) == SubSeq(code, 1, i) \o <<13, 10, 13, 10>> \o SubSeq(code, i + 1, Len(code))

(* base64_decode gives back the word that was encoded, and does so when    *)
(* the code has been broken into lines.                                    *)
DecodeInverts ==
    word # <<>> => LET code == base64_encode(word).outdata
                       back == [ret |-> 0, outdata |-> word]
                   IN  /\ base64_decode(code) = back
                       /\ \A i \in 0..Len(code) : base64_decode(BrokenAfter(code, i)) = back
=============================================================================
