-------------------------------- MODULE Utf8 --------------------------------
(***************************************************************************)
(* UTF-8 as src/src/pyjson.hpp reads and writes it, surrogates included:   *)
(* decode_utf8, which every JSON body goes through (they pass, as Python's *)
(* surrogatepass lets them); utf8_error, which names what is wrong with a  *)
(* body that is not JSON; append_utf8.  A text is its bytes or its code    *)
(* points; positions count from 0.                                         *)
(***************************************************************************)
EXTENDS Integers, Sequences

InRange(b, lo, hi) == lo <= b /\ b <= hi
Continues(b) == InRange(b, 128, 191)

-----------------------------------------------------------------------------
(* decode_utf8 *)

\* The length a first byte announces; 0 for none.  (A byte past F4 announces 3.)
Length(c) == IF c < 128 THEN 1
             ELSE IF InRange(c, 240, 244) THEN 4
             ELSE IF c >= 224 THEN 3
             ELSE IF InRange(c, 194, 223) THEN 2
             ELSE 0

\* The character's number: the bits of its first byte, then six of each other.
Bits(b) == b % 64
CodePoint(s) ==
  CASE Len(s) = 1 -> s[1]
    [] Len(s) = 2 -> (s[1] % 32) * 64 + Bits(s[2])
    [] Len(s) = 3 -> ((s[1] % 16) * 64 + Bits(s[2])) * 64 + Bits(s[3])
    [] OTHER -> (((s[1] % 8) * 64 + Bits(s[2])) * 64 + Bits(s[3])) * 64 + Bits(s[4])

\* Overlong, or past the last code point.
OutOfPlace(cp, len) == \/ len = 3 /\ cp < 2048
                       \/ len = 4 /\ (cp < 65536 \/ cp > 1114111)

Char(bytes, i) == SubSeq(bytes, i + 1, i + Length(bytes[i + 1]))
Valid(bytes, i) ==
  LET len == Length(bytes[i + 1]) IN
    /\ len # 0
    /\ i + len <= Len(bytes)
    /\ \A j \in 2..len : Continues(bytes[i + j])
    /\ ~OutOfPlace(CodePoint(Char(bytes, i)), len)

Decoded(bytes) ==
  LET from[i \in 0..Len(bytes)] ==
        IF i = Len(bytes) THEN [valid |-> TRUE, text |-> <<>>]
        ELSE IF ~Valid(bytes, i) THEN [valid |-> FALSE, text |-> <<>>]
        ELSE LET rest == from[i + Length(bytes[i + 1])]
             IN [rest EXCEPT !.text = <<CodePoint(Char(bytes, i))>> \o @]
  IN from[0]

-----------------------------------------------------------------------------
(* utf8_error *)

Need(c) == IF c < 128 THEN 1
           ELSE IF InRange(c, 194, 223) THEN 2
           ELSE IF InRange(c, 224, 239) THEN 3
           ELSE IF InRange(c, 240, 244) THEN 4
           ELSE 0

SecondMayBeWithSurrogates(c, b) ==
  CASE c = 224 -> InRange(b, 160, 191)
    [] c = 240 -> InRange(b, 144, 191)
    [] c = 244 -> InRange(b, 128, 143)
    [] OTHER -> Continues(b)
SecondMayBe(c, b) == CASE c = 224 -> InRange(b, 160, 191)
                       [] c = 237 -> InRange(b, 128, 159)
                       [] c = 240 -> InRange(b, 144, 191)
                       [] c = 244 -> InRange(b, 128, 143)
                       [] OTHER -> Continues(b)
May(first, j, b) == IF j = 2 THEN SecondMayBe(first, b) ELSE Continues(b)

\* How many bytes of the character at i are good.
Good(bytes, i) ==
  LET first == bytes[i + 1]
      good(j) == i + j <= Len(bytes) /\ May(first, j, bytes[i + j])
  IN CHOOSE g \in 1..Need(first) :
       /\ \A j \in 2..g : good(j)
       /\ g < Need(first) => ~good(g + 1)

\* <<position, how many bytes, reason>>, or <<>>
Utf8Error(bytes) ==
  LET from[i \in 0..Len(bytes)] ==
        IF i = Len(bytes) THEN <<>>
        ELSE LET need == Need(bytes[i + 1])
                 g == Good(bytes, i)
             IN IF need = 0 THEN <<i, 1, "start">>
                ELSE IF g = need THEN from[i + need]
                ELSE <<i, g, IF i + g + 1 > Len(bytes) THEN "end" ELSE "continuation">>
  IN from[0]

-----------------------------------------------------------------------------
(* append_utf8 *)

Rest(c, places) == 128 + ((c \div places) % 64)
EncodeShort(c) == IF c < 128 THEN <<c>>
                  ELSE IF c < 2048 THEN <<192 + c \div 64, Rest(c, 1)>>
                  ELSE <<224 + c \div 4096, Rest(c, 64), Rest(c, 1)>>
Encode(c) == IF c < 128 THEN <<c>>
             ELSE IF c < 2048 THEN <<192 + c \div 64, Rest(c, 1)>>
             ELSE IF c < 65536 THEN <<224 + c \div 4096, Rest(c, 64), Rest(c, 1)>>
             ELSE <<240 + c \div 262144, Rest(c, 4096), Rest(c, 64), Rest(c, 1)>>

Written(text) == LET upto[j \in 0..Len(text)] ==
                       IF j = 0 THEN <<>> ELSE upto[j - 1] \o Encode(text[j])
                 IN upto[Len(text)]
=============================================================================
