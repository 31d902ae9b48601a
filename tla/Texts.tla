------------------------------- MODULE Texts -------------------------------
(***************************************************************************)
(* A body that is not JSON is taken as a text, stripped as the checks do,  *)
(* or refused for its first error; and what the code's functions on UTF-8  *)
(* bytes (Utf8, PyText) promise of any bytes, against the standard's table *)
(* and Python's strings of characters.                                     *)
(***************************************************************************)
EXTENDS PyText

CONSTANT Received   \* byte strings

ASSUME ReceivedAssumption == \A b \in Received : b \in Seq(0..255)

VARIABLES bytes,    \* what was received
          taken,    \* "no" until it is taken as a text
          error,    \* what utf8_error found
          stripped  \* the body as a text, without the spaces around it
textVars == <<bytes, taken, error, stripped>>

TextInit == /\ bytes \in Received
            /\ taken = "no"
            /\ error = <<>>
            /\ stripped = <<>>

TakeAsText == /\ taken = "no"
              /\ error' = Utf8Error(bytes)
              /\ IF error' = <<>> THEN taken' = "text" /\ stripped' = Strip(bytes)
                                  ELSE taken' = "not text" /\ UNCHANGED stripped
              /\ UNCHANGED bytes

TextSpec == TextInit /\ [][TakeAsText]_textVars

-----------------------------------------------------------------------------
(* The Unicode standard's table of well-formed byte sequences (3-7), with  *)
(* the row of the surrogates apart.                                        *)
WellFormed(s) ==
  \/ Len(s) = 1 /\ s[1] < 128
  \/ Len(s) = 2 /\ InRange(s[1], 194, 223) /\ Continues(s[2])
  \/ /\ Len(s) = 3 /\ Continues(s[2]) /\ Continues(s[3])
     /\ \/ s[1] = 224 /\ s[2] >= 160
        \/ InRange(s[1], 225, 236) \/ s[1] \in {238, 239}
        \/ s[1] = 237 /\ s[2] <= 159
  \/ /\ Len(s) = 4 /\ Continues(s[2]) /\ Continues(s[3]) /\ Continues(s[4])
     /\ \/ s[1] = 240 /\ s[2] >= 144
        \/ InRange(s[1], 241, 243)
        \/ s[1] = 244 /\ s[2] <= 143
Surrogate(s) == Len(s) = 3 /\ s[1] = 237 /\ InRange(s[2], 160, 191) /\ Continues(s[3])

\* Where s, read as such characters, surrogates among them where they pass, may stop.
Passes(c, surrogates) == WellFormed(c) \/ (surrogates /\ Surrogate(c))
Ends(s, surrogates) ==
  LET upto[j \in 0..Len(s)] ==
        IF j = 0 THEN {0}
        ELSE LET earlier == upto[j - 1]
             IN earlier \union {e \in {j} : \E l \in 1..4 :
                                  e - l \in earlier /\ Passes(SubSeq(s, e - l + 1, e), surrogates)}
  IN upto[Len(s)]
Strict(s) == Len(s) \in Ends(s, FALSE)
Passing(s) == Len(s) \in Ends(s, TRUE)

-----------------------------------------------------------------------------
(* Properties *)

\* Every body that is text to Python is text here, surrogates included, and
\* what is kept of it is what was sent: written back, the code points give the
\* same bytes (question ids, options and states are echoed from them).
\* (decode_utf8 and append_utf8, pyjson.hpp:66-99)
TextIsKept == LET decoded == Decoded(bytes)
              IN Passing(bytes) => decoded.valid /\ Written(decoded.text) = bytes

\* The g bytes of s at e begin some character: one of these ends what any first bytes begin.
Grows(s, e, g) == \E a, b, c \in {128, 143, 144, 159, 160, 191} : \E l \in 0..(4 - g) :
                    WellFormed(SubSeq(s, e + 1, e + g) \o SubSeq(<<a, b, c>>, 1, l))

\* utf8_error (pyjson.hpp:102-132) finds an error exactly in what is not UTF-8, where it
\* begins, and covers the longest start of a character there is, as Python's messages do.
ErrorIsExact ==
  /\ taken = "text" => Strict(bytes)
  /\ taken = "not text" =>
       LET begins == Ends(bytes, FALSE)
       IN /\ ~Strict(bytes)
          /\ error[1] \in begins /\ \A j \in begins : j <= error[1]
          /\ error[2] > 1 => Grows(bytes, error[1], error[2])
          /\ error[1] + error[2] < Len(bytes) => ~Grows(bytes, error[1], error[2] + 1)

\* "bytes.decode('utf-8', 'surrogatepass'); false on invalid input."
\* (pyjson.hpp:77)
FalseOnInvalid == Decoded(bytes).valid => Passing(bytes)

\* str.isspace() of a code point
IsSpace(c) == c \in 9..13 \union 28..32 \union {133, 160, 5760} \union 8192..8202
                   \union {8232, 8233, 8239, 8287, 12288}
\* `inner` is what is left of a text without the spaces at its ends.
StripsTo(text, inner) ==
  LET solid == {k \in DOMAIN text : ~IsSpace(text[k])}
  IN IF solid = {} THEN inner = <<>>
     ELSE \E a, b \in solid : solid \subseteq a..b /\ inner = SubSeq(text, a, b)
\* `found` are the ends of the first run of positions in `lone`.
PointsAtFirst(found, lone) ==
  IF lone = {} THEN found = <<>>
  ELSE /\ (found[1] + 1)..(found[2] + 1) \subseteq lone
       /\ \A k \in lone : k >= found[1] + 1
       /\ found[2] + 2 \notin lone
\* What text.hpp does to bytes is what Python does to characters: a text is stripped of all
\* the spaces around it and of nothing else, its length is in characters, and a surrogate is
\* found wherever there is one, at its position among characters (text.hpp:10-66).
BytesAreCharacters ==
  LET text == Decoded(bytes).text
  IN /\ taken = "text" => /\ StripsTo(text, Decoded(stripped).text)
                       /\ Decoded(stripped).valid
     /\ Passing(bytes) => /\ Utf8Length(bytes) = Len(text)
                          /\ PointsAtFirst(SurrogateError(bytes), LonesOf(text))
=============================================================================
