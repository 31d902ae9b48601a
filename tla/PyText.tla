------------------------------- MODULE PyText -------------------------------
(***************************************************************************)
(* Python's strings on UTF-8 bytes (src/src/text.hpp): len(), strip() and  *)
(* what encode("utf-8") refuses.  Everything the checks of a request call  *)
(* blank, too long or not a string goes through these.                     *)
(***************************************************************************)
EXTENDS Utf8, FiniteSets

HasSurrogate(bytes) == \E i \in 1..(Len(bytes) - 1) : bytes[i] = 237 /\ bytes[i + 1] >= 160
Utf8Length(bytes) == Cardinality({i \in DOMAIN bytes : ~Continues(bytes[i])})

WideSpaces == {<<194, 133>>, <<194, 160>>, <<225, 154, 128>>, <<226, 128, 168>>, <<226, 128, 169>>,
               <<226, 128, 175>>, <<226, 129, 159>>, <<227, 128, 128>>}
              \union {<<226, 128, b>> : b \in 128..138}
\* space_at: the width of the space at i, 0 if there is none.
SpaceAt(bytes, i) ==
  LET c == bytes[i + 1]
      wide == {w \in WideSpaces : /\ i + Len(w) <= Len(bytes)
                                  /\ SubSeq(bytes, i + 1, i + Len(w)) = w}
  IN IF c = 32 \/ InRange(c, 9, 13) \/ InRange(c, 28, 31) THEN 1
     ELSE IF wide # {} THEN Len(CHOOSE w \in wide : TRUE)
     ELSE 0

LastByte(bytes, from, to) == to - 1
\* The first byte of the character that ends at `to`, from `from` on.
LastChar(bytes, from, to) ==
  CHOOSE k \in from..(to - 1) :
    /\ \A j \in (k + 1)..(to - 1) : Continues(bytes[j + 1])
    /\ k = from \/ ~Continues(bytes[k + 1])

Strip(bytes) ==
  LET size == Len(bytes)
      begin[b \in 0..size] ==
        IF b < size /\ SpaceAt(bytes, b) > 0 THEN begin[b + SpaceAt(bytes, b)] ELSE b
      first == begin[0]
      end[e \in first..size] ==
        IF e > first /\ LastChar(bytes, first, e) + SpaceAt(bytes, LastChar(bytes, first, e)) = e
        THEN end[LastChar(bytes, first, e)]
        ELSE e
  IN SubSeq(bytes, first + 1, end[size])

IsSurrogate(c) == InRange(c, 55296, 57343)
LonesOf(text) == {k \in DOMAIN text : IsSurrogate(text[k])}
FirstRun(lone) ==
  LET first == CHOOSE k \in lone : \A j \in lone : k <= j
      last == CHOOSE k \in lone : first..k \subseteq lone /\ k + 1 \notin lone
  IN IF lone = {} THEN <<>> ELSE <<first - 1, last - 1>>
\* surrogate_error: the first and last position of the first surrogates, or <<>>.
SurrogateError(bytes) ==
  IF HasSurrogate(bytes) THEN FirstRun(LonesOf(Decoded(bytes).text)) ELSE <<>>
=============================================================================
