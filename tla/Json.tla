--------------------------------- MODULE Json ---------------------------------
(***************************************************************************)
(* The JSON of src/src/pyjson.hpp: loads, CPython's scanner, and dumps.    *)
(*                                                                         *)
(* Positions in a text count from 0, as in the code.                       *)
(***************************************************************************)
EXTENDS Values

LOCAL INSTANCE SequencesExt

CONSTANTS MaxDigits,   \* 4300
          Order        \* the characters of keys, in the order of their code points

ASSUME JsonAssumption == MaxDigits \in Nat \ {0} /\ Order \in Seq(STRING)

-----------------------------------------------------------------------------
Digits == {"0", "1", "2", "3", "4", "5", "6", "7", "8", "9"}
HexDigits == <<"0", "1", "2", "3", "4", "5", "6", "7", "8", "9", "a", "b", "c", "d", "e", "f">>
UpperDigits == <<"A", "B", "C", "D", "E", "F">>
Spaces == {" ", "#9", "#10", "#13"}
ControlCodes == 0..31
Controls == {Chr(v) : v \in ControlCodes}
NamedEscapes == [b |-> "#8", f |-> "#12", n |-> "#10", r |-> "#13", t |-> "#9"]
Itself == {"\"", "\\", "/"}
IsHex(c) == c \in ToSet(HexDigits) \union ToSet(UpperDigits)
HexValue(c) == IF c \in ToSet(UpperDigits)
               THEN 9 + CHOOSE k \in DOMAIN UpperDigits : UpperDigits[k] = c
               ELSE (CHOOSE k \in DOMAIN HexDigits : HexDigits[k] = c) - 1

-----------------------------------------------------------------------------
(* loads: t is [chars, past], what is read past the end of the text *)

Size(t) == Len(t.chars)
At(t, i) == IF i < Size(t) THEN t.chars[i + 1] ELSE t.past
Part(t, from, to) == [k \in 1..(to - from) |-> At(t, from + k - 1)]

Done(v, next) == [fail |-> "none", at |-> 0, value |-> v, next |-> next]
Fail(msg, at) == [fail |-> msg, at |-> at, value |-> Null, next |-> 0]
NoValue(at) == Fail("Expecting value", at)
BodyError == Fail("BodyError", 0)

\* Past the characters of `class` from i on.
Past(t, i, class) ==
  IF i >= Size(t) THEN i
  ELSE CHOOSE j \in i..Size(t) : /\ \A k \in i..(j - 1) : At(t, k) \in class
                                 /\ j = Size(t) \/ At(t, j) \notin class
\* Where the first character of `class` is from i on; the end if there is none.
Until(t, i, class) ==
  CHOOSE j \in i..(IF i < Size(t) THEN Size(t) ELSE i) :
    /\ \A k \in i..(j - 1) : At(t, k) \notin class
    /\ j >= Size(t) \/ At(t, j) \in class
Skip(t, i) == Past(t, i, Spaces)
Is(t, i, c) == i < Size(t) /\ At(t, i) = c
IsWord(t, i, word) == i + Len(word) <= Size(t) /\ Part(t, i, i + Len(word)) = word

Words == << [word |-> <<"n", "u", "l", "l">>, value |-> Null],
            [word |-> <<"t", "r", "u", "e">>, value |-> Bool(TRUE)],
            [word |-> <<"f", "a", "l", "s", "e">>, value |-> Bool(FALSE)],
            [word |-> <<"N", "a", "N">>, value |-> Float(FALSE, <<"nan">>, 0)],
            [word |-> <<"I", "n", "f", "i", "n", "i", "t", "y">>, value |-> Float(FALSE, <<"inf">>, 0)],
            [word |-> <<"-", "I", "n", "f", "i", "n", "i", "t", "y">>, value |-> Float(TRUE, <<"inf">>, 0)] >>

InBase(base, digits) ==
  LET value[k \in 0..Len(digits)] == IF k = 0 THEN 0 ELSE base * value[k - 1] + HexValue(digits[k])
  IN value[Len(digits)]
LeadingZeros(digits) == Past([chars |-> digits, past |-> "0"], 0, {"0"})
\* strtod, as far as decimal digits show: what is left of a literal's digits
\* without the zeros at both ends, and the exponent of the first of them.
Strtod(neg, whole, frac, exp) ==
  LET all == whole \o frac
      zeros == LeadingZeros(all)
      digits == SubSeq(all, zeros + 1, Len(all) - LeadingZeros(Reverse(all)))
      first == Len(whole) - 1 - zeros + exp
  IN IF zeros = Len(all) \/ first < -324 THEN Float(neg, <<"0">>, 0)
     ELSE IF first > 308 THEN Float(neg, <<"inf">>, 0)
     ELSE Float(neg, digits, first)

\* Where the whole part, the fraction and the exponent end; a part that is not
\* there ends where the one before it does.
WholeEnd(t, first) == IF At(t, first) = "0" THEN first + 1 ELSE Past(t, first, Digits)
FracEnd(t, whole) ==
  IF whole + 1 < Size(t) /\ At(t, whole) = "." /\ At(t, whole + 1) \in Digits
  THEN Past(t, whole + 2, Digits) ELSE whole
ExpStart(t, frac) ==
  IF frac + 2 < Size(t) /\ At(t, frac + 1) \in {"-", "+"} THEN frac + 2 ELSE frac + 1
ExpEnd(t, frac) ==
  LET end == Past(t, ExpStart(t, frac), Digits)
  IN IF frac + 1 < Size(t) /\ At(t, frac) \in {"e", "E"} /\ At(t, end - 1) \in Digits THEN end ELSE frac
Exponent(t, frac, exp) ==
  LET power == InBase(10, Part(t, ExpStart(t, frac), exp))
  IN IF exp = frac THEN 0 ELSE IF At(t, frac + 1) = "-" THEN -power ELSE power

Number(t, start) ==
  LET neg == At(t, start) = "-"
      first == IF neg THEN start + 1 ELSE start
      whole == WholeEnd(t, first)
      frac == FracEnd(t, whole)
      exp == ExpEnd(t, frac)
      digits == Part(t, first, whole)
  IN IF first >= Size(t) \/ At(t, first) \notin Digits THEN NoValue(start)
     ELSE IF exp > whole
     THEN Done(Strtod(neg, digits, Part(t, whole + 1, frac), Exponent(t, frac, exp)), exp)
     ELSE IF Len(digits) > MaxDigits THEN BodyError
     ELSE Done(Int_(IF neg /\ digits # <<"0">> THEN <<"-">> \o digits ELSE digits), whole)

Hex4(t, i) == IF \A k \in 0..3 : IsHex(At(t, i + k)) THEN InBase(16, Part(t, i, i + 4)) ELSE -1
High(v) == v \in 55296..56319
Low(v) == v \in 56320..57343

PairFitsItsStart(t, end) == end + 1 < Size(t)
\* A second \uXXXX from `end` on, and its string's end after it.
PairFits(t, end) == end + 6 < Size(t)

StringEnds == {"\"", "\\"} \union Controls
RECURSIVE Characters(_, _, _, _), Escape(_, _, _, _), Unicode(_, _, _, _)
\* string: the characters from `from` on, after `out`, of the string begun at `begin`.
Characters(t, begin, from, out) ==
  LET i == Until(t, from, StringEnds)
      text == out \o Part(t, from, i)
  IN IF i >= Size(t) THEN Fail("Unterminated string starting at", begin)
     ELSE CASE At(t, i) = "\"" -> Done(Str(text), i + 1)
            [] At(t, i) = "\\" -> Escape(t, begin, i + 1, text)
            [] OTHER -> Fail("Invalid control character at", i)
\* after a backslash
Escape(t, begin, at, text) ==
  LET c == At(t, at)
  IN IF at = Size(t) THEN Fail("Unterminated string starting at", begin)
     ELSE IF c = "u" THEN Unicode(t, begin, at + 1, text)
     ELSE IF c \in Itself THEN Characters(t, begin, at + 1, Append(text, c))
     ELSE IF c \in DOMAIN NamedEscapes
     THEN Characters(t, begin, at + 1, Append(text, NamedEscapes[c]))
     ELSE Fail("Invalid \\escape", at - 1)
\* after \u
Unicode(t, begin, at, text) ==
  LET end == at + 4
      cp == Hex4(t, at)
      pair == High(cp) /\ PairFits(t, end) /\ At(t, end) = "\\" /\ At(t, end + 1) = "u"
      low == Hex4(t, end + 2)
  IN IF end >= Size(t) \/ cp = -1 THEN Fail("Invalid \\uXXXX escape", at - 1)
     ELSE IF pair /\ low = -1 THEN Fail("Invalid \\uXXXX escape", end + 1)
     ELSE IF pair /\ Low(low)
     THEN Characters(t, begin, end + 6, Append(text, Chr(65536 + (cp - 55296) * 1024 + low - 56320)))
     ELSE Characters(t, begin, end, Append(text, Chr(cp)))
String_(t, idx) == Characters(t, idx, idx + 1, <<>>)

SetMoves(items, key, v) == Append(SelectSeq(items, LAMBDA m : m.key # key), Item(key, v))
\* The last value, at the first key's place.
Set(items, key, v) ==
  IF \E k \in DOMAIN items : items[k].key = key
  THEN [k \in DOMAIN items |-> IF items[k].key = key THEN Item(key, v) ELSE items[k]]
  ELSE Append(items, Item(key, v))

RECURSIVE Scan(_, _, _), Members(_, _, _, _), Colon(_, _, _, _), AfterMember(_, _, _, _, _),
          Elements(_, _, _, _), AfterElement(_, _, _, _)
Scan(t, idx, depth) ==
  IF idx >= Size(t) THEN NoValue(idx)
  ELSE IF depth > MaxDepth THEN BodyError
  ELSE LET c == At(t, idx)
           inside == Skip(t, idx + 1)
           words == {w \in ToSet(Words) : IsWord(t, idx, w.word)}
       IN CASE c = "\"" -> String_(t, idx)
            [] c = "{" -> IF Is(t, inside, "}") THEN Done(Dict(<<>>), inside + 1)
                          ELSE Members(t, inside, depth + 1, <<>>)
            [] c = "[" -> IF Is(t, inside, "]") THEN Done(List(<<>>), inside + 1)
                          ELSE Elements(t, inside, depth + 1, <<>>)
            [] OTHER -> IF words # {}
                        THEN LET w == CHOOSE w \in words : TRUE IN Done(w.value, idx + Len(w.word))
                        ELSE Number(t, idx)

\* object, from a member's name on, after the members `items`.
Members(t, idx, depth, items) ==
  IF ~Is(t, idx, "\"") THEN Fail("Expecting property name enclosed in double quotes", idx)
  ELSE Colon(t, String_(t, idx), depth, items)
Colon(t, key, depth, items) ==
  LET colon == Skip(t, key.next)
  IN IF key.fail # "none" THEN key
     ELSE IF ~Is(t, colon, ":") THEN Fail("Expecting ':' delimiter", colon)
     ELSE AfterMember(t, key.value.text, Scan(t, Skip(t, colon + 1), depth), depth, items)
AfterMember(t, key, item, depth, items) ==
  LET after == Skip(t, item.next)
      all == Set(items, key, item.value)
  IN IF item.fail # "none" THEN item
     ELSE IF Is(t, after, "}") THEN Done(Dict(all), after + 1)
     ELSE IF ~Is(t, after, ",") THEN Fail("Expecting ',' delimiter", after)
     ELSE Members(t, Skip(t, after + 1), depth, all)

\* array, from an element on, after the elements `items`.
Elements(t, idx, depth, items) == AfterElement(t, Scan(t, idx, depth), depth, items)
AfterElement(t, item, depth, items) ==
  LET after == Skip(t, item.next)
      all == Append(items, Item(<<>>, item.value))
  IN IF item.fail # "none" THEN item
     ELSE IF Is(t, after, "]") THEN Done(List(all), after + 1)
     ELSE IF ~Is(t, after, ",") THEN Fail("Expecting ',' delimiter", after)
     ELSE Elements(t, Skip(t, after + 1), depth, all)

\* What follows the whole value.
End(t, v) == LET end == Skip(t, v.next)
             IN IF v.fail # "none" THEN v
                ELSE IF end # Size(t) THEN Fail("Extra data", end)
                ELSE Done(v.value, end)
Run(t) == End(t, Scan(t, Skip(t, 0), 0))

-----------------------------------------------------------------------------
(* dumps *)

Zeros(n) == [k \in 1..n |-> "0"]
TwoDigits(n) == <<HexDigits[((n \div 10) % 10) + 1], HexDigits[(n % 10) + 1]>>
ExponentDigits(n) == IF n < 100 THEN TwoDigits(n) ELSE <<HexDigits[n \div 100 + 1]>> \o TwoDigits(n)
FloatRepr(num) ==
  LET d == num.digits
      e == num.exp
      n == Len(d)
      fraction == IF n > 1 THEN <<".">> \o Tail(d) ELSE <<>>
      power == IF e < 0 THEN <<"e", "-">> \o ExponentDigits(-e) ELSE <<"e", "+">> \o ExponentDigits(e)
  IN (IF num.neg THEN <<"-">> ELSE <<>>) \o
     (IF e \in -4..15
      THEN IF e < 0 THEN <<"0", ".">> \o Zeros(-e - 1) \o d
           ELSE IF e + 1 >= n THEN d \o Zeros(e + 1 - n) \o <<".", "0">>
           ELSE SubSeq(d, 1, e + 1) \o <<".">> \o SubSeq(d, e + 2, n)
      ELSE <<d[1]>> \o fraction \o power)
FloatText(num) == IF num.digits = <<"nan">> THEN Words[4].word
                  ELSE IF num.digits = <<"inf">> THEN (IF num.neg THEN Words[6] ELSE Words[5]).word
                  ELSE FloatRepr(num)

Code(c) == CHOOSE v \in ControlCodes : Chr(v) = c
Quoted(c) == IF c \in {"\"", "\\"} THEN <<"\\", c>>
             ELSE IF \E k \in DOMAIN NamedEscapes : NamedEscapes[k] = c
             THEN <<"\\", CHOOSE k \in DOMAIN NamedEscapes : NamedEscapes[k] = c>>
             ELSE IF c \in Controls THEN <<"\\", "u", "0", "0">> \o <<HexDigits[Code(c) \div 16 + 1], HexDigits[(Code(c) % 16) + 1]>>
             ELSE <<c>>
Quote(text) == <<"\"">> \o FlattenSeq([k \in DOMAIN text |-> Quoted(text[k])]) \o <<"\"">>

\* The code points' order, which std::string's order of bytes is.
Rank(c) == CHOOSE k \in DOMAIN Order : Order[k] = c
BeforeByStart(a, b) == a # <<>> /\ b # <<>> /\ Rank(a[1]) < Rank(b[1])
Before(a, b) ==
  \/ Len(a) < Len(b) /\ a = SubSeq(b, 1, Len(a))
  \/ \E k \in DOMAIN a \intersect DOMAIN b :
       /\ SubSeq(a, 1, k - 1) = SubSeq(b, 1, k - 1)
       /\ Rank(a[k]) < Rank(b[k])
InOrder(items) == SortSeq(items, LAMBDA m, l : Before(m.key, l.key))

RECURSIVE Dump(_, _, _)
Dump(v, o, level) ==
  LET items == IF o.sort THEN InOrder(v.items) ELSE v.items
      newline(l) == IF o.indent >= 0 THEN <<"#10">> \o [k \in 1..(o.indent * l) |-> " "] ELSE <<>>
      sep == (IF o.indent >= 0 THEN <<",">> ELSE o.item) \o newline(level + 1)
      inner(k) == (IF k > 1 THEN sep ELSE newline(level + 1)) \o
                  (IF v.kind = "dict" THEN Quote(items[k].key) \o o.key ELSE <<>>) \o
                  Dump(items[k].value, o, level + 1)
      body == IF v.items = <<>> THEN <<>>
              ELSE FlattenSeq([k \in DOMAIN items |-> inner(k)]) \o newline(level)
  IN CASE v.kind = "null" -> Words[1].word
       [] v.kind = "bool" -> (IF v.text = <<"1">> THEN Words[2] ELSE Words[3]).word
       [] v.kind = "int" -> v.text
       [] v.kind = "float" -> FloatText(v.num)
       [] v.kind = "str" -> Quote(v.text)
       [] v.kind = "list" -> <<"[">> \o body \o <<"]">>
       [] v.kind = "dict" -> <<"{">> \o body \o <<"}">>
=============================================================================
