------------------------------- MODULE MCBodies -------------------------------
(***************************************************************************)
(* Bodies for TLC.  Bytes at either side of every boundary of the encoding *)
(* that the code or the standard draws, in strings of up to three, and in  *)
(* strings of four and five that begin with a first byte of four or three; *)
(* spaces of one to three bytes around characters that share bytes with    *)
(* them; all short texts over the characters of JSON's structure, numbers  *)
(* and strings, and longer ones with every cut, every character left out   *)
(* or replaced by another.                                                 *)
(***************************************************************************)
EXTENDS Bodies

LOCAL INSTANCE SequencesExt

MCOrder == <<"#1", "#8", "#9", "#10", "#12", "#13", " ", "\"", "+", ",", "-", ".", "/", "0", "1", "2", "3",
             "4", "5", "6", "7", "8", "9", ":", "D", "E", "I", "N", "[", "\\", "]", "a", "b", "d", "e",
             "f", "l", "n", "r", "s", "t", "u", "x", "y", "{", "}", "#55357", "#56832", "#65279", "#128512">>
MCStrangers == {"0", "1", "\"", "u", "D", "]"}

Edges == {65, 127, 128, 143, 144, 159, 160, 191, 192, 193, 194, 223, 224, 225, 237, 238, 239,
          240, 241, 244, 245, 255}
Rests == {65, 128, 143, 144, 159, 160, 191, 224}
Longer == {<<a>> \o s : a \in {240, 241, 243, 244}, s \in [1..3 -> Rests]}
          \union {<<a, b>> \o s : a \in {225, 237}, b \in {128, 160}, s \in [1..3 -> {65, 128, 194, 240}]}
Utf8Bytes == UNION {[1..m -> Edges] : m \in 0..3} \union Longer
FirstBytes == UNION {[1..m -> {65, 128, 191, 245, 255}] : m \in 1..3}

\* a space of each width, and characters that end or begin like one
Around == {<<32>>, <<31>>, <<194, 133>>, <<226, 128, 138>>, <<227, 128, 128>>,
           <<65>>, <<195, 133>>, <<226, 128, 139>>, <<240, 159, 128, 128>>, <<237, 160, 189>>}
Stripped == {FlattenSeq(s) : s \in UNION {[1..m -> Around] : m \in 1..3}}

Over(alphabet, most) == UNION {[1..n -> alphabet] : n \in 0..most}

Whole == {
  <<"{", "\"", "b", "\"", ":", "1", ",", "\"", "a", "\"", ":", "{", "}", ",", "\"", "b", "\"", ":", "[", "N", "a", "N", "]", "}">>,
  <<"[", "[", "{", "\"", "\"", ":", "1", "}", "]", ",", " ", "[", "1", "]", "]">>,
  <<"{", "\"", "a", "\"", ":", "[", "[", "1", "]", "]", ",", "\"", "a", "\"", ":", "2", "}">>,
  <<"[", "-", "I", "n", "f", "i", "n", "i", "t", "y", ",", "t", "r", "u", "e", "#10", ",", "n", "u", "l", "l", ",", "f", "a", "l", "s", "e", "]">>,
  <<"\"", "\\", "u", "D", "8", "3", "D", "\\", "u", "D", "E", "0", "0", "\"">>,
  <<"\"", "\\", "u", "d", "8", "3", "d", "\\", "u", "d", "8", "3", "d", "\"">>,
  <<"\"", "#55357", "\\", "u", "D", "E", "0", "0", "\"">>,
  <<"{", "\"", "\\", "u", "0", "0", "6", "1", "\"", ":", "1", ",", "\"", "a", "\"", ":", "0", "}">>,
  <<"{", "\"", "a", "b", "\"", ":", "1", ",", "\"", "a", "\"", ":", "{", "\"", "#128512", "\"", ":", "1", ",", "\"", "#55357", "\"", ":", "0", "}", "}">>,
  <<"\"", "\\", "u", "0", "0", "0", "1", "\\", "b", "\\", "/", "\\", "\"", "\\", "\\", "\"">>,
  <<"#65279", "[", "1", ",", "#65279", "]">>, <<"\"", "#255", "\"">>,
  <<"-", "1", "2", "0", ".", "3", "0", "e", "-", "1", "0">>, <<"1", "E", "+", "1", "5">> }

Changes == {<<>>, <<"\"">>, <<"\\">>, <<"x">>, <<"u">>, <<",">>, <<"}">>, <<"]">>, <<"#10">>}
Changed(s) == {SubSeq(s, 1, k - 1) \o c \o SubSeq(s, k + 1, Len(s)) : k \in DOMAIN s, c \in Changes}
Cuts(s) == {SubSeq(s, 1, k) : k \in 0..Len(s)}

Significands == {<<"1">>, <<"1", ".", "5">>, <<"0", ".", "0">>, <<"-", "0", ".", "0", "1", "2">>, <<"1", "2", "3", ".", "4">>}
Exponents == {<<"1", "3">>, <<"1", "5">>, <<"1", "6">>, <<"-", "2">>, <<"-", "4">>, <<"-", "5">>, <<"-", "6">>,
              <<"3", "0", "8">>, <<"3", "0", "9">>, <<"-", "3", "2", "4">>, <<"-", "3", "2", "5">>}

Texts ==
  Over({"[", "]", "{", "}", ",", ":", "\"", "1"}, 4)
  \union Over({"-", "0", "1", ".", "e", "+"}, 5)
  \union {<<"\"">> \o s : s \in Over({"\"", "\\", "u", "n", "#10"}, 4)}
  \union UNION {{s} \union Cuts(s) \union Changed(s) : s \in Whole}
  \union {s \o <<"e">> \o e : s \in Significands, e \in Exponents}
\* The bytes of a character.
Extra == [s \in {"#1", "#10", "#255", "#55357", "#65279", "#128512"} |->
            CASE s = "#1" -> <<1>> [] s = "#10" -> <<10>> [] s = "#255" -> <<255>>
              [] s = "#55357" -> <<237, 160, 189>> [] s = "#65279" -> <<239, 187, 191>>
              [] s = "#128512" -> <<240, 159, 152, 128>>]
Ascii == [s \in {Printable[k] : k \in DOMAIN Printable} |-> <<31 + CHOOSE k \in DOMAIN Printable : Printable[k] = s>>]
BytesOf(text, table) == FlattenSeq([k \in DOMAIN text |-> table[text[k]]])
MCInputs == LET table == Ascii @@ Extra
            IN Utf8Bytes \union Stripped \union {BytesOf(s, table) : s \in Texts}
=============================================================================
