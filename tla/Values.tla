-------------------------------- MODULE Values --------------------------------
(***************************************************************************)
(* The values of JSON (pyjson.hpp's Value), and what is asked of one as a  *)
(* whole.                                                                  *)
(*                                                                         *)
(* A text is a sequence of characters, each named by itself if it is ASCII *)
(* and printed, by its code point ("#10", "#55357") if not.  A float is    *)
(* its sign, its shortest decimal digits and the exponent of the first of  *)
(* them.                                                                   *)
(***************************************************************************)
EXTENDS Integers, Sequences, TLC

CONSTANT MaxDepth    \* 900: loads nests values no deeper

ASSUME DepthAssumption == MaxDepth \in Nat

Printable == <<" ", "!", "\"", "#", "$", "%", "&", "'", "(", ")", "*", "+", ",", "-", ".", "/",
  "0", "1", "2", "3", "4", "5", "6", "7", "8", "9", ":", ";", "<", "=", ">", "?", "@", "A", "B", "C",
  "D", "E", "F", "G", "H", "I", "J", "K", "L", "M", "N", "O", "P", "Q", "R", "S", "T", "U", "V", "W",
  "X", "Y", "Z", "[", "\\", "]", "^", "_", "#96", "a", "b", "c", "d", "e", "f", "g", "h", "i", "j", "k",
  "l", "m", "n", "o", "p", "q", "r", "s", "t", "u", "v", "w", "x", "y", "z", "{", "|", "}", "~">>
Chr(v) == IF v \in 32..126 THEN Printable[v - 31] ELSE "#" \o ToString(v)

-----------------------------------------------------------------------------
NoNumber == [neg |-> FALSE, digits |-> <<>>, exp |-> 0]
Value(kind, text, items, num) == [kind |-> kind, text |-> text, items |-> items, num |-> num]
Null == Value("null", <<>>, <<>>, NoNumber)
Bool(b) == Value("bool", <<IF b THEN "1" ELSE "0">>, <<>>, NoNumber)
Int_(digits) == Value("int", digits, <<>>, NoNumber)
Float(neg, digits, exp) ==
  Value("float", <<>>, <<>>, [neg |-> neg, digits |-> digits, exp |-> exp])
Str(text) == Value("str", text, <<>>, NoNumber)
\* Items are [key, value]; a list's keys are empty.
List(items) == Value("list", <<>>, items, NoNumber)
Dict(items) == Value("dict", <<>>, items, NoNumber)
Item(key, v) == [key |-> key, value |-> v]

Finite(num) == num.digits \notin {<<"nan">>, <<"inf">>}

\* The options of dumps.
Option(indent, sort, item, key, nan) ==
  [indent |-> indent, sort |-> sort, item |-> item, key |-> key, nan |-> nan]

-----------------------------------------------------------------------------
(* What a value is made of *)

ItemsOf(v) == {v.items[k].value : k \in DOMAIN v.items}
\* The values n levels down.
Level(v, n) ==
  LET level[i \in 0..n] == IF i = 0 THEN {v} ELSE UNION {ItemsOf(x) : x \in level[i - 1]}
  IN level[n]
Within(v) == UNION {Level(v, n) : n \in 0..MaxDepth}

Kinds == {"null", "bool", "int", "float", "str", "list", "dict"}
Numbers == [neg : BOOLEAN, digits : Seq(STRING), exp : Int]
\* A value as loads makes them: only a list and a dict have items, whose keys are
\* different in a dict, only a float has a number, and it is nested no deeper than
\* MaxDepth.
IsJson(v) ==
  LET within == Within(v) IN
  /\ Level(v, MaxDepth + 1) = {}
  /\ \A x \in within :
       /\ x \in [kind : Kinds, text : Seq(STRING), num : Numbers,
                  items : Seq([key : Seq(STRING), value : within])]
       /\ x.kind \in {"list", "dict"} => x.text = <<>>
       /\ x.kind \notin {"list", "dict"} => x.items = <<>>
       /\ x.kind # "float" => x.num = NoNumber
       /\ x.kind = "dict" => \A j, k \in DOMAIN x.items : x.items[j].key = x.items[k].key => j = k

HasNonFinite(v) == \E x \in Within(v) : x.kind = "float" /\ ~Finite(x.num)
=============================================================================
