----------------------------- MODULE JsonGrammar -----------------------------
(***************************************************************************)
(* The grammar of JSON, as what a text spells and not as a scanner reads   *)
(* it, with what Python adds to it: NaN and Infinity, the last of equal    *)
(* keys, surrogates without a partner.                                     *)
(***************************************************************************)
EXTENDS Json

LOCAL INSTANCE SequencesExt

Core(s) == LET solid == {k \in DOMAIN s : s[k] \notin Spaces}
           IN IF solid = {} THEN <<>>
              ELSE SubSeq(s, CHOOSE k \in solid : \A j \in solid : k <= j,
                             CHOOSE k \in solid : \A j \in solid : j <= k)
From(s, k) == SubSeq(s, k, Len(s))
UpTo(s, n) == SubSeq(s, 1, IF n <= Len(s) THEN n ELSE Len(s))
Inside(s) == SubSeq(s, 2, Len(s) - 1)
Between(s, open, close) == Len(s) >= 2 /\ s[1] = open /\ s[Len(s)] = close

-----------------------------------------------------------------------------
(* Numbers *)

IsDigits(s) == s # <<>> /\ ToSet(s) \subseteq Digits
IsInt(s) == IsDigits(s) /\ (s[1] = "0" => Len(s) = 1)
IsFrac(s) == s # <<>> /\ s[1] = "." /\ IsDigits(Tail(s))
IsExp(s) == /\ s # <<>>
            /\ s[1] \in {"e", "E"}
            /\ \/ IsDigits(Tail(s))
               \/ Len(s) > 1 /\ s[2] \in {"+", "-"} /\ IsDigits(From(s, 3))
Power(exp) == IF exp = <<>> THEN 0
              ELSE IF exp[2] = "-" THEN -InBase(10, From(exp, 3))
              ELSE IF exp[2] = "+" THEN InBase(10, From(exp, 3)) ELSE InBase(10, Tail(exp))

Numerals(s) ==
  LET neg == s[1] = "-"
      u == IF neg THEN Tail(s) ELSE s
      cuts == {c \in (1..Len(u)) \X (1..Len(u)) :
                 /\ IsInt(SubSeq(u, 1, c[1]))
                 /\ c[2] = c[1] \/ (c[1] < c[2] /\ IsFrac(SubSeq(u, c[1] + 1, c[2])))
                 /\ c[2] = Len(u) \/ IsExp(From(u, c[2] + 1))}
      number(c) == IF c[1] = Len(u) THEN Int_(IF neg /\ u # <<"0">> THEN s ELSE u)
                   ELSE Strtod(neg, SubSeq(u, 1, c[1]), SubSeq(u, c[1] + 2, c[2]),
                               Power(From(u, c[2] + 1)))
  IN {number(c) : c \in {c \in cuts : c[1] = Len(u) => Len(u) <= MaxDigits}}

-----------------------------------------------------------------------------
(* Strings: characters and escapes, then the surrogates of neighbouring \u joined *)

RECURSIVE Units(_)
Units(s) ==
  LET hex == From(UpTo(s, 6), 3)
      code == InBase(16, hex)
      heads ==
        (IF s[1] \notin {"\"", "\\"} \union Controls THEN {[size |-> 1, code |-> -1, char |-> s[1]]} ELSE {})
        \union {[size |-> 2, code |-> -1, char |-> c] :
                  c \in {c \in Itself : UpTo(s, 2) = <<"\\", c>>}}
        \union {[size |-> 2, code |-> -1, char |-> NamedEscapes[c]] :
                  c \in {c \in DOMAIN NamedEscapes : UpTo(s, 2) = <<"\\", c>>}}
        \union (IF /\ UpTo(s, 2) = <<"\\", "u">>
                   /\ Len(hex) = 4
                   /\ \A k \in 1..4 : IsHex(hex[k])
                THEN {[size |-> 6, code |-> code, char |-> Chr(code)]} ELSE {})
  IN IF s = <<>> THEN {<<>>}
     ELSE UNION {{<<h>> \o rest : rest \in Units(From(s, h.size + 1))} : h \in heads}

Joined(units) ==
  LET pair(k) == k \in 1..(Len(units) - 1) /\ High(units[k].code) /\ Low(units[k + 1].code)
      char(k) == IF pair(k)
                 THEN <<Chr(65536 + (units[k].code - 55296) * 1024 + units[k + 1].code - 56320)>>
                 ELSE IF pair(k - 1) THEN <<>> ELSE <<units[k].char>>
  IN FlattenSeq([k \in DOMAIN units |-> char(k)])
Strings(s) == IF Between(s, "\"", "\"") THEN {Joined(u) : u \in Units(Inside(s))} ELSE {}

-----------------------------------------------------------------------------
(* Values *)

\* One member a key, where it first stands, with the value given last.
Merged(members) ==
  LET first == {k \in DOMAIN members : \A j \in 1..(k - 1) : members[j].key # members[k].key}
      places == SetToSortSeq(first, <)
      last(key) == CHOOSE k \in DOMAIN members :
                     /\ members[k].key = key
                     /\ \A j \in (k + 1)..Len(members) : members[j].key # key
  IN [k \in DOMAIN places |->
        Item(members[places[k]].key, members[last(members[places[k]].key)].value)]

RECURSIVE Spelled(_, _), Listed(_, _), Membered(_, _)
\* The values that s spells, inside `depth` containers: one, or none.
Spelled(s, depth) ==
  LET c == Core(s)
      words == {w.value : w \in {w \in ToSet(Words) : w.word = c}}
      lists == IF ~Between(c, "[", "]") THEN {}
               ELSE IF Core(Inside(c)) = <<>> THEN {List(<<>>)}
               ELSE {List(items) : items \in Listed(Inside(c), depth + 1)}
      dicts == IF ~Between(c, "{", "}") THEN {}
               ELSE IF Core(Inside(c)) = <<>> THEN {Dict(<<>>)}
               ELSE {Dict(Merged(items)) : items \in Membered(Inside(c), depth + 1)}
  IN IF c = <<>> \/ depth > MaxDepth THEN {}
     ELSE words \union lists \union dicts \union {Str(t) : t \in Strings(c)} \union Numerals(c)

Commas(s) == {k \in DOMAIN s : s[k] = ","}
Listed(s, depth) ==
  LET one(part) == {<<Item(<<>>, v)>> : v \in Spelled(part, depth)}
  IN one(s) \union
     UNION {{v \o rest : v \in one(SubSeq(s, 1, k - 1)), rest \in Listed(From(s, k + 1), depth)} :
            k \in Commas(s)}
Membered(s, depth) ==
  LET one(part) == UNION {{<<Item(key, v)>> : key \in Strings(Core(SubSeq(part, 1, k - 1))),
                                              v \in Spelled(From(part, k + 1), depth)} :
                          k \in {k \in DOMAIN part : part[k] = ":"}}
  IN one(s) \union
     UNION {{m \o rest : m \in one(SubSeq(s, 1, k - 1)), rest \in Membered(From(s, k + 1), depth)} :
            k \in Commas(s)}
=============================================================================
