------------------------------ MODULE MCServer ------------------------------
(***************************************************************************)
(* Requests for TLC: one for each verdict of the body and the key; a good  *)
(* request with each of its values replaced in turn by every value that    *)
(* some check of it tells apart, nested up to, at and past the limit, and  *)
(* by two of them at once; fields left out or added; and questions of      *)
(* every kind whose prompts fit the context or do not.  The other thread   *)
(* is sent three: one too deep, one that would be if the thread kept its   *)
(* counter, and one too long; where it is, the first is sent fewer.        *)
(***************************************************************************)
EXTENDS Server, Json

Obj(items) == Dict([k \in DOMAIN items |-> Item(<<items[k][1]>>, items[k][2])])
Arr(items) == List([k \in DOMAIN items |-> Item(<<>>, items[k])])
One == Int_(<<"1">>)
NaN == Float(FALSE, <<"nan">>, 0)
T(c) == Str(<<c>>)
Broken == T("#55357")

\* values of the shapes a text may be given in
Nested == {Arr(<<One>>), Arr(<<Arr(<<One>>)>>), Arr(<<One, Arr(<<Arr(<<One>>), One>>)>>),
           Arr(<<Arr(<<Arr(<<>>), One>>), Arr(<<One>>)>>),
           Obj(<< <<"a", One>> >>), Obj(<< <<"b", Arr(<<Obj(<< <<"a", One>> >>), Arr(<<>>)>>)>>, <<"a", NaN>> >>),
           Arr(<<NaN>>), Arr(<<Broken>>), Obj(<< <<"#55357", One>> >>)}
Limit == Arr(<<Arr(<<Arr(<<>>)>>)>>)
Deep == Arr(<<Limit>>)
Plain == {Null, Bool(FALSE), Bool(TRUE), Int_(<<"0">>), One, NaN, Float(FALSE, <<"0">>, 0), Broken, Str(<<>>), T(" "),
          Str(<<" ", "a">>), T("a"), Str(<<"a", "b", "c", "d", "e">>), Str([k \in 1..8 |-> "a"]), Arr(<<>>), Obj(<<>>)}
Values == Plain \union Nested
Some == {Null, One, Str(<<>>), T("a"), Broken, Limit, Deep, Arr(<<NaN>>), Obj(<<>>)}

Noul(instructions) == Obj(<< <<"type", T("noul")>>, <<"instructions", instructions>> >>)
NoulOf(criteria) == Obj(<< <<"type", T("noul")>>, <<"criteria", criteria>> >>)
Choice(criteria) == Obj(<< <<"type", T("choice")>>, <<"criteria", criteria>> >>)
Score(criteria) == Obj(<< <<"type", T("score")>>, <<"criteria", criteria>>, <<"instructions", T("a")>> >>)
Options(n) == Obj([k \in 1..n |-> << <<"a", "b", "c", "d">>[k], T("x")>>])
Levels(n) == Arr([k \in 1..n |-> T(<<"a", "b", "c", "d">>[k])])

QuestionValues ==
  Plain \union {Obj(<< <<"a", One>> >>), Obj(<< <<"type", T("other")>> >>), Obj(<< <<"type", Broken>> >>), Obj(<< <<"type", One>> >>),
    Obj(<< <<"type", T("choice")>> >>), Obj(<< <<"type", T("score")>>, <<"a", Broken>>, <<"instructions", One>> >>),
    Obj(<< <<"type", T("noul")>> >>)}
  \union {Noul(v) : v \in Values}
  \union {Obj(<< <<"type", T("noul")>>, <<"noul", v>>, <<"instructions", One>> >>) : v \in Some}
  \union {NoulOf(v) : v \in Some} \union {NoulOf(Obj(<< <<"false", T("a")>>, <<"true", v>> >>)) : v \in Values}
  \union {NoulOf(Obj(<< <<"true", Arr(<<Arr(<<Arr(<<>>)>>)>>)>>, <<"other", v>>, <<"false", One>> >>)) : v \in Some}
  \union {Choice(v) : v \in Some} \union {Choice(Options(n)) : n \in 0..4}
  \union {Choice(Obj(<< <<"a", v>>, <<"b", w>> >>)) : v \in Values, w \in Some}
  \union {Choice(Obj(<< <<k, v>>, <<"b", T("a")>> >>)) : k \in {" ", "#55357"}, v \in {Null, T("a")}}
  \union {Score(v) : v \in Some} \union {Score(Levels(n)) : n \in 0..4}
  \union {Score(Arr(<<v, w>>)) : v \in Values, w \in Some}

Ask(state, model, questions) ==
  Obj(<< <<"state", state>>, <<"model", model>>, <<"questions", questions>> >>)
Q(q) == Obj(<< <<"q", q>> >>)
Good == Noul(T("a"))
Asking(values) == {Ask(T("s"), T("jev"), v) : v \in values}

BodyValues ==
  Plain \union {Obj(<< <<"state", T("s")>>, <<"questions", Q(Good)>>, <<"a", One>> >>),
                Obj(<< <<"model", T("jev")>>, <<"b", Broken>> >>),
                Obj(<< <<"state", T("s")>>, <<"model", T("jev")>>, <<"a", One>>, <<"questions", Q(Good)>> >>)}
  \union {Ask(v, T("jev"), Q(Good)) : v \in Values}
  \union {Ask(T("s"), v, Q(Good)) : v \in Plain \union {Str(<<"jev-", "#55357">>), Str(<<"jev-", "a">>)}}
  \union {Ask(v, w, Q(q)) : v \in Some, w \in {T("a"), Broken}, q \in {Good, One}}
  \union Asking(Some)
  \union Asking({Obj(<< <<id, Good>> >>) : id \in {" ", "#55357"}} \union {Dict(<<Item([k \in 1..n |-> "q"], Good)>>) : n \in {0, 3, 4}})
  \union Asking({Obj([k \in 1..n |-> <<(<<"q", "r", "t", "u">>)[k], Good>>]) : n \in 2..4})
  \union Asking({Obj(<< <<"q", Choice(Arr(<<>>))>>, <<"r", Good>>, <<"t", Score(Arr(<<One, Arr(<<Arr(<<One, Arr(<<>>)>>)>>)>>))>> >>)})
\* questions of one to three prompts or more, of a length that fits or not
LongNoul == Noul(Str([k \in 1..5 |-> "a"]))
LongChoice == Choice(Obj(<< <<"a", Str(<<"x", "x", "x">>)>>, <<"b", Str(<<"y", "y", "y">>)>> >>))
Lengths == Asking({Obj([k \in 1..2 |-> <<(<<"q", "#55357">>)[k], qs[k]>>]) : qs \in [1..2 -> {Good, LongNoul, LongChoice}]}
                  \union {Obj(<< <<"q", Choice(Options(3))>>, <<"r", Good>>, <<"t", Score(Levels(3))>> >>)})
           \union {Ask(Str([k \in 1..n |-> "s"]), T("jev"), Obj(<< <<"q", Good>>, <<"r", Good>> >>)) : n \in {10, 11, 12}}

Wrong == {Request(b, Null, k) : b \in {"value", "decode", "encoding", "bytes"}, k \in BOOLEAN}
AllRequests == Wrong \union {Request("value", v, TRUE) : v \in BodyValues \union Lengths \union Asking({Q(q) : q \in QuestionValues})}
MixedRequests == {Request("value", v, TRUE) : v \in Lengths} \union Wrong
FewRequests == {Request("value", v, TRUE) :
                  v \in {Ask(Deep, T("jev"), Q(Good)), Ask(Limit, T("jev"), Q(Good)),
                         Ask(T("s"), T("jev"), Obj(<< <<"q", Good>>, <<"r", LongNoul>> >>))}}

First == CHOOSE h \in Handlers : TRUE
Alone(requests) == [h \in Handlers |-> IF h = First THEN requests ELSE {}]
Both == [h \in Handlers |-> IF h = First THEN FewRequests \union MixedRequests ELSE FewRequests]
MCLoads == {Alone({r} \union FewRequests) : r \in AllRequests} \union {Both}
MCOrder == <<"#1", " ", "a", "b", "c", "criteria", "d", "false", "instructions", "model", "noul", "other", "q", "questions",
             "r", "state", "t", "true", "type", "u", "#55357">>
MCDumps(v, o) == Dump(v, o, 0)
MCServed == <<"jev">>
MCTokens(text) == Len(text)
MCChoicePhrasings == <<"c1", "c2">>
MCScorePhrasings == <<"s1", "s2">>
=============================================================================
