--------------------------------- MODULE Wire ---------------------------------
(***************************************************************************)
(* The checks of a request and what it asks: check_wire, to_native and     *)
(* check_native of src/src/wire.cpp, the errors of src/src/errors.hpp and  *)
(* the prompts of src/src/prompt.hpp, over values of JSON.  A word the     *)
(* code compares with is a single character here, and a character a single *)
(* byte.  The checks pass on `c`, the errors so far and the recursion      *)
(* counter, recursion_leak.                                                *)
(***************************************************************************)
EXTENDS Values, SequencesExt

CONSTANTS Dumps(_, _),          \* a value written with the options (dumps)
          MAX_DEPTH,            \* pydantic's limit (100)
          MAX_STATE_BYTES, MAX_QUESTIONS, MAX_TEXT, MAX_ID,
          MAX_CHOICE_OPTIONS, MIN_SCORE_LEVELS, MAX_SCORE_LEVELS
ASSUME WireAssumption == /\ MAX_DEPTH \in Nat /\ MAX_DEPTH >= 2
                         /\ MAX_STATE_BYTES \in Nat /\ MAX_QUESTIONS \in Nat \ {0}
                         /\ MAX_TEXT \in Nat \ {0} /\ MAX_ID \in Nat \ {0}
                         /\ MAX_CHOICE_OPTIONS \in Nat \ {0, 1}
                         /\ MIN_SCORE_LEVELS \in Nat \ {0, 1}
                         /\ MAX_SCORE_LEVELS \in Nat /\ MAX_SCORE_LEVELS >= MIN_SCORE_LEVELS

-----------------------------------------------------------------------------
(* Texts and values *)

White == {" ", "#9", "#10", "#11", "#12", "#13", "#28", "#29", "#30", "#31", "#160", "#8195", "#12288"}
Surrogates == {"#55357", "#56832"}
Lone(text) == \E k \in DOMAIN text : text[k] \in Surrogates
Strip(text) == LET solid == {k \in DOMAIN text : text[k] \notin White}
               IN IF solid = {} THEN <<>> ELSE SubSeq(text, Min(solid), Max(solid))

Container(v) == v.kind \in {"list", "dict"}
HasKey(v, key) == \E k \in DOMAIN v.items : v.items[k].key = <<key>>
Get(v, key) == v.items[CHOOSE k \in DOMAIN v.items : v.items[k].key = <<key>>].value
Truthy(v) == CASE v.kind = "null" -> FALSE
               [] v.kind = "bool" -> v = Bool(TRUE)
               [] v.kind = "int" -> v.text # <<"0">>
               [] v.kind = "float" -> v.num.digits # <<"0">>
               [] v.kind = "str" -> v.text # <<>>
               [] OTHER -> v.items # <<>>

Name(n) == Str(<<n>>)
Index(i) == Int_(<<ToString(i)>>)
WireErr(type, loc, input) == [type |-> type, loc |-> loc, wire |-> TRUE, input |-> input, quotes |-> <<>>]
\* `quotes` is what the message holds of the request.
AppErr(type, loc, quotes) == [type |-> type, loc |-> loc, wire |-> FALSE, input |-> Null, quotes |-> quotes]
With(c, errs) == [c EXCEPT !.errs = @ \o errs]

-----------------------------------------------------------------------------
(* check_wire *)

StepOfNext(v, k) == IF v.kind = "list" THEN Index(k) ELSE Str(v.items[k].key)
Step(v, k) == IF v.kind = "list" THEN Index(k - 1) ELSE Str(v.items[k].key)

Hits(hits, leak) == [hits |-> hits, leak |-> leak]
\* The values at the limit below x, with their paths from it, depth first: the
\* next of x's items is gone into with the counter the ones before it leave.
\* `below` is what is found in a value one level down.
InItems(x, depth, leak, below) ==
  LET item(k, done) ==
        LET y == x.items[k].value
            tag == IF Container(y) /\ depth + 1 + done.leak < MAX_DEPTH THEN <<Name(y.kind)>> ELSE <<>>
            found == below[y][done.leak]
            under(hit) == [hit EXCEPT !.path = <<Step(x, k)>> \o tag \o @]
        IN Hits(done.hits \o [j \in DOMAIN found.hits |-> under(found.hits[j])], found.leak)
      done[k \in 0..Len(x.items)] == IF k = 0 THEN Hits(<<>>, leak) ELSE item(k, done[k - 1])
  IN done[Len(x.items)]
\* too_deep.  A container at the limit leaves the counter one higher.
Deeper(x, depth, leak, below) ==
  IF depth + leak >= MAX_DEPTH
  THEN Hits(<<[path |-> <<>>, value |-> x]>>, IF Container(x) THEN leak + 1 ELSE leak)
  ELSE InItems(x, depth, leak, below)
TooDeep(v, counter) ==
  LET deep[depth \in 1..MAX_DEPTH] ==
        [x \in Within(v) |-> [leak \in Nat |-> Deeper(x, depth, leak, deep[depth + 1])]]
  IN deep[1][v][counter]

\* `deep` is what TooDeep finds in v.
Judge(v, loc, optional, c, deep) ==
  LET member(kind, type, tag) ==
        IF v.kind # kind THEN <<WireErr(type, Append(loc, Name(tag)), v)>>
        ELSE [k \in DOMAIN deep.hits |->
                WireErr("recursion_loop", Append(loc, Name(tag)) \o deep.hits[k].path, deep.hits[k].value)]
      fine == \/ optional /\ v.kind = "null"
              \/ v.kind = "str"
              \/ Container(v) /\ deep.hits = <<>>
  IN With([c EXCEPT !.leak = deep.leak],
          IF fine THEN <<>>
          ELSE member("str", "string_type", "str") \o member("dict", "dict_type", "DICT_LOC")
                 \o member("list", "list_type", "LIST_LOC"))
CheckStructured(v, loc, optional, c) ==
  Judge(v, loc, optional, c,
        IF Container(v) THEN TooDeep(v, c.leak) ELSE Hits(<<>>, c.leak))

CheckKey(key, v, loc, optional, c) ==
  IF HasKey(v, key) THEN CheckStructured(Get(v, key), Append(loc, Name(key)), optional, c) ELSE c
CheckItems(v, loc, optional, c) ==
  LET done[k \in 0..Len(v.items)] ==
        IF k = 0 THEN c ELSE CheckStructured(v.items[k].value, Append(loc, Step(v, k)), optional, done[k - 1])
  IN done[Len(v.items)]
CheckExtras(v, allowed, loc, c) ==
  LET item(m, d) == IF m.key \in {<<a>> : a \in allowed} THEN d
                    ELSE With(d, <<WireErr("extra_forbidden", Append(loc, Str(m.key)), m.value)>>)
      done[k \in 0..Len(v.items)] == IF k = 0 THEN c ELSE item(v.items[k], done[k - 1])
  IN done[Len(v.items)]

CheckCriteria(tag, q, loc, c) ==
  LET given == HasKey(q, "criteria")
      crit == Get(q, "criteria")
      wrong(type) == With(c, <<WireErr(type, loc, crit)>>)
  IN CASE tag = "noul" ->
            IF ~given \/ crit.kind = "null" THEN c
            ELSE IF crit.kind # "dict" THEN wrong("model_attributes_type")
            ELSE CheckExtras(crit, {"true", "false"}, loc, CheckKey("false", crit, loc, TRUE, CheckKey("true", crit, loc, TRUE, c)))
       [] tag # "noul" /\ ~given -> With(c, <<WireErr("missing", loc, q)>>)
       [] tag = "choice" /\ given -> IF crit.kind # "dict" THEN wrong("dict_type") ELSE CheckItems(crit, loc, TRUE, c)
       [] tag = "score" /\ given -> IF crit.kind # "list" THEN wrong("list_type") ELSE CheckItems(crit, loc, FALSE, c)

\* The model validators
Problem(tag, crit) ==
  LET count == Len(crit.items)
  IN CASE tag = "noul" -> FALSE
       [] tag = "choice" -> \/ \E k \in DOMAIN crit.items : Strip(crit.items[k].key) = <<>>
                            \/ count < 2 \/ count > MAX_CHOICE_OPTIONS
       [] OTHER -> count < MIN_SCORE_LEVELS \/ count > MAX_SCORE_LEVELS

Tags == {"noul", "choice", "score"}
CheckFields(tag, q, loc, c) ==
  CheckExtras(q, {"type", "instructions", "criteria"}, loc,
    CheckCriteria(tag, q, Append(loc, Name("criteria")),
      CheckKey("instructions", q, loc, TRUE, c)))
\* The model validator runs if the fields were fine.
Validate(tag, q, loc, before, c) ==
  IF c.errs = before /\ tag # "noul" /\ Problem(tag, Get(q, "criteria"))
  THEN With(c, <<WireErr("value_error", loc, q)>>) ELSE c
CheckQuestion(qid, q, c) ==
  LET at == <<Name("body"), Name("questions"), Str(qid)>>
      type == Get(q, "type")
      base == Append(at, Str(type.text))
      tag == type.text[1]
  IN IF q.kind # "dict" THEN With(c, <<WireErr("model_attributes_type", at, q)>>)
     ELSE IF ~HasKey(q, "type") THEN With(c, <<WireErr("union_tag_not_found", at, q)>>)
     ELSE IF type.kind # "str" \/ type.text \notin {<<t>> : t \in Tags}
     THEN With(c, <<[WireErr("union_tag_invalid", at, q) EXCEPT !.quotes = type.text]>>)
     ELSE Validate(tag, q, base, c.errs, CheckFields(tag, q, base, c))

Root == <<Name("body")>>
Missing(body, key) == WireErr("missing", Append(Root, Name(key)), body)
CheckState(body, c) ==
  IF ~HasKey(body, "state") THEN With(c, <<Missing(body, "state")>>)
  ELSE CheckStructured(Get(body, "state"), Append(Root, Name("state")), FALSE, c)
CheckModel(body, c) ==
  LET model == Get(body, "model")
      wrong(type) == With(c, <<WireErr(type, Append(Root, Name("model")), model)>>)
  IN IF ~HasKey(body, "model") THEN With(c, <<Missing(body, "model")>>)
     ELSE IF model.kind # "str" THEN wrong("string_type")
     ELSE IF Lone(model.text) THEN wrong("string_unicode")
     ELSE IF model.text = <<>> THEN wrong("string_too_short")
     ELSE c
CheckQuestions(body, c) ==
  LET qs == Get(body, "questions")
      wrong(type) == With(c, <<WireErr(type, Append(Root, Name("questions")), qs)>>)
      done[k \in 0..Len(qs.items)] ==
        IF k = 0 THEN c ELSE CheckQuestion(qs.items[k].key, qs.items[k].value, done[k - 1])
  IN IF ~HasKey(body, "questions") THEN With(c, <<Missing(body, "questions")>>)
     ELSE IF qs.kind # "dict" THEN wrong("dict_type")
     ELSE IF qs.items = <<>> THEN wrong("too_short")
     ELSE done[Len(qs.items)]

\* check_wire from a counter of `leak`.
CheckWireFrom(body, leak) ==
  LET none == [errs |-> <<>>, leak |-> leak]
  IN IF body.kind = "null" THEN With(none, <<WireErr("missing", Root, body)>>)
     ELSE IF body.kind # "dict" THEN With(none, <<WireErr("model_attributes_type", Root, body)>>)
     ELSE CheckExtras(body, {"state", "model", "questions"}, Root,
            CheckQuestions(body, CheckModel(body, CheckState(body, none))))

-----------------------------------------------------------------------------
(* to_native *)

Canonical == Option(-1, TRUE, <<",">>, <<":">>, FALSE)
TextOf(v) == IF v.kind = "str" THEN Strip(v.text) ELSE Dumps(v, Canonical)
Blank(v) == v.kind = "null" \/ v = Str(<<>>)
Text(field, text) == [field |-> field, text |-> text]

Described(q, key, field, words) ==
  IF HasKey(q, "criteria") /\ HasKey(Get(q, "criteria"), key) /\ ~Blank(Get(Get(q, "criteria"), key))
  THEN <<Text(field, words \o TextOf(Get(Get(q, "criteria"), key)))>> ELSE <<>>
ToNative(qid, q) ==
  LET type == Get(q, "type").text[1]
      said == HasKey(q, "instructions") /\ Truthy(Get(q, "instructions"))
      instructions == IF said THEN TextOf(Get(q, "instructions")) ELSE <<>>
      crit == Get(q, "criteria")
      option(m) == IF Blank(m.value) THEN m.key ELSE m.key \o <<":", " ">> \o TextOf(m.value)
  IN [id |-> qid,
      kind |-> IF type = "noul" THEN "boolean" ELSE type,
      instructions |-> IF instructions = <<>> THEN <<"default">> ELSE instructions,
      texts |->
        CASE type = "noul" -> Described(q, "true", "true_description", <<"Yes. ">>)
                                \o Described(q, "false", "false_description", <<"No. ">>)
          [] type = "choice" -> [k \in DOMAIN crit.items |-> Text("options", option(crit.items[k]))]
          [] OTHER -> [k \in DOMAIN crit.items |-> Text("levels", TextOf(crit.items[k].value))]]

\* The values text_of is given; one of them may hold what it refuses (NanError).
Texts(q) ==
  LET crit == Get(q, "criteria")
      instructions == IF HasKey(q, "instructions") THEN {Get(q, "instructions")} ELSE {}
      keys == IF Get(q, "type") = Name("noul") THEN {<<"true">>, <<"false">>} ELSE {m.key : m \in ToSet(crit.items)}
  IN instructions \union
     (IF HasKey(q, "criteria") THEN {m.value : m \in {m \in ToSet(crit.items) : m.key \in keys}} ELSE {})
NanIn(q) == \E v \in Texts(q) : HasNonFinite(v)

-----------------------------------------------------------------------------
(* check_native *)

TextField(text, loc) ==
  LET length == Len(Strip(text))
  IN IF Lone(text) THEN <<AppErr("string_unicode", loc, <<>>)>>
     ELSE IF length < 1 THEN <<AppErr("string_too_short", loc, <<>>)>>
     ELSE IF length > MAX_TEXT THEN <<AppErr("string_too_long", loc, <<>>)>>
     ELSE <<>>

CheckTexts(q) ==
  LET base == <<Name("body"), Name("questions"), Str(q.id), Name(q.kind)>>
      loc(k) == base \o <<Name(q.texts[k].field)>> \o
                CASE q.kind = "choice" -> <<Index(k - 1), Name("description")>>
                  [] q.kind = "score" -> <<Index(k - 1)>>
                  [] OTHER -> <<>>
      fields == TextField(q.instructions, Append(base, Name("instructions"))) \o
                FlattenSeq([k \in DOMAIN q.texts |-> TextField(q.texts[k].text, loc(k))])
      repeated == \E j, k \in DOMAIN q.texts : j # k /\ Strip(q.texts[j].text) = Strip(q.texts[k].text)
  IN IF q.kind = "score" /\ fields = <<>> /\ repeated
     THEN <<AppErr("value_error", base, <<>>)>> ELSE fields

StateDump == Option(-1, FALSE, <<",", " ">>, <<":", " ">>, FALSE)
CheckNative(state, qs) ==
  LET texts == FlattenSeq([k \in DOMAIN qs |-> CheckTexts(qs[k])])
      wrong == <<AppErr("value_error", Root, <<>>)>>
      badId(id) == Strip(id) = <<>> \/ Len(id) > MAX_ID
  IN IF texts # <<>> THEN texts
     ELSE IF Len(qs) > MAX_QUESTIONS THEN <<AppErr("too_long", Append(Root, Name("questions")), <<>>)>>
     ELSE IF \/ ~Truthy(state)
             \/ state.kind = "str" /\ Strip(state.text) = <<>>
             \/ HasNonFinite(state)
             \/ Lone(Dumps(state, StateDump))
             \/ Len(Dumps(state, StateDump)) > MAX_STATE_BYTES
             \/ \E k \in DOMAIN qs : badId(qs[k].id)
     THEN wrong
     ELSE <<>>

-----------------------------------------------------------------------------
(* Prompts *)

PromptDump == Option(1, FALSE, <<",", " ">>, <<":", " ">>, TRUE)
RenderState(state) ==
  IF state.kind = "str" /\ "</evidence>" \notin ToSet(state.text) THEN Strip(state.text)
  ELSE Dumps(state, PromptDump)
Joined(texts, between) == FlattenSeq([k \in DOMAIN texts |-> between \o texts[k].text])
\* The instructions, every candidate or level, the phrasing, the one asked about.
Instructions(q, phrasing, i) ==
  IF q.kind = "boolean" THEN q.instructions
  ELSE q.instructions \o Joined(q.texts, <<IF q.kind = "choice" THEN "- " ELSE " < ">>)
         \o <<phrasing>> \o q.texts[i].text
BinaryPrompt(state_text, instructions) == state_text \o <<"Question: ">> \o instructions \o <<"Answer:">>

-----------------------------------------------------------------------------
(* Errors as they are sent *)

HasLone(v) ==
  \E x \in Within(v) : \/ x.kind = "str" /\ Lone(x.text)
                       \/ \E k \in DOMAIN x.items : Lone(x.items[k].key)
\* rendered_error: what the error's body cannot be written for replaces it.
Rendered(errs) ==
  IF \E k \in DOMAIN errs : HasNonFinite(errs[k].input)
  THEN <<AppErr("value_error", Root, <<>>)>>
  ELSE IF \E k \in DOMAIN errs : \/ HasLone(errs[k].input) \/ Lone(errs[k].quotes)
                                 \/ \E j \in DOMAIN errs[k].loc : HasLone(errs[k].loc[j])
  THEN <<AppErr("value_error", Root, <<>>)>>
  ELSE errs
=============================================================================
