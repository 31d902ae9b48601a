------------------------------- MODULE Server -------------------------------
(***************************************************************************)
(* POST /v1/systemone: the HTTP handler of serve() and Api::systemone      *)
(* (src/src/server.cpp) on several handler threads, over the scheduler     *)
(* they share, which is its abstract specification here (ScoreService).    *)
(*                                                                         *)
(* A request is the value its body was read as, with the key it was sent   *)
(* with; the checks are those of Wire, each an action, in the order of the *)
(* code, with the one thing they remember from request to request, the     *)
(* recursion counter of the thread.  A prompt is its text and what it asks *)
(* about; the model's answer to a prompt is the prompt's place.            *)
(***************************************************************************)
EXTENDS Wire, FiniteSets

CONSTANTS Handlers,         \* httplib's threads
          Loads,            \* loads: the requests each handler may be sent
          Served,           \* the model's name
          Tokens(_),        \* how many tokens a text has (Vocabulary)
          ctx,              \* Api::ctx
          ChoicePhrasings,  \* the phrasings a choice and a score are asked in
          ScorePhrasings

\* body: "value" (JSON, text of another content type, or none, which is null),
\*   "decode" (not JSON), "encoding" (JSON that is not UTF-8), "bytes" (another
\*   content type, not UTF-8); key: the API key is right.
Request(body, value, key) == [body |-> body, value |-> value, key |-> key]

Sent == UNION {UNION {sent[h] : h \in Handlers} : sent \in Loads}

ASSUME SentAssumption ==
  \A r \in Sent : /\ r.body \in {"value", "decode", "encoding", "bytes"} /\ r.key \in BOOLEAN
                  /\ IsJson(r.value)
ASSUME LimitsAssumption ==
  /\ ctx \in Nat \ {0}
  /\ ChoicePhrasings \in Seq(STRING \ Surrogates) \ {<<>>}
  /\ ScorePhrasings \in Seq(STRING \ Surrogates) \ {<<>>}
\* dumps writes every character of a value that UTF-8 has not, and no other, and
\* brackets around what a container holds.
Bracketed(text) == /\ text # <<>>
                   /\ text[1] \in {"[", "{"} /\ text[Len(text)] \in {"]", "}"}
ASSUME DumpsAssumption ==
  \A v \in UNION {Within(r.value) : r \in Sent} : \A o \in {Canonical, StateDump, PromptDump} :
    /\ Dumps(v, o) \in Seq(STRING)
    /\ Lone(Dumps(v, o)) <=> HasLone(v)
    /\ \A text \in {Dumps(v, o)} : Container(v) => Bracketed(text)

-----------------------------------------------------------------------------
(* The prompts of a request *)

Questions(r) == LET qs == Get(r.value, "questions").items
                IN [k \in DOMAIN qs |-> ToNative(qs[k].key, qs[k].value)]

Asked(k, i, text) == [question |-> k, about |-> i, text |-> text]
Phrase(q, k, phrasing, i) == Asked(k, i, Instructions(q, phrasing, i))
\* How many candidates are asked about: every option, every level above the
\* lowest; and the first of them.
Candidates(q) == CASE q.kind = "boolean" -> 1 [] q.kind = "choice" -> Len(q.texts)
                   [] q.kind = "score" -> Len(q.texts) - 1
FirstCandidate(q) == IF q.kind = "score" THEN 2 ELSE 1
Phrasings(q) == CASE q.kind = "boolean" -> <<"">> [] q.kind = "choice" -> ChoicePhrasings
                  [] q.kind = "score" -> ScorePhrasings
PromptsOptionMajor(q, k) ==
  [j \in 1..(Len(Phrasings(q)) * Candidates(q)) |->
     Phrase(q, k, Phrasings(q)[((j - 1) % Len(Phrasings(q))) + 1],
            FirstCandidate(q) + (j - 1) \div Len(Phrasings(q)))]
\* phrasing-major: every candidate in one phrasing
PromptsOf(q, k) ==
  [j \in 1..(Len(Phrasings(q)) * Candidates(q)) |->
     Phrase(q, k, Phrasings(q)[(j - 1) \div Candidates(q) + 1],
            FirstCandidate(q) + ((j - 1) % Candidates(q)))]
StateText(r) == RenderState(Get(r.value, "state"))
\* every prompt holds the whole state
Prompts(r) ==
  LET whole(p) == [p EXCEPT !.text = BinaryPrompt(StateText(r), @)]
      asked == FlattenSeq([k \in DOMAIN Questions(r) |-> PromptsOf(Questions(r)[k], k)])
  IN [p \in DOMAIN asked |-> whole(asked[p])]

VARIABLES load,      \* what the clients send
          stage,     \* where each handler is
          request,   \* what it is answering
          leak,      \* its thread_local recursion_leak
          response,  \* the last response it sent
          pending,   \* the scheduler's requests
          answer     \* and answers
serviceVars == <<pending, answer>>
serverVars == <<load, stage, request, leak, response, serviceVars>>

Scheduler == INSTANCE ScoreService WITH Callers <- Handlers

\* why: what decided it; question: the one a context error names
Response(status, why, question, answers, errs) ==
  [status |-> status, why |-> why, question |-> question, answers |-> answers, errs |-> errs]
None == Response(0, "none", 0, <<>>, <<>>)
Refusal(status, why) == Response(status, why, 0, <<>>, <<>>)
Unprocessable(why, errs) == IF errs = <<>> THEN None ELSE Response(422, why, 0, <<>>, Rendered(errs))
TooLong(r, k) ==
  Response(422, "context", k, <<>>,
           Rendered(<<AppErr("value_error", Root, Get(r.value, "questions").items[k].key)>>))
InternalError == Refusal(500, "error")

ServerInit ==
  /\ load \in Loads
  /\ stage = [h \in Handlers |-> "idle"]
  /\ request = [h \in Handlers |-> Request("value", Null, TRUE)]
  /\ leak = [h \in Handlers |-> 0]
  /\ response = [h \in Handlers |-> None]
  /\ Scheduler!Init

-----------------------------------------------------------------------------
Advance(h, place) == stage' = [stage EXCEPT ![h] = place] /\ UNCHANGED response
Send(h, res) == /\ stage' = [stage EXCEPT ![h] = "idle"]
                /\ response' = [response EXCEPT ![h] = res]
\* `refusal` is None if the check holds
Check(h, refusal, place) == IF refusal = None THEN Advance(h, place) ELSE Send(h, refusal)

Receive(h, r) == /\ stage[h] = "idle"
                 /\ stage' = [stage EXCEPT ![h] = "body"]
                 /\ request' = [request EXCEPT ![h] = r]
                 /\ response' = [response EXCEPT ![h] = None]
                 /\ UNCHANGED <<load, leak, serviceVars>>

Doing(h, place) == stage[h] = place /\ UNCHANGED <<load, request>>

\* The body is read, and decoded if JSON, before the key is checked.
ReadBody(h) ==
  /\ Doing(h, "body")
  /\ UNCHANGED <<leak, serviceVars>>
  /\ LET body == request[h].body
     IN CASE body = "decode" -> Send(h, Refusal(422, "decode"))
          [] body = "encoding" -> Send(h, Refusal(400, "encoding"))
          [] body = "bytes" -> Send(h, Refusal(422, "bytes"))
          [] OTHER -> Advance(h, "key")

Authorize(h) == /\ Doing(h, "key")
                /\ UNCHANGED <<leak, serviceVars>>
                /\ Check(h, IF request[h].key THEN None ELSE Refusal(401, "key"), "wire")

Judged(h, wire) == /\ Check(h, Unprocessable("wire", wire.errs), "name")
                   /\ leak' = [leak EXCEPT ![h] = wire.leak]
CheckWireKeepsLeak(h) == /\ Doing(h, "wire")
                         /\ UNCHANGED serviceVars
                         /\ Judged(h, CheckWireFrom(request[h].value, leak[h]))
\* check_wire, which begins by resetting the thread's counter.
CheckWire(h) == /\ Doing(h, "wire")
                /\ UNCHANGED serviceVars
                /\ Judged(h, CheckWireFrom(request[h].value, 0))

Known(name) == name = Served \/ name[1] = "jev-"
NameErrors(body) == LET name == Get(body, "model").text
                    IN IF Known(name) THEN <<>> ELSE <<AppErr("value_error", Append(Root, Name("model")), name)>>
CheckName(h) == /\ Doing(h, "name")
                /\ UNCHANGED <<leak, serviceVars>>
                /\ Check(h, Unprocessable("name", NameErrors(request[h].value)), "native")

\* to_native of every question, which throws at what text_of cannot write, then
\* check_native
NativeErrors(r) ==
  IF \E m \in ToSet(Get(r.value, "questions").items) : NanIn(m.value)
  THEN <<AppErr("value_error", Root, <<>>)>>
  ELSE CheckNative(Get(r.value, "state"), Questions(r))
Translate(h) == /\ Doing(h, "native")
                /\ UNCHANGED <<leak, serviceVars>>
                /\ Check(h, Unprocessable("native", NativeErrors(request[h])), "encode")

Long(prompt) == Tokens(prompt.text) > ctx
\* surrogate_error
Unencodable(prompts) == {p \in DOMAIN prompts : Lone(prompts[p].text)}
\* The first prompt that cannot be encoded; a prompt before it that is too long
\* comes first.
EncodingRefusal(r, prompts) ==
  LET lone == Unencodable(prompts)
      early == {p \in 1..(Min(lone) - 1) : Long(prompts[p])}
  IN IF lone = {} THEN None
     ELSE IF early # {} THEN TooLong(r, prompts[Min(early)].question)
     ELSE Unprocessable("surrogates", <<AppErr("value_error", Root, <<>>)>>)
Encode(h) == /\ Doing(h, "encode")
             /\ UNCHANGED <<leak, serviceVars>>
             /\ Check(h, EncodingRefusal(request[h], Prompts(request[h])), "tokens")

TooLongPrompts(prompts) == {p \in DOMAIN prompts : Tokens(prompts[p].text) = 0 \/ Long(prompts[p])}
StateFits(r) == Tokens(StateText(r)) <= ctx
LastLong(r, prompts) ==
  IF ~StateFits(r) THEN TooLong(r, prompts[1].question)
  ELSE IF TooLongPrompts(prompts) = {} THEN None
  ELSE TooLong(r, prompts[Max(TooLongPrompts(prompts))].question)
\* The state alone, then all the prompts.
LengthRefusal(r, prompts) ==
  IF ~StateFits(r) THEN TooLong(r, prompts[1].question)
  ELSE IF TooLongPrompts(prompts) = {} THEN None
  ELSE TooLong(r, prompts[Min(TooLongPrompts(prompts))].question)
\* tokenize_request (RequestTokens), then the scheduler
Tokenize(h) ==
  /\ Doing(h, "tokens")
  /\ UNCHANGED leak
  /\ \E refusal \in {LengthRefusal(request[h], Prompts(request[h]))} :
       /\ Check(h, refusal, "score")
       /\ IF refusal = None THEN Scheduler!Accept(h) ELSE UNCHANGED serviceVars

\* tokenize_request may throw (memory, threads): RequestTokens.
TokenizeFails(h) == /\ Doing(h, "tokens")
                    /\ StateFits(request[h])
                    /\ UNCHANGED <<leak, serviceVars>>
                    /\ Send(h, InternalError)

\* P(yes) of each question's prompts, in order.
Answered(prompts, k) ==
  LET answered[p \in 0..Len(prompts)] ==
        IF p = 0 THEN <<>>
        ELSE IF prompts[p].question = k THEN Append(answered[p - 1], p) ELSE answered[p - 1]
  IN answered[Len(prompts)]
\* choose and rate: what a candidate's mean is taken over (index f * n + i).
Means(q, ps) ==
  LET n == Candidates(q)
  IN [i \in 1..n |-> {ps[(f - 1) * n + i] : f \in 1..(Len(ps) \div n)}]
Answers(r) == LET prompts == Prompts(r)
                  qs == Questions(r)
              IN [k \in DOMAIN qs |-> Means(qs[k], Answered(prompts, k))]
Success(r) == Response(200, "answers", 0, Answers(r), <<>>)

Respond(h) ==
  /\ Doing(h, "score")
  /\ Scheduler!Return(h)
  /\ UNCHANGED leak
  /\ Send(h, IF answer[h] = "error" THEN InternalError ELSE Success(request[h]))

HandlerStep(h) == \/ ReadBody(h) \/ Authorize(h) \/ CheckWire(h) \/ CheckName(h)
                  \/ Translate(h) \/ Encode(h) \/ Tokenize(h) \/ TokenizeFails(h)
                  \/ Respond(h)
ModelAnswers == Scheduler!Answer /\ UNCHANGED <<load, stage, request, leak, response>>
ServerNext == ModelAnswers \/ \E h \in Handlers : HandlerStep(h) \/ \E r \in load[h] : Receive(h, r)

ServerSpec == ServerInit /\ [][ServerNext]_serverVars

-----------------------------------------------------------------------------
(* What a request has to be *)

\* A text, or a container that holds nothing MAX_DEPTH levels from outside.
Structured(v) == v.kind = "str" \/ (Container(v) /\ Level(v, MAX_DEPTH - 1) = {})
Keys(v) == {m.key : m \in ToSet(v.items)}
KeysIn(v, names) == v.kind = "dict" /\ Keys(v) \subseteq {<<n>> : n \in names}
Fits(text) == ~Lone(text) /\ Len(Strip(text)) \in 1..MAX_TEXT
\* A text, or a value asked about by its JSON.
Readable(v) == Structured(v) /\ ~HasNonFinite(v)

GoodInstructions(v) ==
  \/ v.kind = "null"
  \/ /\ Readable(v)
     /\ (v.items = <<>> /\ Strip(v.text) = <<>>) \/ Fits(TextOf(v))
GoodDescription(v, before) ==
  \/ v.kind = "null"
  \/ /\ Readable(v)
     /\ (v = Str(<<>>) \/ Fits(before \o TextOf(v)))
GoodChoice(options) ==
  /\ options.kind = "dict" /\ Len(options.items) \in 2..MAX_CHOICE_OPTIONS
  /\ \A m \in ToSet(options.items) :
       /\ Strip(m.key) # <<>>
       /\ GoodDescription(m.value, m.key \o <<":", " ">>)
       /\ Blank(m.value) => Fits(m.key)
GoodScore(levels) ==
  /\ levels.kind = "list" /\ Len(levels.items) \in MIN_SCORE_LEVELS..MAX_SCORE_LEVELS
  /\ \A j, k \in DOMAIN levels.items :
       /\ Readable(levels.items[k].value) /\ Fits(TextOf(levels.items[k].value))
       /\ j # k => TextOf(levels.items[j].value) # TextOf(levels.items[k].value)
GoodQuestion(q) ==
  /\ KeysIn(q, {"type", "instructions", "criteria"})
  /\ HasKey(q, "instructions") => GoodInstructions(Get(q, "instructions"))
  /\ HasKey(q, "type")
  /\ CASE Get(q, "type") = Name("noul") ->
            HasKey(q, "criteria") =>
              \/ Get(q, "criteria").kind = "null"
              \/ /\ KeysIn(Get(q, "criteria"), {"true", "false"})
                 /\ \A m \in ToSet(Get(q, "criteria").items) : GoodDescription(m.value, <<"Yes. ">>)
       [] Get(q, "type") = Name("choice") -> HasKey(q, "criteria") /\ GoodChoice(Get(q, "criteria"))
       [] Get(q, "type") = Name("score") -> HasKey(q, "criteria") /\ GoodScore(Get(q, "criteria"))
       [] OTHER -> FALSE
GoodState(v) ==
  /\ Structured(v) /\ ~HasNonFinite(v) /\ ~HasLone(v)
  /\ IF v.kind = "str" THEN Strip(v.text) # <<>> ELSE v.items # <<>>
  /\ Len(Dumps(v, StateDump)) <= MAX_STATE_BYTES
GoodRequest(v) ==
  /\ KeysIn(v, {"state", "model", "questions"}) /\ Cardinality(Keys(v)) = 3
  /\ GoodState(Get(v, "state"))
  /\ LET model == Get(v, "model") IN
       model.kind = "str" /\ model.text # <<>> /\ ~Lone(model.text) /\ Known(model.text)
  /\ LET qs == Get(v, "questions") IN
       /\ qs.kind = "dict" /\ Len(qs.items) \in 1..MAX_QUESTIONS
       /\ \A m \in ToSet(qs.items) : /\ Strip(m.key) # <<>> /\ Len(m.key) <= MAX_ID
                                     /\ GoodQuestion(m.value)

\* "Every prompt holds the whole state and is at least as long", and has a token.
ASSUME TokensAssumption ==
  \A r \in Sent : GoodRequest(r.value) =>
    /\ Tokens(StateText(r)) \in Nat
    /\ \A p \in DOMAIN Prompts(r) :
         Tokens(Prompts(r)[p].text) \in Nat \ {0} /\ Tokens(Prompts(r)[p].text) >= Tokens(StateText(r))

-----------------------------------------------------------------------------
(* Properties *)

\* The Python server's loop: each prompt encoded, then measured, in order.
LoopResult(r, prompts) ==
  LET stopped == Unencodable(prompts) \union TooLongPrompts(prompts)
  IN IF stopped = {} THEN Success(r) ELSE TooLong(r, prompts[Min(stopped)].question)

\* "the first question whose prompt cannot be encoded, as in the Python loop; a
\* context error of an earlier question comes first there": the checks that
\* are made over all the prompts, and with the state first, report what one
\* loop over the prompts would have stopped at.
FirstProblemFirst ==
  \A h \in Handlers :
    response[h].why \in {"context", "answers"} => response[h] = LoopResult(request[h], Prompts(request[h]))

\* Every candidate of every question has the mean of the prompts that asked
\* about it, one per phrasing, wherever they are in the request (prompts are
\* laid out here, read by index in choose and rate).
AnswersWhereAsked ==
  \A h \in Handlers :
    response[h].why = "answers" =>
      LET prompts == Prompts(request[h])
          qs == Questions(request[h]) IN
        \A k \in DOMAIN qs :
            \A i \in DOMAIN response[h].answers[k] :
              response[h].answers[k][i] =
                {p \in DOMAIN prompts : prompts[p].question = k /\ prompts[p].about = FirstCandidate(qs[k]) + i - 1}

\* The checks accept a request exactly when it is what the schema asks for, as a
\* whole and whatever the thread answered before it (recursion_leak outlives a
\* request); and what they accept can be asked: no prompt holds what cannot be
\* encoded, so the refusals of server.cpp:69 never meet a request.
VerdictIsRequests ==
  \A h \in Handlers :
    /\ response[h].why # "surrogates"
    /\ stage[h] = "encode" => GoodRequest(request[h].value)
    /\ response[h].why \in {"wire", "name", "native"} => ~GoodRequest(request[h].value)

Alternatives == {Name(n) : n \in Tags \union {"str", "dict", "list", "DICT_LOC", "LIST_LOC"}}
KeyOf(x, k) == IF x.kind = "list" THEN Index(k - 1) ELSE Str(x.items[k].key)
\* Where an error's path may lead: each step is a key or an index of the value it
\* is at, or names an alternative of the schema.
Leads(v, path) ==
  LET to(x, step) == {x.items[k].value : k \in {k \in DOMAIN x.items : step = KeyOf(x, k)}}
                       \union {y \in {x} : step \in Alternatives}
      at[n \in 0..Len(path)] == IF n = 0 THEN {v} ELSE UNION {to(x, path[n]) : x \in at[n - 1]}
  IN at[Len(path)]
\* The value an error of the wire model shows is one its path leads to, the
\* recursion guard's paths included; a missing field is missing there.
PointsAt(body, err) ==
  IF err.type = "missing" /\ Len(err.loc) > 1
  THEN err.input \in Leads(body, Tail(Front(err.loc))) /\ Last(err.loc).text \notin Keys(err.input)
  ELSE err.input \in Leads(body, Tail(err.loc))
RefusalsPointAtFaults ==
  \A h \in Handlers : \A k \in DOMAIN response[h].errs :
    response[h].errs[k].wire => PointsAt(request[h].value, response[h].errs[k])
=============================================================================
