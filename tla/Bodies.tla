------------------------------- MODULE Bodies -------------------------------
(***************************************************************************)
(* A body's way through the program: its bytes are decoded and, if they    *)
(* are JSON, parsed; the value is written with one of the program's        *)
(* options (an answer, a prompt's state, a canonical text), and what was   *)
(* written may be read again.  A body of another content type is taken as  *)
(* a text, stripped as the checks do, or refused for its first error.      *)
(***************************************************************************)
EXTENDS JsonGrammar, Texts

LOCAL INSTANCE SequencesExt

CONSTANT Strangers   \* characters that may lie in memory past the end of a text

VARIABLES pc,
          read,     \* what loads made of it
          option,   \* the options it is written with
          written,  \* the text written
          again     \* what loads makes of that
jsonVars == <<pc, read, option, written, again>>
vars == <<textVars, jsonVars>>

Compact == Option(-1, FALSE, <<",">>, <<":">>, TRUE)        \* a legend, an error's ctx
Canonical == Option(-1, TRUE, <<",">>, <<":">>, FALSE)      \* text_of
StateText == Option(-1, FALSE, <<",", " ">>, <<":", " ">>, FALSE)   \* check_native
Prompt == Option(1, FALSE, <<",", " ">>, <<":", " ">>, TRUE)        \* render_state
Pretty == Option(2, FALSE, <<",", " ">>, <<":", " ">>, FALSE)       \* write_answer
Options == {Compact, Canonical, StateText, Prompt, Pretty}

Bom == <<239, 187, 191>>
WithoutBom(b) == IF SubSeq(b, 1, IF Len(b) < 3 THEN Len(b) ELSE 3) = Bom THEN SubSeq(b, 4, Len(b)) ELSE b
Characters_(text) == [k \in DOMAIN text |-> Chr(text[k])]
LoadsBefore(b, past) ==
  LET decoded == Decoded(WithoutBom(b))
  IN IF ~decoded.valid THEN BodyError
     ELSE Run([chars |-> Characters_(decoded.text), past |-> past])

Init == /\ TextInit
        /\ pc = "received"
        /\ read = NoValue(0)
        /\ option = Compact
        /\ written = <<>>
        /\ again = NoValue(0)

Load == /\ pc = "received"
        /\ read' = LoadsBefore(bytes, "0")
        /\ pc' = IF read'.fail = "none" THEN "read" ELSE "refused"
        /\ UNCHANGED <<textVars, option, written, again>>

\* dumps; NanError where the options refuse what the value has.
Write == /\ pc = "read"
         /\ option' \in Options
         /\ IF ~option'.nan /\ HasNonFinite(read.value)
            THEN pc' = "not written" /\ UNCHANGED written
            ELSE pc' = "written" /\ written' = Dump(read.value, option', 0)
         /\ UNCHANGED <<textVars, read, again>>

Reload == /\ pc = "written"
          /\ again' = Run([chars |-> written, past |-> "0"])
          /\ pc' = "read again"
          /\ UNCHANGED <<textVars, read, option, written>>

\* A body of another content type.
NotJson == /\ pc = "received"
           /\ TakeAsText
           /\ pc' = "text"
           /\ UNCHANGED <<read, option, written, again>>

Next == Load \/ Write \/ Reload \/ NotJson
Spec == Init /\ [][Next]_vars

-----------------------------------------------------------------------------
(* Properties *)

Meant(b) == LET decoded == Decoded(WithoutBom(b))
            IN IF decoded.valid THEN Spelled(Characters_(decoded.text), 0) ELSE {}
\* loads (pyjson.hpp:147-345) accepts exactly the JSON texts within the limits, and reads in
\* each the value it spells: numbers, escapes and surrogates split over two of them, the last
\* of equal keys in the first one's place, a value too deep even where another replaces it.
LoadsIsJson == pc \in {"read", "refused"} =>
  Meant(bytes) = IF read.fail = "none" THEN {read.value} ELSE {}

RECURSIVE Turned(_), SameUpToOrder(_, _)
Turned(v) ==
  LET items == [k \in DOMAIN v.items |-> Item(v.items[k].key, Turned(v.items[k].value))]
  IN [v EXCEPT !.items = IF v.kind = "dict" THEN Reverse(items) ELSE items]
SameUpToOrder(v, w) ==
  /\ v.kind = w.kind /\ v.text = w.text /\ v.num = w.num
  /\ Len(v.items) = Len(w.items)
  /\ \A k \in DOMAIN v.items : \E j \in DOMAIN w.items :
       /\ v.kind = "list" => j = k
       /\ v.items[k].key = w.items[j].key
       /\ SameUpToOrder(v.items[k].value, w.items[j].value)

\* What dumps writes with any of the program's options (pyjson.hpp:353-456) reads back as
\* the value written, to the last digit and key: answers can be read, a prompt's state is the
\* caller's.  Only sort_keys changes anything, the order of the keys: text_of's text
\* (prompt.hpp:23) is one per value, whatever the order its keys came in, at any depth.
WrittenReadsBack ==
  /\ pc = "read again" =>
       /\ again.fail = "none"
       /\ IF option.sort THEN SameUpToOrder(again.value, read.value) ELSE again.value = read.value
  /\ pc = "written" /\ option.sort => written = Dump(Turned(read.value), option, 0)

Middles == LET q == "\"" IN
  {<<>>, <<"0">>, <<q>>, <<"n", q>>, <<":", "0">>, <<q, ":", "0">>, <<"n", q, ":", "0">>, <<q, q, ":", "0">>}
Closers == UNION {[1..m -> {"]", "}"}] : m \in 0..(MaxDepth + 1)}

\* The position in an error (Parser, pyjson.hpp:147-333), which a 422's loc and jev decide's
\* line and column show the caller, has only good text before it: something put there
\* instead of the rest would be accepted, or is only nested too deep.  No character past the
\* text's end is looked at: the outcome is the same whatever is there (pyjson.hpp:201-211,
\* 262-265, 276-279).
ErrorsPointAtTheFault ==
  /\ pc = "refused" /\ read # BodyError =>
       LET before == SubSeq(Characters_(Decoded(WithoutBom(bytes)).text), 1, read.at)
       IN \E middle \in Middles, closers \in Closers :
            Run([chars |-> before \o middle \o closers, past |-> "0"]).fail
              \in {"none", "BodyError"}
  /\ pc \in {"read", "refused"} =>
       \A past \in Strangers : LoadsBefore(bytes, past) = read
=============================================================================
