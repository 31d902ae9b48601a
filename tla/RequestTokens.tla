---------------------------- MODULE RequestTokens ----------------------------
(***************************************************************************)
(* tokenize_request (src/src/request_tokens.cpp): every prompt and the     *)
(* state alone become tokens, on one thread or on a pool that shares an    *)
(* atomic counter; then the state is cut to what every prompt starts with, *)
(* and the prefix is grown to what they all have in common.  A turn of a   *)
(* loop is an action.  What the tokenizer makes of a text is given: an     *)
(* input holds it, and the texts it throws at.                             *)
(***************************************************************************)
EXTENDS Integers, Sequences, FiniteSets

CONSTANTS Inputs,       \* [texts, fails, pool]: the tokens of each prompt and, last,
                        \* of the state alone; the texts whose tokenization throws;
                        \* whether there is enough text for threads
          Threads,      \* the pool's threads, when there is one
          SpawnMayFail  \* whether std::thread may throw (no thread to be had)

ASSUME InputsAssumption ==
  \A a \in Inputs : /\ a.texts \in Seq(Seq(Int))
                    /\ a.texts # <<>>
                    /\ a.fails \subseteq DOMAIN a.texts
                    /\ a.pool \in BOOLEAN
ASSUME ThreadsAssumption == IsFiniteSet(Threads) /\ Threads # {} /\ SpawnMayFail \in BOOLEAN

VARIABLES input,
          pc,      \* where the request's thread is
          worker,  \* where each thread of the pool is
          item,    \* the text each of them has claimed
          next,    \* the atomic counter (and the counter of the loop without a pool)
          failed,  \* an exception was caught
          tokens,  \* the texts tokenized; a slot is empty until its turn
          state,   \* the state's part
          prefix,  \* the tokens every prompt starts with
          common,  \* how many tokens the prompts seen so far share
          turn     \* the next prompt of the loop the request's thread is in
poolVars == <<worker, item, next, failed, tokens>>
partVars == <<state, prefix, common, turn>>
vars == <<input, pc, poolVars, partVars>>

size == Len(input.texts)
n == size - 1
Prompts == 1..n
t(i) == tokens[i]

Init == /\ input \in Inputs
        /\ pc = IF input.pool THEN "spawn" ELSE "alone"
        /\ worker = [w \in Threads |-> "none"]
        /\ item = [w \in Threads |-> 0]
        /\ next = 1
        /\ failed = FALSE
        /\ tokens = [i \in 1..size |-> <<>>]
        /\ state = <<>>
        /\ prefix = <<>>
        /\ common = 0
        /\ turn = 1

-----------------------------------------------------------------------------
(* The pool *)

Spawn(w) == /\ pc = "spawn" /\ worker[w] = "none"
            /\ worker' = [worker EXCEPT ![w] = "claim"]
            /\ UNCHANGED <<input, pc, item, next, failed, tokens, partVars>>

\* A pool with threads still joinable is destroyed: std::terminate.
SpawnFails == /\ SpawnMayFail
              /\ pc = "spawn"
              /\ \E w \in Threads : worker[w] = "none"
              /\ pc' = IF \E w \in Threads : worker[w] # "none" THEN "terminated" ELSE "thrown"
              /\ UNCHANGED <<input, worker, item, next, failed, tokens, partVars>>

Spawned == /\ pc = "spawn" /\ \A w \in Threads : worker[w] # "none"
           /\ pc' = "join"
           /\ UNCHANGED <<input, worker, item, next, failed, tokens, partVars>>

\* Threads end with the process.
Runs(w) == pc # "terminated" /\ worker[w] # "none"

\* i = next++
Claim(w) ==
  /\ Runs(w) /\ worker[w] = "claim"
  /\ item' = [item EXCEPT ![w] = IF next <= size THEN next ELSE @]
  /\ worker' = [worker EXCEPT ![w] = IF next <= size THEN "work" ELSE "ended"]
  /\ next' = next + 1
  /\ UNCHANGED <<input, pc, failed, tokens, partVars>>

Tokenized(i) == [tokens EXCEPT ![i] = input.texts[i]]

Work(w) ==
  /\ Runs(w) /\ worker[w] = "work"
  /\ IF item[w] \in input.fails
     THEN worker' = [worker EXCEPT ![w] = "catch"] /\ UNCHANGED tokens
     ELSE worker' = [worker EXCEPT ![w] = "claim"] /\ tokens' = Tokenized(item[w])
  /\ UNCHANGED <<input, pc, item, next, failed, partVars>>

\* The handler, under its mutex: the first exception is kept, the others stop.
Catch(w) ==
  /\ Runs(w) /\ worker[w] = "catch"
  /\ failed' = TRUE
  /\ next' = size + 1
  /\ worker' = [worker EXCEPT ![w] = "ended"]
  /\ UNCHANGED <<input, pc, item, tokens, partVars>>

\* The state's own tokens but the last (a merge may cross the boundary).
WithoutLast(s) == IF s = <<>> THEN s ELSE SubSeq(s, 1, Len(s) - 1)

Start == /\ pc' = "cut"
         /\ state' = WithoutLast(tokens[size])
         /\ turn' = 1
         /\ UNCHANGED <<prefix, common>>

JoinIgnoresFailure == /\ pc = "join" /\ \A w \in Threads : worker[w] = "ended"
                      /\ UNCHANGED <<input, poolVars>>
                      /\ Start
JoinFirstOnly == /\ pc = "join" /\ \E w \in Threads : worker[w] = "ended"
                 /\ UNCHANGED <<input, poolVars>>
                 /\ IF failed THEN pc' = "thrown" /\ UNCHANGED partVars ELSE Start
\* Every thread joined; the exception, if there was one, thrown again.
Join == /\ pc = "join" /\ \A w \in Threads : worker[w] = "ended"
        /\ UNCHANGED <<input, poolVars>>
        /\ IF failed THEN pc' = "thrown" /\ UNCHANGED partVars ELSE Start

\* No pool: the same loop on the request's own thread.
Alone == /\ pc = "alone" /\ next <= size
         /\ IF next \in input.fails
            THEN pc' = "thrown" /\ UNCHANGED poolVars
            ELSE /\ tokens' = Tokenized(next)
                 /\ next' = next + 1
                 /\ UNCHANGED <<pc, worker, item, failed>>
         /\ UNCHANGED <<input, partVars>>
AloneDone == /\ pc = "alone" /\ next > size
             /\ UNCHANGED <<input, poolVars>>
             /\ Start

-----------------------------------------------------------------------------
(* The state's part and the prefix *)

\* The tokens a and b have in common from the start, at most m.
\* (The lengths shared are 1..longest, so their number is the longest.)
Shared(a, b, m) ==
  Cardinality({l \in 1..m : /\ l <= Len(a)
                            /\ l <= Len(b)
                            /\ \A i \in 1..l : a[i] = b[i]})

Cut == /\ pc = "cut" /\ turn <= n
       /\ state' = SubSeq(state, 1, Shared(state, t(turn), Len(state)))
       /\ turn' = turn + 1
       /\ UNCHANGED <<input, pc, poolVars, prefix, common>>

\* No state when a prompt does not go on after it.
Extended == \A i \in Prompts : Len(t(i)) > Len(state)

KeepState ==
  /\ pc = "cut" /\ turn > n
  /\ state' = IF Extended THEN state ELSE <<>>
  /\ prefix' = state'
  /\ IF n > 1 /\ state' # <<>>
     THEN pc' = "share" /\ common' = Len(t(1)) - 1
     ELSE pc' = "returned" /\ UNCHANGED common
  /\ turn' = 1
  /\ UNCHANGED <<input, poolVars>>

ShareToTheEnd == /\ pc = "share" /\ turn <= n
                 /\ common' = Shared(t(turn), t(1), common)
                 /\ turn' = turn + 1
                 /\ UNCHANGED <<input, pc, poolVars, state, prefix>>
ShorterOf(a, b) == IF b < a THEN b ELSE a
\* What all the prompts share past the state, short of the shortest of them.
Share == /\ pc = "share" /\ turn <= n
         /\ common' = Shared(t(turn), t(1), ShorterOf(common, Len(t(turn)) - 1))
         /\ turn' = turn + 1
         /\ UNCHANGED <<input, pc, poolVars, state, prefix>>

Finish == /\ pc = "share" /\ turn > n
          /\ prefix' = SubSeq(t(1), 1, common)
          /\ pc' = "returned"
          /\ UNCHANGED <<input, poolVars, state, common, turn>>

RequestStep == Spawned \/ Join \/ Alone \/ AloneDone \/ Cut \/ KeepState \/ Share \/ Finish
PoolStep(w) == Claim(w) \/ Work(w) \/ Catch(w)
Next == RequestStep \/ SpawnFails \/ \E w \in Threads : Spawn(w) \/ PoolStep(w)

SafeSpec == Init /\ [][Next]_vars

-----------------------------------------------------------------------------
(* Properties *)

IsStart(a, b) == Len(a) <= Len(b) /\ \A i \in DOMAIN a : a[i] = b[i]
Text(i) == input.texts[i]

\* Past the tokenization every text has its own tokens, whichever thread made
\* them and in whatever order: "which gives the same tokens" as one thread does,
\* and a failure anywhere never leaves a slot empty in a result.
SameTokens == pc \in {"cut", "share", "returned"} =>
                \A i \in 1..size : tokens[i] = Text(i) /\ i \notin input.fails

\* The pool's threads use the function's locals: none is left running when it
\* returns or throws.
NoneOutlives == pc \in {"cut", "share", "returned", "thrown"} =>
                  \A w \in Threads : worker[w] \in {"none", "ended"}

\* The state's part and the prefix are starts of every prompt, and every prompt
\* goes on after them, which the calls and the trees of the model rely on; the
\* state's part is within the state's own tokens and within the prefix.
EveryPromptGoesOn ==
  pc = "returned" =>
    /\ IsStart(state, prefix)
    /\ IsStart(state, Text(size))
    /\ \A i \in Prompts : /\ IsStart(prefix, Text(i))
                          /\ IsStart(state, Text(i))
                          /\ prefix # <<>> => Len(prefix) < Len(Text(i))

\* Neither part is shorter than it need be.  The state is all that every prompt
\* has of the state's own tokens but the last, or nothing when a prompt ends
\* within it; with several prompts that go on after the state, the prefix is all
\* they share: one more token is not common to all, or is the last of a prompt.
PartsAreLongest ==
  pc = "returned" =>
    LET own == WithoutLast(Text(size))
        fits == Cardinality({l \in 1..Len(own) : \A i \in Prompts : IsStart(SubSeq(own, 1, l), Text(i))})
        l == Len(prefix) + 1 IN
      /\ state = IF \A i \in Prompts : Len(Text(i)) > fits THEN SubSeq(own, 1, fits) ELSE <<>>
      /\ n > 1 /\ state # <<>> => \E i \in Prompts : Len(Text(i)) = l \/ Text(i)[l] # Text(1)[l]

\* As long as they can be, with room for every prompt.
PartsFit == EveryPromptGoesOn /\ PartsAreLongest
=============================================================================
