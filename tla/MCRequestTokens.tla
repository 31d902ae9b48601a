--------------------------- MODULE MCRequestTokens ---------------------------
(***************************************************************************)
(* Texts for TLC.  Without a pool: every list of up to three prompts of    *)
(* some that share more or less of a state, go on after it in common, end  *)
(* within it, or have nothing of it; and a text that fails.  With a pool:  *)
(* three texts for two threads, any of them failing.                       *)
(***************************************************************************)
EXTENDS RequestTokens

StateTexts == {<<>>, <<1>>, <<1, 2>>, <<1, 2, 3>>, <<1, 1, 2, 2>>}
PromptTexts == {<<>>, <<1>>, <<2, 1>>, <<1, 2, 1>>, <<1, 2, 1, 2>>, <<1, 2, 3, 1>>, <<1, 2, 1, 1, 2>>, <<1, 1, 2, 1>>}
Args(prompts, states, fails, pool) ==
  {[texts |-> Append(p, s), fails |-> f, pool |-> pool] : p \in prompts, s \in states, f \in fails}

OnOneThread == Args(UNION {[1..m -> PromptTexts] : m \in 0..3}, StateTexts, {{}}, FALSE)
               \union Args({<<<<1, 2, 1>>, <<1, 2, 2>>>>}, {<<1, 2>>}, {{1}, {2}, {3}}, FALSE)
InAPool == Args({<<<<1, 2, 1>>, <<1, 2, 2>>>>, <<<<1, 2, 1>>, <<1, 2, 2>>, <<1, 2, 1, 1>>>>}, {<<1, 2>>},
                SUBSET (1..3), TRUE)
MCInputs == OnOneThread \union InAPool
=============================================================================
