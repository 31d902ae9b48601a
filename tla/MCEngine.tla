------------------------------ MODULE MCEngine ------------------------------
(***************************************************************************)
(* Requests for TLC: two that share a state and differ after it, one whose *)
(* prefix passes its state (its prompts share the start of the question),  *)
(* one whose state is the start of another's, equal questions, a question  *)
(* of one token, and a request without a boundary.                         *)
(***************************************************************************)
EXTENDS Engine

Ask(p, s, ts) == [prefix |-> p, state |-> s, tails |-> ts]

MCRequests == {Ask(<<1, 2, 1>>, 3, <<<<1, 2>>, <<1, 1>>, <<2>>>>),
               Ask(<<1, 2, 1, 1>>, 3, <<<<2, 1>>, <<2, 1>>>>),
               Ask(<<1, 2>>, 2, <<<<2, 1>>>>),
               Ask(<<>>, 0, <<<<1, 2>>, <<2>>>>)}
=============================================================================
