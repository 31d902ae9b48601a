---------------------------- MODULE PromptTokens ----------------------------
(***************************************************************************)
(* What the questions of one model call have in common.  A question is the *)
(* tokens its prompt has after the part the prompts of a call share; its   *)
(* last token is never shared, because its answer is read there.           *)
(***************************************************************************)
EXTENDS Integers, Sequences, FiniteSets

\* The starts of t that a tree can share: all but the whole.
Starts(t) == {SubSeq(t, 1, n) : n \in 1..(Len(t) - 1)}

\* The reference for what a prefix tree reads: each start that occurs once,
\* and a last token per question.
TreeTokens(tails, members) ==
  Cardinality(UNION {Starts(tails[m]) : m \in members}) + Cardinality(members)

\* Two questions that have their first n tokens in common, last tokens apart.
SharesStart(a, b, n) == /\ n < Len(a)
                        /\ n < Len(b)
                        /\ \A i \in 1..n : a[i] = b[i]

\* added_tokens: the tokens of p beyond the longest start it shares with a member.
\* (The lengths shared are 1..longest, so their number is the longest.)
added_tokens(tails, members, p) ==
  Len(tails[p]) - Cardinality({n \in 1..Len(tails[p]) :
                                 \E m \in members : SharesStart(tails[p], tails[m], n)})
=============================================================================
