------------------------------ MODULE CallTrees ------------------------------
(***************************************************************************)
(* The calls plan_calls makes (PlanCalls) and the trees run() makes of     *)
(* their questions (PromptTree): the plan counts tokens with added_tokens, *)
(* one question at a time, and never builds the tree; the model reads what *)
(* is in the tree, each answer at the row of a leaf under a mask made of   *)
(* the path above it.                                                      *)
(***************************************************************************)
EXTENDS PlanCalls, PromptTree

\* The questions of the open call, and the tree run() would make of them.
OpenTails == [i \in DOMAIN open.questions |-> tails[open.questions[i]]]
OpenTree == prompt_tree(OpenTails)

\* The tokens from the root of a tree to the end of its node n.
Path(t, n) ==
  LET path[m \in 0..n] ==
        IF m = NO_PARENT THEN <<>>
        ELSE LET node == t.nodes[m]
             IN path[node.parent] \o SubSeq(OpenTails[node.prompt], node.from + 1, node.to)
  IN path[n]

\* Whatever questions a call takes - equal ones, starts of each other, several
\* branchings - each has a leaf of its own, of its last token alone, and the
\* path to it spells exactly the question; a node comes after its parent and
\* continues its positions (run lays the nodes out in this order and gives each
\* token the position it has in its prompt).
TreesSpellQuestions ==
  pc = "fill" =>
    LET t == OpenTree
        leaf(q) == t.nodes[t.leaf[q]] IN
      /\ \A q \in DOMAIN OpenTails :
           /\ t.leaf[q] # 0
           /\ leaf(q).to - leaf(q).from = 1
           /\ Path(t, t.leaf[q]) = OpenTails[q]
           /\ \A p \in DOMAIN OpenTails \ {q} : t.leaf[p] # t.leaf[q]
      /\ \A n \in DOMAIN t.nodes :
           LET node == t.nodes[n] IN
             /\ node.parent < n
             /\ node.from < node.to
             /\ node.from = IF node.parent = NO_PARENT THEN 0 ELSE t.nodes[node.parent].to

\* What plan_calls has counted for a call is what the call reads: the rest of
\* the state and every run the questions share once.
TreesReadWhatWasCounted ==
  pc = "fill" => used = StateTokens(open) + OpenTree.tokens

\* The tree of a call is that of its questions and of the size planned for it.
TreesReadQuestions == TreesSpellQuestions /\ TreesReadWhatWasCounted
=============================================================================
