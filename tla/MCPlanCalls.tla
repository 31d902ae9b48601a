----------------------------- MODULE MCPlanCalls -----------------------------
(***************************************************************************)
(* Arguments for TLC.  For the plan: up to three questions, among them the *)
(* same question twice, one that is the start of another, questions of one *)
(* token and questions longer than a call; states of up to four tokens     *)
(* read from the start, from a snapshot and not at all.  For the trees:    *)
(* every list of up to three questions of one to three tokens in one call, *)
(* and two of four questions that branch twice.                            *)
(***************************************************************************)
EXTENDS CallTrees

MCTails == {<<1>>, <<1, 1>>, <<1, 2>>, <<1, 1, 2>>, <<2, 1, 1, 2>>}
Upto(n, S) == UNION {[1..m -> S] : m \in 0..n}
Args(states, pieces, budgets, counts, questions) ==
  {[from |-> s[1], P |-> s[2], tails |-> t, piece_budget |-> p, call_budget |-> b,
    max_count |-> m] :
     s \in states, p \in pieces, b \in budgets, m \in counts, t \in questions}

Planned == Args({<<0, 0>>, <<0, 4>>, <<1, 4>>, <<4, 4>>}, {1, 3, 4}, {3, 5, 6}, {2, 3},
                Upto(3, MCTails))
Short == UNION {[1..n -> {1, 2}] : n \in 1..3}
Branching == {<<<<1, 2, 1, 1>>, <<1, 2, 2>>, <<1, 2, 1, 2, 1>>, <<1, 2, 1, 2, 2>>>>,
              <<<<2, 1, 1>>, <<1, 1, 1>>, <<2, 1, 1>>, <<2, 1, 2, 2>>>>}
InOneCall == Args({<<0, 0>>}, {1}, {20}, {4}, [1..3 -> Short] \union Branching)
MCInputs == Planned \union InOneCall
=============================================================================
