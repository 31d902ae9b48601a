----------------------------- MODULE PromptTree -----------------------------
(***************************************************************************)
(* prompt_tree (src/src/tree.hpp): the questions of one call as a prefix   *)
(* tree.  The recursive lambda `grow` is unrolled into a list of the       *)
(* children still to add, depth first; a step takes the first of them.     *)
(* Positions count from the end of the shared part (skip), as the tokens   *)
(* in `tails` do.                                                          *)
(***************************************************************************)
EXTENDS PromptTokens

NO_PARENT == 0
Node(parent, prompt, from, to) ==
  [parent |-> parent, prompt |-> prompt, from |-> from, to |-> to]

\* A child of `parent` still to add: members that share their first d tokens
\* and the next one, or a single member of which only the last token is left.
Child(group, leaf, d, parent) == [group |-> group, leaf |-> leaf, d |-> d, parent |-> parent]

\* Groups keep their members in order: the first is the least.
First(group) == CHOOSE m \in group : \A n \in group : m <= n

\* Children in the order of their first members.
InOrder(kids) == CHOOSE s \in [1..Cardinality(kids) -> kids] :
                   \A i, j \in DOMAIN s : i < j => First(s[i].group) < First(s[j].group)

\* everything but the last token is in the tree
AtLeaf(tails, m, d) == Len(tails[m]) - 1 <= d

\* children: one per ended member, one per different next token, in the order
\* of their first members.
Children(tails, members, d, parent) ==
  LET ended == {m \in members : AtLeaf(tails, m, d)}
      Alike(m) == {n \in members \ ended : tails[n][d + 1] = tails[m][d + 1]}
      kids == {Child({m}, TRUE, d, parent) : m \in ended}
              \union {Child(Alike(m), FALSE, d, parent) : m \in members \ ended}
  IN InOrder(kids)

\* Where the run shared by the whole group ends: the group shares token d + 1,
\* and no last token joins a run.
RunEnd(tails, group, d) ==
  CHOOSE e \in (d + 1)..(Len(tails[First(group)]) - 1) :
    /\ \A m \in group : Len(tails[m]) - 1 >= e
    /\ \A m \in group : \A i \in (d + 1)..e : tails[m][i] = tails[First(group)][i]
    /\ \E m \in group : \/ Len(tails[m]) - 1 = e
                        \/ tails[m][e + 1] # tails[First(group)][e + 1]

\* A tree being grown: what prompt_tree returns, and the children to add.
Seed(tails) == [nodes |-> <<>>, leaf |-> [q \in DOMAIN tails |-> 0], tokens |-> 0,
                todo |-> Children(tails, DOMAIN tails, 0, NO_PARENT)]

\* add: a node more, counted with its tokens
Plus(t, node, leaf, todo) ==
  [nodes |-> Append(t.nodes, node), leaf |-> leaf,
   tokens |-> t.tokens + node.to - node.from, todo |-> todo]

GrowLeaf(tails, t) ==
  LET c == Head(t.todo)
      q == First(c.group)
  IN Plus(t, Node(c.parent, q, Len(tails[q]) - 1, Len(tails[q])),
          [t.leaf EXCEPT ![q] = Len(t.nodes) + 1], Tail(t.todo))

GrowRunUnderGrandparent(tails, t) ==
  LET c == Head(t.todo)
      e == RunEnd(tails, c.group, c.d)
  IN Plus(t, Node(c.parent, First(c.group), c.d, e), t.leaf,
          Children(tails, c.group, e, c.parent) \o Tail(t.todo))
GrowRun(tails, t) ==
  LET c == Head(t.todo)
      e == RunEnd(tails, c.group, c.d)
  IN Plus(t, Node(c.parent, First(c.group), c.d, e), t.leaf,
          Children(tails, c.group, e, Len(t.nodes) + 1) \o Tail(t.todo))

Grow(tails, t) == IF t.todo = <<>> THEN t
                  ELSE IF Head(t.todo).leaf THEN GrowLeaf(tails, t) ELSE GrowRun(tails, t)

\* The whole tree, for modules that need it in one step: it never has more
\* nodes than tokens.
prompt_tree(tails) ==
  LET grown[n \in Nat] == IF n = 0 THEN Seed(tails) ELSE Grow(tails, grown[n - 1])
  IN grown[TreeTokens(tails, DOMAIN tails)]
=============================================================================
