------------------------------- MODULE Engine -------------------------------
(***************************************************************************)
(* How the model reads requests (score_one, score_batch and run of         *)
(* src/src/model.cpp).  The network itself is abstract: what it computes   *)
(* for a token depends on the token, on its position and on the cells the  *)
(* attention mask lets it see, so a cell (its keys and values) stands for  *)
(* the tokens it was computed from, in order: its history.  A cell that    *)
(* was computed from anything but one such history, at its own position,   *)
(* is Garbage.  An answer is the history of the row it is read at.         *)
(*                                                                         *)
(* How a request is cut into calls is PlanCalls' subject, when a snapshot  *)
(* goes is Snapshots': here any plan that reads the state in order and     *)
(* takes each question once is followed, and any entry may go when a new   *)
(* one comes.                                                              *)
(***************************************************************************)
EXTENDS PromptTree, SequencesExt, Sums

CONSTANTS Requests,     \* [prefix, state, tails]: the tokens the prompts share,
                        \* how many are the state, and what follows per prompt
          MaxBatch,     \* bound: requests read together
          MIN_TOKENS

ASSUME RequestsAssumption ==
  \A r \in Requests :
    /\ r.prefix \in Seq(Nat \ {0})
    /\ r.state \in 0..Len(r.prefix)
    /\ r.tails \in Seq(Seq(Nat \ {0}))
    /\ r.tails # <<>>
    /\ \A j \in DOMAIN r.tails : r.tails[j] # <<>>
ASSUME LimitsAssumption == MaxBatch \in Nat \ {0} /\ MIN_TOKENS \in Nat \ {0}

Garbage == <<0>>
Boundary(r) == r.prefix # <<>>
\* ScoreRequest::tokens, with which the scheduler fills a batch
Size(r) == Len(r.prefix) + Len(FlattenSeq(r.tails))
Prompt(r, j) == r.prefix \o r.tails[j]
State(r) == SubSeq(r.prefix, 1, r.state)

VARIABLES snapshots,  \* entries: [tokens, cells]
          pc,         \* "idle", or "calls" inside score_one
          batch,      \* the requests being read
          out,        \* their answers: per request, per question (<<>>: none yet)
          from,       \* score_one: whether it started from an entry's cells only
          cells,      \* score_one: the cells of the state read so far (cur)
          pos,        \* score_one: how much of the state has been read
          k,          \* score_one: the next question
          length      \* T: the tokens of the batch's last call, 0 before it
vars == <<snapshots, pc, batch, out, from, cells, pos, k, length>>

-----------------------------------------------------------------------------
(* One model call *)

\* A block: `past_n` cells of `past`, then `shared`, then the questions.
Block(past, past_n, shared, shared_pos, tails, skip) ==
  [past |-> past, past_n |-> past_n, shared |-> shared, shared_pos |-> shared_pos,
   tails |-> tails, skip |-> skip]
alone(tokens) == Block(<<>>, 0, tokens, 0, <<>>, 0)

state_block(past, prefix, at, end, tails) ==
  Block(past, at, SubSeq(prefix, at + 1, end), at, tails, Len(prefix))

NodeLen(node) == node.to - node.from
\* How many rows of the call come before node n of a tree that starts after `row`.
NodeRow(tree, row, n) ==
  row + SumTo([m \in DOMAIN tree.nodes |-> NodeLen(tree.nodes[m])], n - 1)
\* Node n and the nodes above it.
Chain(tree, n) ==
  LET up[m \in 0..n] ==
        IF m = NO_PARENT THEN {} ELSE {m} \union up[tree.nodes[m].parent]
  IN up[n]

PastColumnsOfTheFirst(c0, n) == 1..n
\* The columns of a block's cached cells, after those of the blocks before it.
PastColumns(c0, n) == (c0 + 1)..(c0 + n)
\* The columns of `n` rows, the first of which is row r + 1, after C cached cells.
RowColumns(C, r, n) == (C + r + 1)..(C + r + n)

\* A row of the call: its token, its position and the columns the mask opens.
Row(token, position, looks) == [token |-> token, position |-> position, looks |-> looks]

\* Row j of a block's shared tokens, of which `row` rows of the call come before.
SharedRow(b, row, c0, C, j) ==
  Row(b.shared[j], b.shared_pos + j, PastColumns(c0, b.past_n) \union RowColumns(C, row, j))

\* Row j of node n of its tree.
NodesRow(b, tree, row, c0, C, n, j) ==
  LET node == tree.nodes[n]
      S == Len(b.shared)
      above == UNION {RowColumns(C, NodeRow(tree, row + S, a), NodeLen(tree.nodes[a])) :
                        a \in Chain(tree, node.parent)}
  IN Row(b.tails[node.prompt][node.from + j], b.skip + node.from + j,
         PastColumns(c0, b.past_n) \union RowColumns(C, row, S) \union above
           \union RowColumns(C, NodeRow(tree, row + S, n), j))

Rows(b, tree, row, c0, C) ==
  [j \in 1..Len(b.shared) |-> SharedRow(b, row, c0, C, j)]
    \o FlattenSeq([n \in DOMAIN tree.nodes |->
         [j \in 1..NodeLen(tree.nodes[n]) |-> NodesRow(b, tree, row, c0, C, n, j)]])

\* What the network computes for a row from the columns before it.
Read(row, before) ==
  LET seen == {before[c] : c \in row.looks \ {Len(before) + 1}}
      n == Cardinality(row.looks) - 1
      history == {h \in seen \union {<<>>} :
                    /\ Len(h) = n
                    /\ seen = {SubSeq(h, 1, i) : i \in 1..n}}
  IN IF row.position = n + 1 /\ history # {}
     THEN Append(CHOOSE h \in history : TRUE, row.token)
     ELSE Garbage
ReadRows(cached, rows) ==
  LET upto[i \in 0..Len(rows)] ==
        IF i = 0 THEN <<>>
        ELSE LET vals == upto[i - 1] IN Append(vals, Read(rows[i], cached \o vals))
  IN upto[Len(rows)]

\* One infer() over the blocks: the new cells, where each block's begin, and
\* the answers in block order, one per block without questions.
run(blocks) ==
  LET B == DOMAIN blocks
      tree == [b \in B |-> prompt_tree(blocks[b].tails)]
      rowsOf == [b \in B |-> Len(blocks[b].shared) + tree[b].tokens]
      past == [b \in B |-> blocks[b].past_n]
      C == SumTo(past, Len(blocks))
      row == [b \in B |-> SumTo(rowsOf, b - 1)]
      cached == FlattenSeq([b \in B |-> SubSeq(blocks[b].past, 1, past[b])])
      rows == FlattenSeq([b \in B |->
                Rows(blocks[b], tree[b], row[b], SumTo(past, b - 1), C)])
      S(b) == Len(blocks[b].shared)
      Index(b) == IF blocks[b].tails = <<>> THEN <<row[b] + S(b)>>
                  ELSE [q \in DOMAIN blocks[b].tails |->
                          NodeRow(tree[b], row[b] + S(b), tree[b].leaf[q]) + 1]
      new == ReadRows(cached, rows)
      at == FlattenSeq([b \in B |-> Index(b)])
  IN [new |-> new, row |-> row, ps |-> [i \in DOMAIN at |-> new[at[i]]]]

\* Block b's cells after a call: those it started from, then its shared tokens'.
extend(b, row, new) ==
  SubSeq(b.past, 1, b.past_n) \o SubSeq(new, row + 1, row + Len(b.shared))

FirstAll(cs, n) == cs
first(cs, n) == IF n >= Len(cs) THEN cs ELSE SubSeq(cs, 1, n)

-----------------------------------------------------------------------------
(* The snapshots: what find and add promise *)

Common(a, b) ==
  Cardinality({n \in DOMAIN a \intersect DOMAIN b : \A i \in 1..n : a[i] = b[i]})

NoEntry == [tokens |-> <<>>, cells |-> <<>>]
\* The entries find may return for a prefix; NoEntry for none.
Find(prefix) ==
  LET near == {e \in snapshots : Common(e.tokens, prefix) >= MIN_TOKENS}
  IN IF near = {} THEN {NoEntry}
     ELSE {e \in near : \A f \in near : Common(f.tokens, prefix) <= Common(e.tokens, prefix)}

Kept == {e.tokens : e \in snapshots}
Wants(state) == state \notin Kept /\ Len(state) >= MIN_TOKENS

\* wants may refuse a state for its size, and each add may evict.
AddAll(new) == IF new = {} THEN UNCHANGED snapshots
               ELSE snapshots' \in SUBSET (snapshots \union new)

-----------------------------------------------------------------------------
(* Several requests in one call *)

BlockPerQuestion(r, e) ==
  IF Boundary(r)
  THEN LET c == Common(e.tokens, r.prefix)
       IN [j \in DOMAIN r.tails |-> state_block(e.cells, r.prefix, c, Len(r.prefix), <<r.tails[j]>>)]
  ELSE [j \in DOMAIN r.tails |-> alone(r.tails[j])]
RequestBlocks(r, e) ==
  IF Boundary(r)
  THEN LET c == Common(e.tokens, r.prefix)
       IN <<state_block(e.cells, r.prefix, c, Len(r.prefix), r.tails)>>
  ELSE [j \in DOMAIN r.tails |-> alone(r.tails[j])]

AnswersOf(b) == IF b.tails = <<>> THEN 1 ELSE Len(b.tails)

BatchRun(rs, found) ==
  LET per == [i \in DOMAIN rs |-> RequestBlocks(rs[i], found[i])]
      blocks == FlattenSeq(per)
      firstBlock == [i \in DOMAIN rs |-> SumTo([j \in DOMAIN per |-> Len(per[j])], i - 1) + 1]
      counts == [i \in DOMAIN rs |-> SumTo([b \in DOMAIN per[i] |-> AnswersOf(per[i][b])], Len(per[i]))]
      call == run(blocks)
      States == {i \in DOMAIN rs : Boundary(rs[i]) /\ Wants(State(rs[i]))}
      Fresh == {i \in States : \A j \in 1..(i - 1) \intersect States : State(rs[j]) # State(rs[i])}
      Cells(i) == first(extend(per[i][1], call.row[firstBlock[i]], call.new), rs[i].state)
  IN [length |-> Len(call.new),
      out |-> [i \in DOMAIN rs |-> SubSeq(call.ps, SumTo(counts, i - 1) + 1, SumTo(counts, i))],
      fresh |-> {[tokens |-> State(rs[i]), cells |-> Cells(i)] : i \in Fresh}]

ScoreBatch == /\ pc = "idle"
              /\ \E n \in 2..MaxBatch : \E rs \in [1..n -> Requests] :
                   \E found \in [1..n -> snapshots \union {NoEntry}] :
                     /\ \A i \in 1..n : found[i] \in IF Boundary(rs[i]) THEN Find(rs[i].prefix)
                                                     ELSE {NoEntry}
                     /\ batch' = rs
                     /\ LET done == BatchRun(rs, found)
                        IN /\ out' = done.out
                           /\ length' = done.length
                           /\ AddAll(done.fresh)
              /\ UNCHANGED <<pc, from, cells, pos, k>>

-----------------------------------------------------------------------------
(* One request, in calls of its own *)

\* No boundary known: every prompt in a call of its own.
ScoreAlone == /\ pc = "idle"
              /\ \E r \in {q \in Requests : ~Boundary(q)} :
                   /\ batch' = <<r>>
                   /\ out' = <<[j \in DOMAIN r.tails |-> run(<<alone(r.tails[j])>>).ps[1]]>>
                   /\ length' = Len(r.tails[Len(r.tails)])
              /\ UNCHANGED <<snapshots, pc, from, cells, pos, k>>

BeginOne == /\ pc = "idle"
            /\ \E r \in {q \in Requests : Boundary(q)} : \E e \in Find(r.prefix) :
                 /\ batch' = <<r>>
                 /\ out' = <<[j \in DOMAIN r.tails |-> <<>>]>>
                 /\ cells' = e.cells
                 /\ pos' = Common(e.tokens, r.prefix)
            /\ from' = TRUE
            /\ k' = 1
            /\ length' = 0
            /\ pc' = "calls"
            /\ UNCHANGED snapshots

One == batch[1]
P == Len(One.prefix)

\* A call that reads the state up to `end` and the next n questions.
Call(end, n) ==
  LET b == state_block(cells, One.prefix, pos, end,
                       [i \in 1..n |-> One.tails[k + i - 1]])
      call == run(<<b>>)
  IN /\ out' = [out EXCEPT ![1] = [j \in DOMAIN @ |-> IF j \in k..(k + n - 1)
                                                        THEN call.ps[j - k + 1] ELSE @[j]]]
     /\ pos' = end
     /\ k' = k + n
     /\ cells' = IF end > pos THEN extend(b, 0, call.new) ELSE cells
     /\ from' = (from /\ end = pos)
     /\ length' = Len(call.new)

\* The calls of a plan (PlanCalls): pieces of the state, then the questions,
\* the first of these calls with what is left of the state.
ReadPiece == /\ pc = "calls" /\ k = 1
             /\ \E end \in (pos + 1)..P : Call(end, 0)
             /\ UNCHANGED <<snapshots, pc, batch>>
ReadQuestions == /\ pc = "calls"
                 /\ \E n \in 1..(Len(One.tails) - k + 1) : Call(P, n)
                 /\ UNCHANGED <<snapshots, pc, batch>>

KeepState ==
  IF ~from /\ Wants(State(One))
  THEN AddAll({[tokens |-> State(One), cells |-> first(cells, One.state)]})
  ELSE UNCHANGED snapshots
EndOne == /\ pc = "calls" /\ k > Len(One.tails)
          /\ KeepState
          /\ pc' = "idle"
          /\ UNCHANGED <<batch, out, from, cells, pos, k, length>>

Init == /\ snapshots = {}
        /\ pc = "idle"
        /\ batch = <<>>
        /\ out = <<>>
        /\ from = TRUE
        /\ cells = <<>>
        /\ pos = 0
        /\ k = 1
        /\ length = 0

Next == ScoreBatch \/ ScoreAlone \/ BeginOne \/ ReadPiece \/ ReadQuestions \/ EndOne

Spec == Init /\ [][Next]_vars

-----------------------------------------------------------------------------
(* Properties *)

\* A request's answers are those of its own prompts, in their order: each was
\* read at a row whose history is the whole prompt and nothing else, whichever
\* snapshot it started from, however it was cut into calls and whoever shared
\* the call.
AnswersAreTheirOwn ==
  pc = "idle" => \A i \in DOMAIN batch :
                   out[i] = [j \in DOMAIN batch[i].tails |-> Prompt(batch[i], j)]

\* A snapshot holds the cells of its own state: as many as it has tokens, each
\* computed from the tokens up to it (a later request resumes from any of them,
\* not only from the last).
SnapshotsAreFaithful ==
  \A e \in snapshots : e.cells = [i \in DOMAIN e.tokens |-> SubSeq(e.tokens, 1, i)]

\* A call reads no more tokens than the scheduler counted for the requests in
\* it (tokens(), each state once): what keeps a batch within a model call.
ReadsWithinSize ==
  length <= SumTo([i \in DOMAIN batch |-> Size(batch[i])], Len(batch))
=============================================================================
