----------------------------- MODULE EngineProofs -----------------------------
(***************************************************************************)
(* Proofs about the engine, for any requests, snapshots, plans of calls    *)
(* and batches: the answers of Model::Impl are computed from their own     *)
(* prompts, whatever else is in the call and whatever was cached before.   *)
(*                                                                         *)
(* The argument follows `run`.  Each row of a call has a history, the      *)
(* tokens up to it: of its block's sequence, then of its question's path   *)
(* in the prompt tree (Histories).  The columns its mask shows are those   *)
(* of the block's cached cells and of earlier rows of the block, and their *)
(* histories are the starts of its own, each once (BlockSees); so if the   *)
(* cached cells hold their histories, every row computes its own           *)
(* (CallReads, by the least row that would not), the rows that answers     *)
(* are taken from compute the whole prompts (RunIs), and the cells a call  *)
(* leaves hold their histories again (ExtendIs).  IInv carries that        *)
(* through the calls of score_one and from one request to the next; for    *)
(* batches, what was laid end to end is cut at the same places (AnswersCut)*)
(***************************************************************************)
EXTENDS Engine, TreeProofs, FunctionTheorems

-----------------------------------------------------------------------------
(* The nodes of a tree, and those above them *)

\* What NodesInv says of one node.
LEMMA NodeIs ==
  ASSUME NEW tails, NEW nodes \in Seq(NodeSet(tails)), NodesInv(tails, nodes), NEW m \in 1..Len(nodes)
  PROVE  /\ nodes[m].parent \in 0..(m - 1)
         /\ nodes[m].from \in Nat /\ nodes[m].to \in Nat /\ nodes[m].from < nodes[m].to
         /\ nodes[m].to <= Len(tails[nodes[m].prompt])
         /\ nodes[m].prompt \in DOMAIN tails
         /\ Reaches(tails, nodes, nodes[m].parent, nodes[m].prompt, nodes[m].from)
<1>1. m \in DOMAIN nodes /\ nodes[m] \in NodeSet(tails) /\ m \in Nat
  OBVIOUS
<1>2. nodes[m].parent \in Nat /\ nodes[m].from \in Nat /\ nodes[m].to \in Nat /\ nodes[m].prompt \in DOMAIN tails
  BY <1>1 DEF NodeSet
<1>3. /\ nodes[m].parent < m
      /\ nodes[m].from < nodes[m].to
      /\ nodes[m].to <= Len(tails[nodes[m].prompt])
      /\ Reaches(tails, nodes, nodes[m].parent, nodes[m].prompt, nodes[m].from)
  BY <1>1 DEF NodesInv
<1>4. nodes[m].parent \in 0..(m - 1)
  BY <1>1, <1>2, <1>3
<1> QED BY <1>2, <1>3, <1>4

\* Function c follows the parents of nodes 1 to n.
Links(nodes, c, n) == \A m \in 0..n : c[m] = IF m = 0 THEN {} ELSE {m} \union c[nodes[m].parent]

\* Chain follows the parents.
LEMMA ChainIs ==
  ASSUME NEW tails, NEW t, t.nodes \in Seq(NodeSet(tails)), NodesInv(tails, t.nodes)
  PROVE  /\ Chain(t, 0) = {}
         /\ \A n \in 1..Len(t.nodes) : Chain(t, n) = {n} \union Chain(t, t.nodes[n].parent)
<1> DEFINE nodes == t.nodes
           N == Len(nodes)
<1>1. N \in Nat
  OBVIOUS
<1>2. \A m \in 1..N : nodes[m].parent \in 0..(m - 1)
  BY NodeIs
<1> HIDE DEF nodes, N
<1>3. PICK c : Links(nodes, c, N)
  <2> DEFINE T == {n \in Nat : n <= N => \E c : Links(nodes, c, n)}
  <2>1. 0 \in T
    <3>1. Links(nodes, [m \in 0..0 |-> {}], 0)
      BY DEF Links
    <3> QED BY <3>1
  <2>2. ASSUME NEW n \in Nat, n \in T PROVE n + 1 \in T
    <3> SUFFICES ASSUME n + 1 <= N PROVE \E c : Links(nodes, c, n + 1)
      OBVIOUS
    <3>1. PICK b : Links(nodes, b, n)
      <4>1. n <= N
        BY <1>1
      <4> QED BY <2>2, <4>1
    <3> DEFINE v == {n + 1} \union b[nodes[n + 1].parent]
               c == [m \in 0..(n + 1) |-> IF m = n + 1 THEN v ELSE b[m]]
    <3>2. c[n + 1] = v /\ \A m \in 0..n : c[m] = b[m]
      OBVIOUS
    <3>3. nodes[n + 1].parent \in 0..n
      <4>1. n + 1 \in 1..N /\ (n + 1) - 1 = n
        BY <1>1
      <4> QED BY <1>2, <4>1
    <3> HIDE DEF c
    <3>4. ASSUME NEW m \in 0..(n + 1)
          PROVE  c[m] = IF m = 0 THEN {} ELSE {m} \union c[nodes[m].parent]
      <4>1. CASE m = n + 1
        <5>1. c[m] = {n + 1} \union c[nodes[n + 1].parent] /\ m # 0
          BY <3>2, <3>3, <4>1
        <5> QED BY <4>1, <5>1
      <4>2. CASE m \in 1..n
        <5>1. nodes[m].parent \in 0..n /\ m # 0 /\ m \in 0..n
          <6>1. m \in 1..N
            BY <1>1, <4>2
          <6>2. nodes[m].parent \in 0..(m - 1)
            BY <1>2, <6>1
          <6> QED BY <4>2, <6>2
        <5>2. c[m] = b[m] /\ c[nodes[m].parent] = b[nodes[m].parent]
          BY <3>2, <5>1
        <5>3. b[m] = {m} \union b[nodes[m].parent]
          BY <3>1, <5>1 DEF Links
        <5> QED BY <5>1, <5>2, <5>3
      <4>3. CASE m = 0
        <5>1. 0 \in 0..n
          OBVIOUS
        <5>2. c[0] = b[0] /\ b[0] = {}
          BY <3>1, <3>2, <5>1 DEF Links
        <5> QED BY <4>3, <5>2
      <4> QED BY <4>1, <4>2, <4>3
    <3>5. Links(nodes, c, n + 1)
      BY <3>4 DEF Links
    <3> QED BY <3>5
  <2>3. \A n \in Nat : n \in T
    <3> HIDE DEF T
    <3> QED BY <2>1, <2>2, Induct
  <2>4. N \in T /\ N <= N
    BY <1>1, <2>3
  <2> QED BY <2>4
<1>4. \A m \in 0..N : c[m] = IF m = 0 THEN {} ELSE {m} \union c[nodes[m].parent]
  BY <1>3 DEF Links
<1>5. ASSUME NEW n \in 0..N PROVE Chain(t, n) = c[n]
  <2> DEFINE Is(g) == g = [m \in 0..n |-> IF m = 0 THEN {} ELSE {m} \union g[nodes[m].parent]]
  <2>1. \E g : Is(g)
    <3> DEFINE h == [m \in 0..n |-> c[m]]
    <3>1. ASSUME NEW m \in 0..n
          PROVE  h[m] = IF m = 0 THEN {} ELSE {m} \union h[nodes[m].parent]
      <4>0. m \in 0..N /\ h[m] = c[m]
        BY <1>1
      <4>1. CASE m = 0
        BY <1>4, <4>0, <4>1
      <4>2. CASE m # 0
        <5>1. m \in 1..N
          BY <1>1, <4>2
        <5>2. nodes[m].parent \in 0..(m - 1)
          BY <1>2, <5>1
        <5>3. nodes[m].parent \in 0..n
          BY <1>1, <5>2
        <5>4. h[nodes[m].parent] = c[nodes[m].parent]
          BY <5>3
        <5> HIDE DEF h
        <5> QED BY <1>4, <4>0, <4>2, <5>4
      <4> QED BY <4>1, <4>2
    <3>2. h = [m \in 0..n |-> h[m]]
      OBVIOUS
    <3> HIDE DEF h
    <3>3. Is(h)
      BY <3>1, <3>2
    <3> QED BY <3>3
  <2>2. PICK g : Is(g) /\ Chain(t, n) = g[n]
    <3>1. Chain(t, n) = (CHOOSE g : Is(g))[n]
      BY DEF Chain, nodes, NO_PARENT
    <3> HIDE DEF Is
    <3> QED BY <2>1, <3>1
  <2>3. \A m \in 0..n : g[m] = IF m = 0 THEN {} ELSE {m} \union g[nodes[m].parent]
    BY <2>2
  <2> HIDE DEF Is
  <2> DEFINE T == {m \in 0..n : g[m] # c[m]}
  <2>4. T = {}
    <3> SUFFICES ASSUME T # {} PROVE FALSE
      OBVIOUS
    <3>1. PICK m \in T : \A l \in T : ~(l < m)
      <4>1. T \in SUBSET Nat
        OBVIOUS
      <4> HIDE DEF T
      <4> QED BY <4>1, Least
    <3>2. m \in 0..n /\ m \in 0..N /\ g[m] # c[m]
      BY <1>1, <3>1
    <3>3. m # 0
      BY <1>4, <2>3, <3>2
    <3>4. m \in 1..N
      BY <3>2, <3>3
    <3>5. nodes[m].parent \in 0..n /\ nodes[m].parent < m
      <4>1. nodes[m].parent \in 0..(m - 1)
        BY <1>2, <3>4
      <4> QED BY <3>2, <4>1
    <3>6. g[nodes[m].parent] = c[nodes[m].parent]
      BY <3>1, <3>5
    <3> QED BY <1>4, <2>3, <3>2, <3>3, <3>6
  <2>5. n \in 0..n
    BY <1>1
  <2> QED BY <2>2, <2>4, <2>5
<1>6. Chain(t, 0) = {}
  <2>1. 0 \in 0..N
    BY <1>1
  <2> QED BY <1>4, <1>5, <2>1
<1>7. ASSUME NEW n \in 1..N PROVE Chain(t, n) = {n} \union Chain(t, nodes[n].parent)
  <2>1. n \in 0..N /\ n # 0 /\ nodes[n].parent \in 0..N
    BY <1>1, <1>2
  <2> QED BY <1>4, <1>5, <2>1
<1> QED BY <1>6, <1>7 DEF N, nodes

\* Node a reads token x of its question.
Covers(t, a, x) == t.nodes[a].from < x /\ x <= t.nodes[a].to

\* The nodes from p up read the first d tokens of question q, each once.
Above(tails, t, p, q, d) ==
  /\ \A a \in Chain(t, p) : /\ a \in 1..p
                            /\ t.nodes[a].to <= d
                            /\ \A i \in 1..t.nodes[a].to : tails[t.nodes[a].prompt][i] = tails[q][i]
  /\ \A x \in 1..d : \E a \in Chain(t, p) : Covers(t, a, x)
  /\ \A a, b \in Chain(t, p) : \A x \in 1..d : Covers(t, a, x) /\ Covers(t, b, x) => a = b

\* Node m, which is v, reads its question from where the nodes above it stop.
ReadsOn(tails, t, m, v) ==
  /\ Above(tails, t, m, v.prompt, v.to)
  /\ \A a \in Chain(t, v.parent) : a \in 1..Len(t.nodes) /\ a < m /\ t.nodes[a].to <= v.from
  /\ Chain(t, m) = {m} \union Chain(t, v.parent)

\* One node further down.
LEMMA AboveNode ==
  ASSUME NEW tails, NEW t, t.nodes \in Seq(NodeSet(tails)), NodesInv(tails, t.nodes),
         NEW m \in 1..Len(t.nodes), NEW v, v = t.nodes[m],
         Above(tails, t, v.parent, v.prompt, v.from)
  PROVE  ReadsOn(tails, t, m, v)
<1> DEFINE nodes == t.nodes
           N == Len(nodes)
           o == v.parent
<1>1. N \in Nat
  OBVIOUS
<1>2. /\ o \in 0..(m - 1)
      /\ v.from \in Nat /\ v.to \in Nat /\ v.from < v.to
  BY NodeIs
<1>3. Chain(t, m) = {m} \union Chain(t, o)
  BY ChainIs
<1>4. ASSUME NEW a \in Chain(t, o)
      PROVE  /\ a \in 1..o /\ a \in 1..N /\ a < m /\ nodes[a].to <= v.from
             /\ \A i \in 1..nodes[a].to : tails[nodes[a].prompt][i] = tails[v.prompt][i]
             /\ nodes[a].to \in Nat
  <2>1. /\ a \in 1..o /\ nodes[a].to <= v.from
        /\ \A i \in 1..nodes[a].to : tails[nodes[a].prompt][i] = tails[v.prompt][i]
    BY DEF Above
  <2>2. a \in 1..N /\ a < m
    BY <1>1, <1>2, <2>1
  <2>3. nodes[a].to \in Nat
    BY <2>2, NodeIs
  <2> QED BY <2>1, <2>2, <2>3
<1>5. ASSUME NEW a \in Chain(t, m)
      PROVE  /\ a \in 1..m /\ nodes[a].to <= v.to
             /\ \A i \in 1..nodes[a].to : tails[nodes[a].prompt][i] = tails[v.prompt][i]
  <2>1. CASE a = m
    BY <1>2, <2>1
  <2>2. CASE a \in Chain(t, o)
    <3>1. /\ a \in 1..o /\ nodes[a].to <= v.from /\ nodes[a].to \in Nat
          /\ \A i \in 1..nodes[a].to : tails[nodes[a].prompt][i] = tails[v.prompt][i]
      BY <1>4, <2>2
    <3>2. a \in 1..m /\ nodes[a].to <= v.to
      BY <1>2, <3>1
    <3> QED BY <3>1, <3>2
  <2> QED BY <1>3, <2>1, <2>2
<1>6. ASSUME NEW i \in 1..v.to PROVE \E a \in Chain(t, m) : Covers(t, a, i)
  <2>1. CASE i > v.from
    <3>1. Covers(t, m, i)
      BY <2>1 DEF Covers
    <3> QED BY <1>3, <3>1
  <2>2. CASE ~(i > v.from)
    <3>1. i \in 1..v.from
      BY <1>2, <2>2
    <3> QED BY <1>3, <3>1 DEF Above
  <2> QED BY <2>1, <2>2
<1>7. ASSUME NEW a \in Chain(t, m), NEW b \in Chain(t, m), NEW i \in 1..v.to,
             Covers(t, a, i), Covers(t, b, i)
      PROVE  a = b
  <2>1. ASSUME NEW e \in Chain(t, o), Covers(t, e, i) PROVE i \in 1..v.from
    <3>1. nodes[e].to <= v.from /\ nodes[e].to \in Nat
      BY <1>4
    <3> QED BY <1>2, <2>1, <3>1 DEF Covers
  <2>2. i \in 1..v.from => ~Covers(t, m, i)
    BY <1>2 DEF Covers
  <2>3. CASE a = m /\ b = m
    BY <2>3
  <2>4. CASE a \in Chain(t, o) /\ b \in Chain(t, o)
    <3>1. i \in 1..v.from
      BY <1>7, <2>1, <2>4
    <3> QED BY <1>7, <2>4, <3>1 DEF Above
  <2> QED BY <1>3, <1>7, <2>1, <2>2, <2>3, <2>4
<1>8. Above(tails, t, m, v.prompt, v.to)
  BY <1>5, <1>6, <1>7 DEF Above
<1> QED BY <1>3, <1>4, <1>8 DEF ReadsOn

\* The nodes above a node read what its question has before it.
LEMMA AboveIs ==
  ASSUME NEW tails, NEW t, t.nodes \in Seq(NodeSet(tails)), NodesInv(tails, t.nodes),
         NEW p \in 0..Len(t.nodes), NEW q, NEW d \in Nat, Reaches(tails, t.nodes, p, q, d)
  PROVE  Above(tails, t, p, q, d)
<1> DEFINE nodes == t.nodes
           N == Len(nodes)
           T == {m \in 0..N : \E x, y : y \in Nat /\ Reaches(tails, nodes, m, x, y) /\ ~Above(tails, t, m, x, y)}
<1>1. N \in Nat
  OBVIOUS
<1> SUFFICES ASSUME T # {} PROVE FALSE
  OBVIOUS
<1>2. PICK m \in T : \A l \in T : ~(l < m)
  <2>1. T \in SUBSET Nat
    BY <1>1
  <2> HIDE DEF T
  <2> QED BY <2>1, Least
<1>3. m \in 0..N
  BY <1>2
<1>4. PICK x, y : y \in Nat /\ Reaches(tails, nodes, m, x, y) /\ ~Above(tails, t, m, x, y)
  BY <1>2
<1>5. CASE m = 0
  <2>1. Chain(t, m) = {}
    BY <1>5, ChainIs
  <2>2. y = 0
    BY <1>4, <1>5 DEF Reaches, NO_PARENT
  <2>3. Above(tails, t, m, x, y)
    BY <2>1, <2>2 DEF Above
  <2> QED BY <1>4, <2>3
<1>6. CASE m # 0
  <2> DEFINE v == nodes[m]
             o == v.parent
  <2>1. m \in 1..N
    BY <1>1, <1>3, <1>6
  <2>2. /\ o \in 0..(m - 1) /\ v.from \in Nat
        /\ Reaches(tails, nodes, o, v.prompt, v.from)
    BY <2>1, NodeIs
  <2>3. o \notin T
    <3>1. o \in 0..N /\ o < m
      BY <1>1, <2>1, <2>2
    <3> HIDE DEF T, o
    <3> QED BY <1>2, <3>1
  <2>4. o \in 0..N
    BY <1>1, <2>1, <2>2
  <2>5. Above(tails, t, o, v.prompt, v.from)
    BY <2>2, <2>3, <2>4
  <2> HIDE DEF T
  <2>6. v.to = y /\ \A i \in 1..y : tails[v.prompt][i] = tails[x][i]
    BY <1>4, <1>6 DEF Reaches, NO_PARENT
  <2>7. Above(tails, t, m, v.prompt, v.to) /\ Chain(t, m) = {m} \union Chain(t, o)
    BY <2>1, <2>5, AboveNode DEF ReadsOn
  <2>8. ASSUME NEW a \in Chain(t, m)
        PROVE  \A i \in 1..nodes[a].to : tails[nodes[a].prompt][i] = tails[x][i]
    <3>1. /\ nodes[a].to <= y /\ a \in 1..m
          /\ \A i \in 1..nodes[a].to : tails[nodes[a].prompt][i] = tails[v.prompt][i]
      BY <2>6, <2>7 DEF Above
    <3>2. nodes[a].to \in Nat
      <4>1. a \in 1..N
        BY <1>1, <2>1, <3>1
      <4> QED BY <4>1, NodeIs
    <3>3. \A i \in 1..nodes[a].to : i \in 1..y
      BY <1>4, <3>1, <3>2
    <3> QED BY <2>6, <3>1, <3>3
  <2>9. Above(tails, t, m, x, y)
    BY <2>6, <2>7, <2>8 DEF Above
  <2> QED BY <1>4, <2>9
<1> QED BY <1>5, <1>6

-----------------------------------------------------------------------------
(* What a row reads *)

\* Starts of starts.
LEMMA SubOfSub ==
  ASSUME NEW h \in Seq(Int), NEW n \in 0..Len(h), NEW i \in 0..n
  PROVE  SubSeq(SubSeq(h, 1, n), 1, i) = SubSeq(h, 1, i)
<1> DEFINE g == SubSeq(h, 1, n)
<1>1. g \in Seq(Int) /\ Len(g) = n /\ \A x \in 1..n : g[x] = h[x]
  BY SubSeqIsStart
<1>2. i \in 0..Len(h) /\ i \in 0..Len(g)
  BY <1>1
<1>3. SubSeq(h, 1, i) \in Seq(Int) /\ Len(SubSeq(h, 1, i)) = i /\ \A x \in 1..i : SubSeq(h, 1, i)[x] = h[x]
  BY <1>2, SubSeqIsStart
<1> HIDE DEF g
<1>4. SubSeq(g, 1, i) \in Seq(Int) /\ Len(SubSeq(g, 1, i)) = i /\ \A x \in 1..i : SubSeq(g, 1, i)[x] = g[x]
  BY <1>1, <1>2, SubSeqIsStart
<1>5. \A x \in 1..i : SubSeq(g, 1, i)[x] = SubSeq(h, 1, i)[x]
  BY <1>1, <1>3, <1>4
<1>6. SubSeq(g, 1, i) = SubSeq(h, 1, i)
  BY <1>3, <1>4, <1>5, SeqEqual
<1> QED BY <1>6 DEF g

\* A sequence is the longest of its starts.
LEMMA WholeSub ==
  ASSUME NEW h \in Seq(Int)
  PROVE  SubSeq(h, 1, Len(h)) = h
<1>1. Len(h) \in 0..Len(h)
  OBVIOUS
<1>2. /\ SubSeq(h, 1, Len(h)) \in Seq(Int) /\ Len(SubSeq(h, 1, Len(h))) = Len(h)
      /\ \A x \in 1..Len(h) : SubSeq(h, 1, Len(h))[x] = h[x]
  BY <1>1, SubSeqIsStart
<1> QED BY <1>2, SeqEqual

\* The columns in D hold the starts of history h, each once.
HoldsStarts(D, before, h) ==
  /\ \A c \in D : \E i \in 1..Len(h) : before[c] = SubSeq(h, 1, i)
  /\ \A i \in 1..Len(h) : \E c \in D : before[c] = SubSeq(h, 1, i)
  /\ \A c, e \in D : before[c] = before[e] => c = e

\* A row that sees exactly the starts of history h computes h and its token.
LEMMA ReadIs ==
  ASSUME NEW h \in Seq(Int), NEW before, NEW row, NEW m, m = Len(before) + 1, m \in row.looks,
         NEW D, D = row.looks \ {m}, HoldsStarts(D, before, h), row.position = Len(h) + 1
  PROVE  Read(row, before) = Append(h, row.token)
<1>0. /\ \A c \in D : \E i \in 1..Len(h) : before[c] = SubSeq(h, 1, i)
      /\ \A i \in 1..Len(h) : \E c \in D : before[c] = SubSeq(h, 1, i)
      /\ \A c, e \in D : before[c] = before[e] => c = e
  BY DEF HoldsStarts
<1> DEFINE V == {SubSeq(h, 1, i) : i \in 1..Len(h)}
           seen == {before[c] : c \in D}
           f == [c \in D |-> before[c]]
           N == Len(h)
<1>1. N \in Nat
  OBVIOUS
<1>2. seen = V
  BY <1>0
<1>3. IsFiniteSet(V) /\ Cardinality(V) = N
  <2>1. 1..N \in SUBSET (1..Len(h))
    OBVIOUS
  <2>2. Cardinality(1..N) = N
    <3> HIDE DEF N
    <3>1. N \in Int /\ 1 \in Int
      BY <1>1
    <3>2. Cardinality(1..N) = IF 1 > N THEN 0 ELSE N - 1 + 1
      BY <3>1, FS_Interval
    <3> QED BY <1>1, <3>2
  <2> QED BY <2>1, <2>2, CountStarts
<1>4. ExistsBijection(D, V)
  <2>1. \A c \in D : f[c] = before[c]
    OBVIOUS
  <2>2. f \in [D -> V]
    BY <1>0
  <2>3. \A v \in V : \E c \in D : f[c] = v
    BY <1>0
  <2> HIDE DEF f, V
  <2>4. f \in Bijection(D, V)
    BY <1>0, <2>1, <2>2, <2>3 DEF Bijection, Injection, Surjection, IsInjective
  <2> QED BY <2>4 DEF ExistsBijection
<1> HIDE DEF V
<1>5. IsFiniteSet(D) /\ Cardinality(D) = N
  <2>1. ExistsBijection(V, D)
    BY <1>4, Fun_ExistsBijSymmetric
  <2> QED BY <1>3, <2>1, FS_Bijection
<1>6. Cardinality(row.looks) = N + 1
  <2>1. row.looks = D \union {m} /\ m \notin D
    OBVIOUS
  <2> HIDE DEF N
  <2>2. Cardinality(D \union {m}) = IF m \in D THEN Cardinality(D) ELSE Cardinality(D) + 1
    BY <1>5, FS_AddElement
  <2> QED BY <1>5, <2>1, <2>2
<1> DEFINE starts(x) == {SubSeq(x, 1, i) : i \in 1..N}
           history == {x \in V \union {<<>>} : Len(x) = N /\ V = starts(x)}
<1>7. Read(row, before) = IF row.position = N + 1 /\ history # {}
                          THEN Append(CHOOSE x \in history : TRUE, row.token) ELSE Garbage
  <2> DEFINE n == Cardinality(row.looks) - 1
             sn == {before[c] : c \in row.looks \ {Len(before) + 1}}
             hist == {x \in sn \union {<<>>} : Len(x) = n /\ sn = {SubSeq(x, 1, i) : i \in 1..n}}
  <2>1. n = N
    <3> HIDE DEF N
    <3> QED BY <1>1, <1>6
  <2>2. sn = V
    BY <1>2
  <2>3. Read(row, before) = IF row.position = n + 1 /\ hist # {}
                            THEN Append(CHOOSE x \in hist : TRUE, row.token) ELSE Garbage
    BY DEF Read
  <2> HIDE DEF n, sn
  <2> QED BY <2>1, <2>2, <2>3
<1>8. h \in history
  <2>1. V = starts(h)
    BY DEF V
  <2>2. h \in V \union {<<>>}
    <3>1. CASE N = 0
      BY <3>1, EmptySeq
    <3>2. CASE N # 0
      <4>1. N \in 1..Len(h)
        BY <1>1, <3>2
      <4>2. h = SubSeq(h, 1, N)
        BY WholeSub
      <4> QED BY <4>1, <4>2 DEF V
    <3> QED BY <3>1, <3>2
  <2> QED BY <2>1, <2>2
<1>9. ASSUME NEW x \in history PROVE x = h
  <2>1. Len(x) = N /\ (x \in V \/ x = <<>>)
    OBVIOUS
  <2>2. CASE x = <<>>
    <3>1. N = 0
      BY <2>1, <2>2
    <3> QED BY <2>2, <3>1, EmptySeq
  <2>3. CASE x \in V
    <3>1. PICK i \in 1..N : x = SubSeq(h, 1, i)
      BY <2>3 DEF V
    <3>2. i \in 0..Len(h)
      OBVIOUS
    <3>3. Len(x) = i
      BY <3>1, <3>2, SubSeqIsStart
    <3> QED BY <2>1, <3>1, <3>3, WholeSub
  <2> QED BY <2>1, <2>2, <2>3
<1> HIDE DEF history
<1>10. (CHOOSE x \in history : TRUE) = h
  BY <1>8, <1>9
<1> QED BY <1>7, <1>8, <1>10

\* Row l of a block sees, besides the n0 cached cells, the rows of the block that
\* are in M, itself the last; the histories of these rows are the starts of its own.
Sees(rows, hs, n0, row, c0, C, l, M) ==
  /\ rows[l].position = Len(hs[l])
  /\ rows[l].token = hs[l][Len(hs[l])]
  /\ rows[l].looks = PastColumns(c0, n0) \union {C + row + m : m \in M}
  /\ M \subseteq 1..l /\ l \in M
  /\ \A m \in M : /\ Len(hs[m]) > n0 /\ Len(hs[m]) <= Len(hs[l])
                  /\ hs[m] = SubSeq(hs[l], 1, Len(hs[m]))
  /\ \A x \in (n0 + 1)..Len(hs[l]) : \E m \in M : Len(hs[m]) = x
  /\ \A m, e \in M : Len(hs[m]) = Len(hs[e]) => m = e

\* The columns before row l: the block's cached cells, and the rows it follows.
Before(before, hs, n0, row, c0, C, l) ==
  /\ Len(before) = C + row + l - 1
  /\ \A i \in 1..n0 : before[c0 + i] = SubSeq(hs[l], 1, i)
  /\ \A m \in 1..(l - 1) : before[C + row + m] = hs[m]

\* Row l of a block comes after the columns it has to see.
Readable(rows, hs, n0, row, c0, C, l, M, before) ==
  /\ hs \in Seq(Seq(Int)) /\ n0 \in Nat /\ row \in Nat /\ c0 \in Nat /\ C \in Nat
  /\ c0 + n0 <= C /\ l \in DOMAIN hs
  /\ Sees(rows, hs, n0, row, c0, C, l, M)
  /\ Before(before, hs, n0, row, c0, C, l)

\* A row that sees its history, among columns that hold theirs, computes it.
LEMMA RowReads ==
  ASSUME NEW rows, NEW hs, NEW n0, NEW row, NEW c0, NEW C, NEW l, NEW M, NEW before,
         Readable(rows, hs, n0, row, c0, C, l, M, before)
  PROVE  Read(rows[l], before) = hs[l]
<1> hs \in Seq(Seq(Int)) /\ n0 \in Nat /\ row \in Nat /\ c0 \in Nat /\ C \in Nat /\ c0 + n0 <= C /\ l \in DOMAIN hs
  BY DEF Readable
<1>s. Sees(rows, hs, n0, row, c0, C, l, M) /\ Before(before, hs, n0, row, c0, C, l)
  BY DEF Readable
<1>0. /\ Len(before) = C + row + l - 1
      /\ \A i \in 1..n0 : before[c0 + i] = SubSeq(hs[l], 1, i)
      /\ \A m \in 1..(l - 1) : before[C + row + m] = hs[m]
  BY <1>s DEF Before
<1> DEFINE H == hs[l]
           N == Len(H)
           h == SubSeq(H, 1, N - 1)
           r == rows[l]
           me == C + row + l
           D == r.looks \ {me}
<1>1. H \in Seq(Int) /\ N \in Nat /\ l \in Nat /\ l >= 1
  BY LenProperties
<1>2. \A m \in 1..l : hs[m] \in Seq(Int) /\ Len(hs[m]) \in Nat
  <2>1. \A m \in 1..l : m \in DOMAIN hs
    OBVIOUS
  <2> QED BY <2>1, LenProperties
<1> HIDE DEF H, N, r
<1>3. /\ r.position = N /\ r.token = H[N]
      /\ r.looks = PastColumns(c0, n0) \union {C + row + m : m \in M}
  BY <1>s DEF Sees, r, H, N
<1>4. /\ M \subseteq 1..l /\ l \in M
      /\ \A m \in M : /\ Len(hs[m]) > n0 /\ Len(hs[m]) <= N
                      /\ hs[m] = SubSeq(H, 1, Len(hs[m]))
      /\ \A x \in (n0 + 1)..N : \E m \in M : Len(hs[m]) = x
      /\ \A m, e \in M : Len(hs[m]) = Len(hs[e]) => m = e
  BY <1>s DEF Sees, H, N
<1>5. N > n0 /\ N >= 1 /\ N - 1 \in 0..Len(H)
  <2>1. N > n0
    BY <1>4 DEF H, N
  <2> QED BY <1>1, <2>1 DEF N
<1>6. h \in Seq(Int) /\ Len(h) = N - 1 /\ \A x \in 1..(N - 1) : h[x] = H[x]
  BY <1>1, <1>5, SubSeqIsStart
<1>7. \A i \in 0..(N - 1) : SubSeq(h, 1, i) = SubSeq(H, 1, i)
  BY <1>1, <1>5, SubOfSub
<1> HIDE DEF h
<1>8. me \in r.looks /\ me = Len(before) + 1
  <2>1. me = Len(before) + 1
    BY <1>0, <1>1
  <2>2. me \in {C + row + m : m \in M}
    BY <1>4
  <2> QED BY <1>3, <2>1, <2>2
<1>9. ASSUME NEW c \in D
      PROVE  \/ \E i \in 1..n0 : c = c0 + i
             \/ \E m \in M : m # l /\ m \in 1..(l - 1) /\ c = C + row + m
  <2>1. CASE c \in PastColumns(c0, n0)
    <3>1. c \in (c0 + 1)..(c0 + n0)
      BY <2>1 DEF PastColumns
    <3>2. c - c0 \in 1..n0 /\ c = c0 + (c - c0)
      BY <3>1
    <3> QED BY <3>2
  <2>2. CASE c \in {C + row + m : m \in M}
    <3>1. PICK m \in M : c = C + row + m
      BY <2>2
    <3>2. m \in 1..l /\ m # l
      BY <1>4, <3>1
    <3> QED BY <1>1, <3>1, <3>2
  <2> QED BY <1>3, <2>1, <2>2
<1>10. ASSUME NEW i \in 1..n0 PROVE c0 + i \in D
  <2>1. c0 + i \in PastColumns(c0, n0)
    BY DEF PastColumns
  <2>2. c0 + i # me
    BY <1>1
  <2> QED BY <1>3, <2>1, <2>2
<1>11. ASSUME NEW m \in M, m # l PROVE C + row + m \in D
  <2>1. m \in Nat
    BY <1>4
  <2>2. C + row + m # me
    BY <1>1, <1>11, <2>1
  <2> QED BY <1>3, <2>2
<1>12. ASSUME NEW m \in M, m # l
       PROVE  /\ Len(hs[m]) \in (n0 + 1)..(N - 1)
              /\ before[C + row + m] = SubSeq(h, 1, Len(hs[m]))
  <2>1. m \in 1..l /\ m \in 1..(l - 1)
    BY <1>1, <1>4, <1>12
  <2>2. Len(hs[m]) # N
    BY <1>4, <1>12 DEF H, N
  <2>3. Len(hs[m]) \in (n0 + 1)..(N - 1) /\ Len(hs[m]) \in 0..(N - 1)
    <3>1. Len(hs[m]) \in Nat /\ Len(hs[m]) > n0 /\ Len(hs[m]) <= N
      BY <1>2, <1>4, <2>1
    <3>2. \A x \in Nat : x > n0 /\ x <= N /\ x # N => x \in (n0 + 1)..(N - 1) /\ x \in 0..(N - 1)
      BY <1>1
    <3> QED BY <2>2, <3>1, <3>2
  <2>4. before[C + row + m] = hs[m]
    BY <1>0, <2>1
  <2> QED BY <1>4, <1>7, <2>3, <2>4
<1>13. ASSUME NEW i \in 1..n0 PROVE before[c0 + i] = SubSeq(h, 1, i) /\ i \in 1..(N - 1)
  <2>1. i \in 1..(N - 1) /\ i \in 0..(N - 1)
    BY <1>1, <1>5
  <2> QED BY <1>0, <1>7, <2>1 DEF H
<1> HIDE DEF D, me
<1>14. \A c \in D : \E i \in 1..Len(h) : before[c] = SubSeq(h, 1, i)
  <2> SUFFICES ASSUME NEW c \in D PROVE \E i \in 1..(N - 1) : before[c] = SubSeq(h, 1, i)
    BY <1>6
  <2>1. CASE \E i \in 1..n0 : c = c0 + i
    BY <1>13, <2>1
  <2>2. CASE \E m \in M : m # l /\ m \in 1..(l - 1) /\ c = C + row + m
    <3>1. PICK m \in M : m # l /\ c = C + row + m
      BY <2>2
    <3>2. Len(hs[m]) \in 1..(N - 1)
      <4>1. \A x \in (n0 + 1)..(N - 1) : x \in 1..(N - 1)
        BY <1>1
      <4> QED BY <1>12, <3>1, <4>1
    <3> QED BY <1>12, <3>1, <3>2
  <2> QED BY <1>9, <2>1, <2>2
<1>15. \A i \in 1..Len(h) : \E c \in D : before[c] = SubSeq(h, 1, i)
  <2> SUFFICES ASSUME NEW i \in 1..(N - 1) PROVE \E c \in D : before[c] = SubSeq(h, 1, i)
    BY <1>6
  <2>1. CASE i <= n0
    <3>1. i \in 1..n0
      BY <1>1, <2>1
    <3> QED BY <1>10, <1>13, <3>1
  <2>2. CASE ~(i <= n0)
    <3>1. i \in (n0 + 1)..N /\ i # N
      BY <1>1, <2>2
    <3>2. PICK m \in M : Len(hs[m]) = i
      BY <1>4, <3>1
    <3>3. m # l
      BY <3>1, <3>2 DEF N, H
    <3> QED BY <1>11, <1>12, <3>2, <3>3
  <2> QED BY <2>1, <2>2
<1>16. \A i \in 0..(N - 1) : Len(SubSeq(h, 1, i)) = i
  BY <1>6, SubSeqIsStart
<1>17. \A c, e \in D : before[c] = before[e] => c = e
  <2> SUFFICES ASSUME NEW c \in D, NEW e \in D, before[c] = before[e] PROVE c = e
    OBVIOUS
  <2> DEFINE Past(x) == \E i \in 1..n0 : x = c0 + i /\ Len(before[x]) = i
             Mine(x) == \E m \in M : x = C + row + m /\ Len(before[x]) = Len(hs[m]) /\ Len(hs[m]) > n0
  <2>1. \A x \in D : Past(x) \/ Mine(x)
    <3> SUFFICES ASSUME NEW x \in D PROVE Past(x) \/ Mine(x)
      OBVIOUS
    <3>1. CASE \E i \in 1..n0 : x = c0 + i
      <4>1. PICK i \in 1..n0 : x = c0 + i
        BY <3>1
      <4>2. Len(before[x]) = i
        <5>1. before[c0 + i] = SubSeq(h, 1, i) /\ i \in 0..(N - 1)
          <6>1. before[c0 + i] = SubSeq(h, 1, i) /\ i \in 1..(N - 1)
            BY <1>13
          <6> QED BY <1>1, <6>1
        <5> QED BY <1>16, <4>1, <5>1
      <4> QED BY <4>1, <4>2
    <3>2. CASE \E m \in M : m # l /\ m \in 1..(l - 1) /\ x = C + row + m
      <4>1. PICK m \in M : m # l /\ x = C + row + m
        BY <3>2
      <4>2. Len(hs[m]) \in (n0 + 1)..(N - 1) /\ before[x] = SubSeq(h, 1, Len(hs[m]))
        BY <1>12, <4>1
      <4>3. Len(hs[m]) \in 0..(N - 1) /\ Len(hs[m]) > n0
        <5>1. \A u \in Int : \A y \in (n0 + 1)..u : y \in 0..u /\ y > n0
          OBVIOUS
        <5>2. N - 1 \in Int
          BY <1>1
        <5> QED BY <4>2, <5>1, <5>2
      <4>4. Len(before[x]) = Len(hs[m])
        BY <1>16, <4>2, <4>3
      <4> QED BY <4>1, <4>3, <4>4
    <3> QED BY <1>9, <3>1, <3>2
  <2>2. CASE Past(c) /\ Past(e)
    BY <2>2
  <2>3. CASE Past(c) /\ Mine(e)
    <3>1. PICK i \in 1..n0 : Len(before[c]) = i
      BY <2>3
    <3>2. PICK m \in M : Len(before[e]) = Len(hs[m]) /\ Len(hs[m]) > n0
      BY <2>3
    <3>3. ~(i > n0)
      OBVIOUS
    <3> QED BY <3>1, <3>2, <3>3
  <2>4. CASE Mine(c) /\ Past(e)
    <3>1. PICK i \in 1..n0 : Len(before[e]) = i
      BY <2>4
    <3>2. PICK m \in M : Len(before[c]) = Len(hs[m]) /\ Len(hs[m]) > n0
      BY <2>4
    <3>3. ~(i > n0)
      OBVIOUS
    <3> QED BY <3>1, <3>2, <3>3
  <2>5. CASE Mine(c) /\ Mine(e)
    BY <1>4, <2>5
  <2> QED BY <2>1, <2>2, <2>3, <2>4, <2>5
<1>18. r.position = Len(h) + 1
  BY <1>1, <1>3, <1>5, <1>6
<1>19. Read(r, before) = Append(h, r.token)
  <2>1. D = r.looks \ {me}
    BY DEF D
  <2>2. h \in Seq(Int)
    BY <1>6
  <2>3. HoldsStarts(D, before, h)
    BY <1>14, <1>15, <1>17 DEF HoldsStarts
  <2> QED BY <1>8, <1>18, <2>1, <2>2, <2>3, ReadIs
<1>20. Append(h, H[N]) = H
  <2>1. H[N] \in Int
    BY <1>1, <1>5 DEF N
  <2>2. /\ Append(h, H[N]) \in Seq(Int) /\ Len(Append(h, H[N])) = N
        /\ \A x \in 1..N : Append(h, H[N])[x] = H[x]
    <3>1. /\ Append(h, H[N]) \in Seq(Int) /\ Len(Append(h, H[N])) = Len(h) + 1
          /\ \A x \in 1..Len(h) : Append(h, H[N])[x] = h[x]
          /\ Append(h, H[N])[Len(h) + 1] = H[N]
      BY <1>6, <2>1, AppendProperties
    <3>2. (N - 1) + 1 = N
      BY <1>1
    <3>3. \A u \in Nat : \A x \in 1..u : x = u \/ x \in 1..(u - 1)
      OBVIOUS
    <3>4. \A x \in 1..N : x = N \/ x \in 1..(N - 1)
      BY <1>1, <3>3
    <3>5. Len(Append(h, H[N])) = N
      BY <1>6, <3>1, <3>2
    <3>6. ASSUME NEW x \in 1..N PROVE Append(h, H[N])[x] = H[x]
      <4>1. CASE x = N
        BY <1>6, <3>1, <3>2, <4>1
      <4>2. CASE x \in 1..(N - 1)
        BY <1>6, <3>1, <4>2
      <4> QED BY <3>4, <4>1, <4>2
    <3> QED BY <3>1, <3>5, <3>6
  <2> QED BY <1>1, <2>2, SeqEqual DEF N
<1> QED BY <1>3, <1>19, <1>20 DEF r, H

-----------------------------------------------------------------------------
(* The rows of a block, and the histories they should compute *)

\* A function on 1..n is a sequence.
LEMMA ArrayIsSeq ==
  ASSUME NEW X, NEW n \in Nat, NEW f \in [1..n -> X]
  PROVE  f \in Seq(X) /\ Len(f) = n
OBVIOUS

\* How many tokens each node of a tree reads, as NodeRow adds them up.
NodeLens(t) == [m \in DOMAIN t.nodes |-> NodeLen(t.nodes[m])]

\* They are numbers, and add up to the tokens of the tree.
LEMMA NodeLensAre ==
  ASSUME NEW tails, NEW t, TreeInv(tails, t)
  PROVE  /\ t.nodes \in Seq(NodeSet(tails)) /\ NodesInv(tails, t.nodes) /\ t.tokens \in Nat
         /\ Len(t.nodes) \in Nat /\ DOMAIN t.nodes = 1..Len(t.nodes)
         /\ NodeLens(t) \in [1..Len(t.nodes) -> Nat]
         /\ \A n \in 1..Len(t.nodes) : NodeLens(t)[n] = t.nodes[n].to - t.nodes[n].from
         /\ SumTo(NodeLens(t), Len(t.nodes)) = t.tokens
<1> DEFINE N == Len(t.nodes)
           s == NodeLens(t)
<1>1. t.nodes \in Seq(NodeSet(tails)) /\ NodesInv(tails, t.nodes) /\ LaidOut(t.nodes, t.tokens) /\ t.tokens \in Nat
  BY DEF TreeInv, TreeSet
<1>2. N \in Nat /\ DOMAIN t.nodes = 1..N
  BY <1>1
<1>3. \A n \in 1..N : s[n] = t.nodes[n].to - t.nodes[n].from /\ s[n] \in Nat
  <2> SUFFICES ASSUME NEW n \in 1..N PROVE s[n] = t.nodes[n].to - t.nodes[n].from /\ s[n] \in Nat
    OBVIOUS
  <2>1. s[n] = t.nodes[n].to - t.nodes[n].from
    BY <1>2 DEF NodeLens, NodeLen
  <2>2. t.nodes[n].from \in Nat /\ t.nodes[n].to \in Nat /\ t.nodes[n].from < t.nodes[n].to
    BY <1>1, NodeIs
  <2> HIDE DEF s
  <2> QED BY <2>1, <2>2
<1>4. s \in [1..N -> Nat]
  <2>1. s = [m \in 1..N |-> NodeLen(t.nodes[m])]
    BY <1>2 DEF NodeLens
  <2>2. \A m \in 1..N : NodeLen(t.nodes[m]) \in Nat
    BY <1>3, <2>1
  <2> QED BY <2>1, <2>2
<1> HIDE DEF s, N
<1>5. PICK r \in [0..N -> Nat] : /\ r[0] = 0 /\ r[N] = t.tokens
                                 /\ \A n \in 1..N : r[n] = r[n - 1] + (t.nodes[n].to - t.nodes[n].from)
  BY <1>1 DEF LaidOut, N
<1>6. SumTo(s, 0) = 0 /\ \A i \in 1..N : SumTo(s, i) = SumTo(s, i - 1) + s[i]
  BY <1>2, <1>4, Sums
<1> DEFINE T == {i \in Nat : i <= N => SumTo(s, i) = r[i]}
<1>7. 0 \in T
  BY <1>5, <1>6
<1>8. ASSUME NEW i \in Nat, i \in T PROVE i + 1 \in T
  <2> SUFFICES ASSUME i + 1 <= N PROVE SumTo(s, i + 1) = r[i + 1]
    OBVIOUS
  <2>1. i + 1 \in 1..N /\ (i + 1) - 1 = i /\ i <= N
    BY <1>2
  <2> DEFINE l == i + 1
  <2>2. l \in 1..N /\ l - 1 = i
    BY <2>1
  <2> HIDE DEF l
  <2>3. SumTo(s, l) = SumTo(s, l - 1) + s[l] /\ r[l] = r[l - 1] + s[l]
    BY <1>3, <1>5, <1>6, <2>2
  <2>4. SumTo(s, i) = r[i]
    BY <1>8, <2>1
  <2> QED BY <2>2, <2>3, <2>4 DEF l
<1>9. \A i \in Nat : i \in T
  <2> HIDE DEF T
  <2> QED BY <1>7, <1>8, Induct
<1>10. SumTo(s, N) = r[N]
  BY <1>2, <1>9
<1> QED BY <1>1, <1>2, <1>3, <1>4, <1>5, <1>10 DEF s, N

\* f is sequence A, and then parts of the nodes of tree t.
Placed(f, A, t, parts) ==
  /\ Len(f) = Len(A) + t.tokens
  /\ \A j \in 1..Len(A) : f[j] = A[j]
  /\ \A n \in 1..Len(t.nodes) : \A j \in 1..NodeLens(t)[n] :
       /\ Len(A) + SumTo(NodeLens(t), n - 1) + j \in 1..Len(f)
       /\ f[Len(A) + SumTo(NodeLens(t), n - 1) + j] = parts[n][j]

\* FlattenSeq puts the nodes' parts where NodeRow says.
LEMMA PlacedIs ==
  ASSUME NEW X, NEW A \in Seq(X), NEW parts \in Seq(Seq(X)), NEW tails, NEW t, TreeInv(tails, t),
         Len(parts) = Len(t.nodes), \A n \in 1..Len(t.nodes) : Len(parts[n]) = NodeLens(t)[n]
  PROVE  A \o FlattenSeq(parts) \in Seq(X) /\ Placed(A \o FlattenSeq(parts), A, t, parts)
<1> DEFINE N == Len(t.nodes)
           s == NodeLens(t)
           B == FlattenSeq(parts)
<1>1. N \in Nat /\ s \in [1..N -> Nat] /\ SumTo(s, N) = t.tokens /\ t.tokens \in Nat
  BY NodeLensAre
<1> HIDE DEF N, s
<1>2. DOMAIN parts = 1..N /\ \A n \in 1..N : parts[n] \in Seq(X) /\ Len(parts[n]) = s[n]
  <2>1. DOMAIN parts = 1..N
    BY DEF N
  <2> QED BY <2>1 DEF s, N
<1>3. Lens(parts) = s
  BY <1>1, <1>2 DEF Lens
<1>4. B \in Seq(X) /\ Flat(parts, B)
  BY FlattenIs
<1>5. Len(B) = t.tokens
  BY <1>1, <1>3, <1>4 DEF Flat, N
<1>6. \A n \in 1..N : \A j \in 1..s[n] : /\ SumTo(s, n - 1) + j \in 1..Len(B)
                                         /\ B[SumTo(s, n - 1) + j] = parts[n][j]
  BY <1>2, <1>3, <1>4 DEF Flat
<1> HIDE DEF B
<1> DEFINE f == A \o B
<1>7. /\ f \in Seq(X) /\ Len(f) = Len(A) + Len(B)
      /\ \A l \in 1..(Len(A) + Len(B)) : f[l] = IF l <= Len(A) THEN A[l] ELSE B[l - Len(A)]
  BY <1>4, ConcatProperties
<1>8. Len(A) \in Nat /\ Len(B) \in Nat
  BY <1>4
<1> HIDE DEF f
<1>9. \A j \in 1..Len(A) : f[j] = A[j]
  BY <1>7, <1>8
<1>10. ASSUME NEW n \in 1..N, NEW j \in 1..s[n]
       PROVE  Len(A) + SumTo(s, n - 1) + j \in 1..Len(f) /\ f[Len(A) + SumTo(s, n - 1) + j] = parts[n][j]
  <2> DEFINE x == SumTo(s, n - 1) + j
             a == SumTo(s, n - 1)
  <2>1. x \in 1..Len(B) /\ B[x] = parts[n][j]
    BY <1>6
  <2>2. a \in Nat /\ j \in Nat /\ x = a + j
    <3>1. n - 1 \in 0..N
      BY <1>1
    <3>2. a \in Nat
      BY <1>1, <3>1, Sums
    <3>3. j \in Nat
      OBVIOUS
    <3> QED BY <3>2, <3>3
  <2> HIDE DEF x, a
  <2>3. Len(A) + x \in 1..(Len(A) + Len(B)) /\ ~(Len(A) + x <= Len(A)) /\ (Len(A) + x) - Len(A) = x
    BY <1>8, <2>1
  <2>4. f[Len(A) + x] = B[x]
    BY <1>7, <2>3
  <2>5. Len(A) + a + j = Len(A) + x
    BY <1>8, <2>2
  <2> QED BY <1>7, <2>1, <2>3, <2>4, <2>5 DEF a
<1>11. Placed(f, A, t, parts)
  BY <1>5, <1>7, <1>9, <1>10 DEF Placed, N, s
<1> QED BY <1>7, <1>11 DEF f, B

\* What a block of a call reads: the tokens w, `past_n` of which are cached, and its
\* questions after them.
Sound(b, w) ==
  /\ w \in Seq(Int)
  /\ b.past_n \in Nat /\ b.past_n <= Len(b.past) /\ b.past \in Seq(Seq(Int))
  /\ b.shared \in Seq(Int) /\ Len(w) = b.past_n + Len(b.shared) /\ b.shared_pos = b.past_n
  /\ \A i \in 1..b.past_n : b.past[i] = SubSeq(w, 1, i)
  /\ \A j \in 1..Len(b.shared) : b.shared[j] = w[b.past_n + j]
  /\ QuestionTails(b.tails)
  /\ b.tails # <<>> => b.skip = Len(w)
  /\ b.tails = <<>> => b.shared # <<>>

\* The histories of a block's rows.
SharedHistories(b, w) == [j \in 1..Len(b.shared) |-> SubSeq(w, 1, b.past_n + j)]
NodeHistories(b, w, t) ==
  [n \in 1..Len(t.nodes) |->
     [j \in 1..NodeLens(t)[n] |->
        SubSeq(w \o b.tails[t.nodes[n].prompt], 1, Len(w) + t.nodes[n].from + j)]]
Histories(b, w, t) == SharedHistories(b, w) \o FlattenSeq(NodeHistories(b, w, t))

\* The histories are placed as the rows are.
LEMMA HistoriesAre ==
  ASSUME NEW b, NEW w, Sound(b, w), NEW t, TreeInv(b.tails, t)
  PROVE  /\ Histories(b, w, t) \in Seq(Seq(Int))
         /\ Placed(Histories(b, w, t), SharedHistories(b, w), t, NodeHistories(b, w, t))
<1> DEFINE A == SharedHistories(b, w)
           parts == NodeHistories(b, w, t)
           N == Len(t.nodes)
<1>1. /\ N \in Nat /\ NodeLens(t) \in [1..N -> Nat] /\ t.nodes \in Seq(NodeSet(b.tails))
      /\ NodesInv(b.tails, t.nodes)
      /\ \A n \in 1..N : NodeLens(t)[n] = t.nodes[n].to - t.nodes[n].from
  BY NodeLensAre
<1>2. /\ w \in Seq(Int) /\ b.past_n \in Nat /\ b.shared \in Seq(Int) /\ Len(w) = b.past_n + Len(b.shared)
      /\ b.tails \in Seq(Seq(Int))
  BY DEF Sound, QuestionTails
<1> HIDE DEF N
<1>3. A \in Seq(Seq(Int))
  <2>1. ASSUME NEW j \in 1..Len(b.shared) PROVE SubSeq(w, 1, b.past_n + j) \in Seq(Int)
    <3>1. b.past_n + j \in 0..Len(w)
      BY <1>2
    <3> QED BY <1>2, <3>1, SubSeqIsStart
  <2>2. Len(b.shared) \in Nat
    BY <1>2
  <2> QED BY <2>1, <2>2 DEF SharedHistories
<1>4. ASSUME NEW n \in 1..N PROVE parts[n] \in Seq(Seq(Int)) /\ Len(parts[n]) = NodeLens(t)[n]
  <2> DEFINE q == t.nodes[n].prompt
             s == NodeLens(t)[n]
             v == w \o b.tails[q]
  <2>1. /\ t.nodes[n].from \in Nat /\ t.nodes[n].to \in Nat /\ t.nodes[n].to <= Len(b.tails[q])
        /\ q \in DOMAIN b.tails
    BY <1>1, NodeIs DEF N
  <2>2. s \in Nat /\ s = t.nodes[n].to - t.nodes[n].from
    BY <1>1
  <2>3. v \in Seq(Int) /\ Len(v) = Len(w) + Len(b.tails[q]) /\ Len(b.tails[q]) \in Nat
    <3>1. b.tails[q] \in Seq(Int)
      BY <1>2, <2>1
    <3> QED BY <1>2, <3>1, ConcatProperties, LenProperties
  <2> HIDE DEF v, s, q
  <2>4. ASSUME NEW j \in 1..s PROVE SubSeq(v, 1, Len(w) + t.nodes[n].from + j) \in Seq(Int)
    <3>1. Len(w) + t.nodes[n].from + j \in 0..Len(v)
      <4>1. Len(w) \in Nat
        BY <1>2
      <4>2. \A a, f, g, z \in Nat : \A i \in 1..(g - f) : g <= z => a + f + i \in 0..(a + z)
        OBVIOUS
      <4>3. t.nodes[n].to <= Len(b.tails[q])
        BY <2>1 DEF q
      <4>4. j \in 1..(t.nodes[n].to - t.nodes[n].from)
        BY <2>2
      <4> QED BY <2>1, <2>3, <4>1, <4>2, <4>3, <4>4
    <3> QED BY <2>3, <3>1, SubSeqIsStart
  <2>5. parts[n] = [j \in 1..s |-> SubSeq(v, 1, Len(w) + t.nodes[n].from + j)]
    BY DEF NodeHistories, v, s, q, N
  <2> HIDE DEF parts
  <2>6. parts[n] \in [1..s -> Seq(Int)]
    <3> DEFINE h(j) == SubSeq(v, 1, Len(w) + t.nodes[n].from + j)
    <3>1. \A j \in 1..s : h(j) \in Seq(Int)
      BY <2>4
    <3>2. parts[n] = [j \in 1..s |-> h(j)]
      BY <2>5
    <3> HIDE DEF h
    <3> QED BY <3>1, <3>2
  <2>7. parts[n] \in Seq(Seq(Int)) /\ Len(parts[n]) = s
    BY <2>2, <2>6, ArrayIsSeq
  <2> QED BY <2>7 DEF s
<1>5. parts \in Seq(Seq(Seq(Int))) /\ Len(parts) = N
  <2>1. parts = [n \in 1..N |-> parts[n]]
    BY DEF NodeHistories, N
  <2>2. N \in Nat
    BY <1>1
  <2> HIDE DEF parts, N
  <2>3. parts \in [1..N -> Seq(Seq(Int))]
    BY <1>4, <2>1
  <2> QED BY <2>2, <2>3, ArrayIsSeq
<1>6. A \o FlattenSeq(parts) \in Seq(Seq(Int)) /\ Placed(A \o FlattenSeq(parts), A, t, parts)
  <2> HIDE DEF A, parts
  <2> QED BY <1>3, <1>4, <1>5, PlacedIs DEF N
<1> QED BY <1>6 DEF Histories

\* Where `run` puts each row of a block.
LEMMA RowsArePlaced ==
  ASSUME NEW b, NEW w, Sound(b, w), NEW t, TreeInv(b.tails, t), NEW row, NEW c0, NEW C
  PROVE  LET A == [j \in 1..Len(b.shared) |-> SharedRow(b, row, c0, C, j)]
             parts == [n \in DOMAIN t.nodes |->
                         [j \in 1..NodeLen(t.nodes[n]) |-> NodesRow(b, t, row, c0, C, n, j)]]
         IN Placed(Rows(b, t, row, c0, C), A, t, parts) /\ \E X : Rows(b, t, row, c0, C) \in Seq(X)
<1> DEFINE A == [j \in 1..Len(b.shared) |-> SharedRow(b, row, c0, C, j)]
           parts == [n \in DOMAIN t.nodes |->
                       [j \in 1..NodeLen(t.nodes[n]) |-> NodesRow(b, t, row, c0, C, n, j)]]
           N == Len(t.nodes)
           X == {SharedRow(b, row, c0, C, j) : j \in Nat}
                  \union {NodesRow(b, t, row, c0, C, n, j) : n \in 1..N, j \in Nat}
<1>1. /\ N \in Nat /\ DOMAIN t.nodes = 1..N
      /\ NodeLens(t) \in [1..N -> Nat]
  BY NodeLensAre
<1>2. \A n \in 1..N : NodeLen(t.nodes[n]) = NodeLens(t)[n] /\ NodeLen(t.nodes[n]) \in Nat
  <2>1. \A n \in 1..N : NodeLen(t.nodes[n]) = NodeLens(t)[n]
    BY <1>1 DEF NodeLens
  <2> QED BY <1>1, <2>1
<1>3. Len(b.shared) \in Nat
  BY DEF Sound
<1>4. /\ \A j \in 1..Len(b.shared) : SharedRow(b, row, c0, C, j) \in X
      /\ \A n \in 1..N : \A j \in 1..NodeLen(t.nodes[n]) : NodesRow(b, t, row, c0, C, n, j) \in X
  OBVIOUS
<1> HIDE DEF X, N
<1>5. A \in Seq(X)
  BY <1>3, <1>4
<1>6. \A n \in 1..N : parts[n] \in Seq(X) /\ Len(parts[n]) = NodeLens(t)[n]
  <2> SUFFICES ASSUME NEW n \in 1..N PROVE parts[n] \in Seq(X) /\ Len(parts[n]) = NodeLens(t)[n]
    OBVIOUS
  <2>1. parts[n] = [j \in 1..NodeLen(t.nodes[n]) |-> NodesRow(b, t, row, c0, C, n, j)]
    BY <1>1
  <2> HIDE DEF parts
  <2> QED BY <1>2, <1>4, <2>1
<1>7. parts \in Seq(Seq(X)) /\ Len(parts) = N
  <2>1. parts = [n \in 1..N |-> parts[n]]
    BY <1>1
  <2> HIDE DEF parts
  <2> QED BY <1>1, <1>6, <2>1
<1>8. Placed(A \o FlattenSeq(parts), A, t, parts) /\ A \o FlattenSeq(parts) \in Seq(X)
  <2> HIDE DEF A, parts
  <2> QED BY <1>5, <1>6, <1>7, PlacedIs DEF N
<1> QED BY <1>8 DEF Rows

\* Equal tokens are equal starts.
LEMMA IsStart ==
  ASSUME NEW g \in Seq(Int), NEW h \in Seq(Int), Len(g) <= Len(h), \A i \in 1..Len(g) : g[i] = h[i]
  PROVE  g = SubSeq(h, 1, Len(g))
<1>1. Len(g) \in 0..Len(h)
  OBVIOUS
<1>2. /\ SubSeq(h, 1, Len(g)) \in Seq(Int) /\ Len(SubSeq(h, 1, Len(g))) = Len(g)
      /\ \A i \in 1..Len(g) : SubSeq(h, 1, Len(g))[i] = h[i]
  BY <1>1, SubSeqIsStart
<1> QED BY <1>2, SeqEqual

\* What the rows' histories are, token by token: history h of a shared token is the
\* first n tokens of w; of row x of a node, w and what its question T has up to there.
SharedIs(h, w, n) == h \in Seq(Int) /\ Len(h) = n /\ \A i \in 1..n : h[i] = w[i]

\* ... of row x of a node, w and what its question T has up to there.
NodeRowIs(h, w, T, node, x) ==
  /\ h \in Seq(Int) /\ Len(h) = Len(w) + (node.from + x) /\ node.from + x <= node.to
  /\ \A i \in 1..Len(w) : h[i] = w[i]
  /\ \A i \in 1..(node.from + x) : h[Len(w) + i] = T[i]

\* The history of a shared token is what SharedIs says.
LEMMA SharedHistoryIs ==
  ASSUME NEW b, NEW w, Sound(b, w), NEW t, TreeInv(b.tails, t), NEW j \in 1..Len(b.shared),
         NEW h, h = Histories(b, w, t)[j]
  PROVE  /\ SharedIs(h, w, b.past_n + j)
         /\ j \in 1..Len(Histories(b, w, t))
<1>1. Placed(Histories(b, w, t), SharedHistories(b, w), t, NodeHistories(b, w, t))
  BY HistoriesAre
<1>2. /\ w \in Seq(Int) /\ b.past_n \in Nat /\ Len(b.shared) \in Nat /\ Len(w) = b.past_n + Len(b.shared)
  BY DEF Sound
<1>3. Len(SharedHistories(b, w)) = Len(b.shared)
  BY <1>2 DEF SharedHistories
<1>4. h = SharedHistories(b, w)[j]
  BY <1>1, <1>3 DEF Placed
<1>5. h = SubSeq(w, 1, b.past_n + j)
  BY <1>4 DEF SharedHistories
<1>6. b.past_n + j \in 0..Len(w) /\ b.past_n + j <= Len(w)
  BY <1>2
<1>7. t.tokens \in Nat /\ Len(Histories(b, w, t)) = Len(b.shared) + t.tokens
  BY <1>1, <1>3, NodeLensAre DEF Placed
<1>8. j \in 1..Len(Histories(b, w, t))
  BY <1>2, <1>7
<1>9. SharedIs(h, w, b.past_n + j)
  BY <1>2, <1>5, <1>6, SubSeqIsStart DEF SharedIs
<1> QED BY <1>8, <1>9

\* The history of a node's row is what NodeRowIs says.
LEMMA NodeHistoryIs ==
  ASSUME NEW b, NEW w, Sound(b, w), NEW t, TreeInv(b.tails, t), NEW n \in 1..Len(t.nodes),
         NEW j \in 1..NodeLens(t)[n], NEW l, l = Len(b.shared) + SumTo(NodeLens(t), n - 1) + j,
         NEW h, h = Histories(b, w, t)[l], NEW T, T = b.tails[t.nodes[n].prompt]
  PROVE  /\ l \in 1..Len(Histories(b, w, t))
         /\ T \in Seq(Int) /\ t.nodes[n].from + j \in 1..Len(T)
         /\ NodeRowIs(h, w, T, t.nodes[n], j)
<1> DEFINE v == t.nodes[n]
           d == v.from + j
           W == w \o T
<1>1. Placed(Histories(b, w, t), SharedHistories(b, w), t, NodeHistories(b, w, t))
  BY HistoriesAre
<1>2. /\ w \in Seq(Int) /\ Len(w) \in Nat /\ Len(b.shared) \in Nat /\ b.tails \in Seq(Seq(Int))
  BY DEF Sound, QuestionTails
<1>3. Len(SharedHistories(b, w)) = Len(b.shared)
  BY <1>2 DEF SharedHistories
<1>4. l \in 1..Len(Histories(b, w, t)) /\ h = NodeHistories(b, w, t)[n][j]
  BY <1>1, <1>3 DEF Placed
<1>5. h = SubSeq(W, 1, Len(w) + v.from + j)
  BY <1>4 DEF NodeHistories
<1>6. /\ v.from \in Nat /\ v.to \in Nat /\ v.to <= Len(T) /\ v.prompt \in DOMAIN b.tails
      /\ NodeLens(t)[n] = v.to - v.from
  <2>1. /\ t.nodes \in Seq(NodeSet(b.tails)) /\ NodesInv(b.tails, t.nodes)
        /\ NodeLens(t)[n] = v.to - v.from
    BY NodeLensAre
  <2> QED BY <2>1, NodeIs
<1>7. T \in Seq(Int) /\ Len(T) \in Nat
  BY <1>2, <1>6
<1> HIDE DEF v
<1>8. d \in 1..Len(T) /\ d <= v.to /\ j \in Nat
  <2>1. \A f, g, z \in Nat : \A i \in 1..(g - f) : g <= z => f + i \in 1..z /\ f + i <= g /\ i \in Nat
    OBVIOUS
  <2>2. j \in 1..(v.to - v.from)
    BY <1>6
  <2> QED BY <1>6, <1>7, <2>1, <2>2
<1>9. /\ W \in Seq(Int) /\ Len(W) = Len(w) + Len(T)
      /\ \A i \in 1..(Len(w) + Len(T)) : W[i] = IF i <= Len(w) THEN w[i] ELSE T[i - Len(w)]
  BY <1>2, <1>7, ConcatProperties
<1>10. Len(w) + v.from + j = Len(w) + d
  BY <1>2, <1>6, <1>8
<1> HIDE DEF W, d
<1> DEFINE L == Len(w)
           z == Len(T)
<1>11. L \in Nat /\ z \in Nat /\ d \in 1..z
  BY <1>2, <1>7, <1>8
<1>12. \A i \in 1..(L + z) : W[i] = IF i <= L THEN w[i] ELSE T[i - L]
  BY <1>9
<1>13. h \in Seq(Int) /\ Len(h) = L + d /\ \A i \in 1..(L + d) : h[i] = W[i]
  <2>1. L + d \in 0..Len(W)
    <3>1. Len(W) = L + z
      BY <1>9
    <3> HIDE DEF L, z
    <3> QED BY <1>11, <3>1
  <2>2. h = SubSeq(W, 1, L + d)
    BY <1>5, <1>10
  <2> HIDE DEF L
  <2>3. W \in Seq(Int)
    BY <1>9
  <2>4. /\ SubSeq(W, 1, L + d) \in Seq(Int) /\ Len(SubSeq(W, 1, L + d)) = L + d
        /\ \A i \in 1..(L + d) : SubSeq(W, 1, L + d)[i] = W[i]
    BY <2>1, <2>3, SubSeqIsStart
  <2> QED BY <2>2, <2>4
<1> HIDE DEF L, z
<1>14. \A i \in 1..L : h[i] = w[i]
  <2>1. \A i \in 1..L : i \in 1..(L + d) /\ i \in 1..(L + z) /\ i <= L
    BY <1>11
  <2> QED BY <1>12, <1>13, <2>1
<1>15. ASSUME NEW i \in 1..d PROVE h[L + i] = T[i]
  <2>1. L + i \in 1..(L + d) /\ L + i \in 1..(L + z) /\ ~(L + i <= L) /\ (L + i) - L = i
    BY <1>11
  <2> QED BY <1>12, <1>13, <2>1
<1>16. NodeRowIs(h, w, T, t.nodes[n], j)
  BY <1>8, <1>13, <1>14, <1>15 DEF d, v, L, NodeRowIs
<1> QED BY <1>4, <1>7, <1>8, <1>16 DEF d, v

\* A row's history starts with the block's cells.
StartsWith(h, w, n) == \A i \in 1..n : SubSeq(h, 1, i) = SubSeq(w, 1, i)

\* So its cells are columns that the row may see.
LEMMA StartsWithIs ==
  ASSUME NEW h \in Seq(Int), NEW w \in Seq(Int), NEW n \in Nat, n <= Len(h), n <= Len(w),
         \A i \in 1..n : h[i] = w[i]
  PROVE  StartsWith(h, w, n)
<1> SUFFICES ASSUME NEW i \in 1..n PROVE SubSeq(h, 1, i) = SubSeq(w, 1, i)
  BY DEF StartsWith
<1>1. i \in 0..Len(h) /\ i \in 0..Len(w) /\ \A x \in 1..i : x \in 1..n
  OBVIOUS
<1>2. /\ SubSeq(h, 1, i) \in Seq(Int) /\ Len(SubSeq(h, 1, i)) = i
      /\ \A x \in 1..i : SubSeq(h, 1, i)[x] = h[x]
  BY <1>1, SubSeqIsStart
<1>3. /\ SubSeq(w, 1, i) \in Seq(Int) /\ Len(SubSeq(w, 1, i)) = i
      /\ \A x \in 1..i : SubSeq(w, 1, i)[x] = w[x]
  BY <1>1, SubSeqIsStart
<1>4. \A x \in 1..i : SubSeq(h, 1, i)[x] = SubSeq(w, 1, i)[x]
  BY <1>1, <1>2, <1>3
<1> QED BY <1>2, <1>3, <1>4, SeqEqual

\* A row of the shared tokens sees its history.
LEMMA SharedSees ==
  ASSUME NEW b, NEW w, Sound(b, w), NEW t, TreeInv(b.tails, t),
         NEW row \in Nat, NEW c0 \in Nat, NEW C \in Nat, NEW l \in 1..Len(b.shared)
  PROVE  /\ Sees(Rows(b, t, row, c0, C), Histories(b, w, t), b.past_n, row, c0, C, l, 1..l)
         /\ StartsWith(Histories(b, w, t)[l], w, b.past_n)
<1> DEFINE hs == Histories(b, w, t)
           rows == Rows(b, t, row, c0, C)
           n0 == b.past_n
           A == [j \in 1..Len(b.shared) |-> SharedRow(b, row, c0, C, j)]
<1>1. /\ w \in Seq(Int) /\ n0 \in Nat /\ Len(b.shared) \in Nat /\ Len(w) = n0 + Len(b.shared)
      /\ b.shared_pos = n0
      /\ \A j \in 1..Len(b.shared) : b.shared[j] = w[n0 + j]
  <2>1. /\ w \in Seq(Int) /\ n0 \in Nat /\ b.shared \in Seq(Int) /\ Len(w) = n0 + Len(b.shared)
        /\ b.shared_pos = n0
    BY DEF Sound
  <2>2. \A j \in 1..Len(b.shared) : b.shared[j] = w[n0 + j]
    BY DEF Sound
  <2>3. Len(b.shared) \in Nat
    BY <2>1
  <2> HIDE DEF n0
  <2> QED BY <2>1, <2>2, <2>3
<1>2. \A m \in 1..l : m \in 1..Len(b.shared) /\ m \in Nat
  BY <1>1
<1>3. ASSUME NEW m \in 1..l
      PROVE  /\ hs[m] \in Seq(Int) /\ Len(hs[m]) = n0 + m /\ Len(hs[m]) <= Len(w)
             /\ \A i \in 1..Len(hs[m]) : hs[m][i] = w[i]
  <2> HIDE DEF hs
  <2>1. m \in 1..Len(b.shared) /\ m \in Nat
    BY <1>2
  <2>2. SharedIs(hs[m], w, n0 + m)
    BY <2>1, SharedHistoryIs DEF hs
  <2>3. n0 + m <= Len(w)
    BY <1>1, <2>1
  <2> QED BY <2>2, <2>3 DEF SharedIs
<1>4. rows[l] = SharedRow(b, row, c0, C, l)
  <2>1. rows[l] = A[l]
    <3>1. Len(A) = Len(b.shared)
      BY <1>1
    <3> DEFINE parts == [n \in DOMAIN t.nodes |->
                           [j \in 1..NodeLen(t.nodes[n]) |-> NodesRow(b, t, row, c0, C, n, j)]]
    <3>2. Placed(rows, A, t, parts)
      BY RowsArePlaced
    <3> HIDE DEF A, rows, parts
    <3> QED BY <3>1, <3>2 DEF Placed
  <2> HIDE DEF rows
  <2> QED BY <2>1
<1> HIDE DEF hs, rows
<1>5. l \in 1..l /\ l \in Nat /\ l >= 1
  BY <1>1
<1>6. rows[l].position = Len(hs[l]) /\ rows[l].token = hs[l][Len(hs[l])]
  <2>1. rows[l].position = n0 + l /\ rows[l].token = w[n0 + l]
    BY <1>1, <1>4 DEF SharedRow, Row
  <2>2. Len(hs[l]) = n0 + l /\ Len(hs[l]) \in 1..Len(hs[l])
    BY <1>1, <1>3, <1>5
  <2> QED BY <1>3, <1>5, <2>1, <2>2
<1>7. rows[l].looks = PastColumns(c0, n0) \union {C + row + m : m \in 1..l}
  <2>1. RowColumns(C, row, l) = {C + row + m : m \in 1..l}
    <3>1. \A x \in RowColumns(C, row, l) : x - (C + row) \in 1..l /\ x = C + row + (x - (C + row))
      BY <1>5 DEF RowColumns
    <3>2. \A m \in 1..l : C + row + m \in RowColumns(C, row, l)
      BY <1>5 DEF RowColumns
    <3> QED BY <3>1, <3>2
  <2> QED BY <1>4, <2>1 DEF SharedRow, Row
<1>8. ASSUME NEW m \in 1..l
      PROVE  Len(hs[m]) > n0 /\ Len(hs[m]) <= Len(hs[l]) /\ hs[m] = SubSeq(hs[l], 1, Len(hs[m]))
  <2>1. Len(hs[m]) = n0 + m /\ Len(hs[l]) = n0 + l /\ hs[m] \in Seq(Int) /\ hs[l] \in Seq(Int)
    BY <1>3, <1>5
  <2>2. Len(hs[m]) > n0 /\ Len(hs[m]) <= Len(hs[l])
    <3>1. \A x, y \in Nat : \A i \in 1..y : x + i > x /\ x + i <= x + y
      OBVIOUS
    <3> QED BY <1>1, <1>5, <2>1, <3>1
  <2>3. \A i \in 1..Len(hs[m]) : hs[m][i] = hs[l][i]
    <3>1. \A i \in 1..Len(hs[m]) : i \in 1..Len(hs[l])
      BY <1>1, <2>1
    <3> QED BY <1>3, <1>5, <3>1
  <2> QED BY <2>1, <2>2, <2>3, IsStart
<1>9. \A x \in (n0 + 1)..Len(hs[l]) : \E m \in 1..l : Len(hs[m]) = x
  <2> SUFFICES ASSUME NEW x \in (n0 + 1)..Len(hs[l]) PROVE \E m \in 1..l : Len(hs[m]) = x
    OBVIOUS
  <2>1. x \in (n0 + 1)..(n0 + l)
    BY <1>3, <1>5
  <2>2. x - n0 \in 1..l /\ n0 + (x - n0) = x
    BY <1>1, <2>1
  <2> QED BY <1>3, <2>2
<1>10. \A m, e \in 1..l : Len(hs[m]) = Len(hs[e]) => m = e
  BY <1>1, <1>3
<1>11. Sees(rows, hs, n0, row, c0, C, l, 1..l)
  BY <1>5, <1>6, <1>7, <1>8, <1>9, <1>10 DEF Sees
<1>12. StartsWith(hs[l], w, n0)
  <2>1. n0 <= Len(hs[l]) /\ n0 <= Len(w) /\ hs[l] \in Seq(Int)
    <3>1. hs[l] \in Seq(Int) /\ Len(hs[l]) = n0 + l /\ Len(hs[l]) <= Len(w)
      BY <1>3, <1>5
    <3>2. n0 \in Nat /\ Len(w) \in Nat
      BY <1>1
    <3> HIDE DEF n0
    <3> QED BY <1>5, <3>1, <3>2
  <2>2. \A i \in 1..n0 : hs[l][i] = w[i]
    <3>1. \A i \in 1..n0 : i \in 1..Len(hs[l])
      BY <1>1, <2>1
    <3> QED BY <1>3, <1>5, <3>1
  <2> QED BY <1>1, <2>1, <2>2, StartsWithIs
<1> QED BY <1>11, <1>12 DEF hs, rows

-----------------------------------------------------------------------------
(* Rows of questions see their histories *)

\* The columns of consecutive rows.
LEMMA RowColumnsAre ==
  ASSUME NEW C \in Nat, NEW p \in Nat, NEW n \in Nat
  PROVE  /\ \A c \in RowColumns(C, p, n) : \E x \in 1..n : c = C + p + x
         /\ \A x \in 1..n : C + p + x \in RowColumns(C, p, n)
<1>1. ASSUME NEW c \in RowColumns(C, p, n) PROVE \E x \in 1..n : c = C + p + x
  <2>1. c - (C + p) \in 1..n /\ c = C + p + (c - (C + p))
    BY DEF RowColumns
  <2> QED BY <2>1
<1>2. ASSUME NEW x \in 1..n PROVE C + p + x \in RowColumns(C, p, n)
  BY DEF RowColumns
<1> QED BY <1>1, <1>2

\* A row of a question's node sees its history: the cells, the shared tokens, the nodes above, its own.
LEMMA NodeSees ==
  ASSUME NEW b, NEW w, Sound(b, w), NEW t, TreeInv(b.tails, t), b.skip = Len(w),
         NEW row \in Nat, NEW c0 \in Nat, NEW C \in Nat,
         NEW n \in 1..Len(t.nodes), NEW j \in 1..NodeLens(t)[n],
         NEW l, l = Len(b.shared) + SumTo(NodeLens(t), n - 1) + j
  PROVE  /\ \E M : Sees(Rows(b, t, row, c0, C), Histories(b, w, t), b.past_n, row, c0, C, l, M)
         /\ StartsWith(Histories(b, w, t)[l], w, b.past_n)
<1> DEFINE hs == Histories(b, w, t)
           rows == Rows(b, t, row, c0, C)
           n0 == b.past_n
           S == Len(b.shared)
           L == Len(w)
           s == NodeLens(t)
           nodes == t.nodes
           N == Len(nodes)
           v == nodes[n]
           d == v.from + j
           at(a) == S + SumTo(s, a - 1)
           up == Chain(t, v.parent)
           A == [i \in 1..S |-> SharedRow(b, row, c0, C, i)]
           parts == [m \in DOMAIN t.nodes |->
                       [i \in 1..NodeLen(t.nodes[m]) |-> NodesRow(b, t, row, c0, C, m, i)]]
\* Row x of node a, one of those this row sees.
<1> DEFINE Mine(a, x, m) == (a # n \/ x <= j) /\ m = at(a) + x
           M == {m \in 1..l : m \in 1..S \/ \E a \in Chain(t, n) : \E x \in 1..s[a] : Mine(a, x, m)}
<1>1. /\ w \in Seq(Int) /\ n0 \in Nat /\ S \in Nat /\ L = n0 + S /\ L \in Nat
  BY DEF Sound
<1>2. /\ nodes \in Seq(NodeSet(b.tails)) /\ NodesInv(b.tails, nodes) /\ N \in Nat
      /\ s \in [1..N -> Nat]
      /\ \A m \in 1..N : s[m] = nodes[m].to - nodes[m].from
  BY NodeLensAre
<1>3. \A a \in 1..N : /\ at(a) \in Nat /\ SumTo(s, a - 1) \in Nat
                      /\ nodes[a].from \in Nat /\ nodes[a].to \in Nat /\ nodes[a].from < nodes[a].to
                      /\ nodes[a].prompt \in DOMAIN b.tails
  <2> SUFFICES ASSUME NEW a \in 1..N
               PROVE  /\ at(a) \in Nat /\ SumTo(s, a - 1) \in Nat
                      /\ nodes[a].from \in Nat /\ nodes[a].to \in Nat /\ nodes[a].from < nodes[a].to
                      /\ nodes[a].prompt \in DOMAIN b.tails
    OBVIOUS
  <2>1. a - 1 \in 0..N
    BY <1>2
  <2>2. SumTo(s, a - 1) \in Nat
    BY <1>2, <2>1, Sums
  <2>3. /\ nodes[a].from \in Nat /\ nodes[a].to \in Nat /\ nodes[a].from < nodes[a].to
        /\ nodes[a].prompt \in DOMAIN b.tails
    BY <1>2, NodeIs
  <2>4. at(a) \in Nat
    <3>1. S \in Nat
      BY <1>1
    <3> HIDE DEF S, s
    <3> QED BY <2>2, <3>1
  <2> QED BY <2>2, <2>3, <2>4
<1>4. n \in 1..N /\ j \in 1..s[n] /\ j \in Nat /\ j >= 1 /\ l = at(n) + j /\ s[n] \in Nat
  BY <1>2
<1>5. /\ Above(b.tails, t, n, v.prompt, v.to)
      /\ \A a \in up : a \in 1..N /\ a < n /\ nodes[a].to <= v.from
      /\ Chain(t, n) = {n} \union up
  <2>1. /\ v.parent \in 0..(n - 1) /\ v.from \in Nat
        /\ Reaches(b.tails, nodes, v.parent, v.prompt, v.from)
    BY <1>2, NodeIs
  <2>2. v.parent \in 0..N
    BY <1>2, <2>1
  <2>3. Above(b.tails, t, v.parent, v.prompt, v.from)
    BY <1>2, <2>1, <2>2, AboveIs
  <2>4. ReadsOn(b.tails, t, n, v)
    BY <1>2, <2>3, AboveNode
  <2> QED BY <2>4 DEF ReadsOn
<1>6. ASSUME NEW m \in 1..S
      PROVE  SharedIs(hs[m], w, n0 + m) /\ m \in Nat
  <2>1. SharedIs(hs[m], w, n0 + m)
    BY SharedHistoryIs
  <2> HIDE DEF S, n0
  <2> QED BY <1>1, <2>1
<1>60. ASSUME NEW a \in 1..N, NEW x \in 1..s[a], NEW m, m = at(a) + x
       PROVE  NodeRowIs(hs[m], w, b.tails[nodes[a].prompt], nodes[a], x)
  BY <1>60, NodeHistoryIs
<1>7. rows[l] = NodesRow(b, t, row, c0, C, n, j)
  <2>1. Placed(rows, A, t, parts)
    BY RowsArePlaced
  <2>2. Len(A) = S
    BY <1>1
  <2>3. parts[n][j] = NodesRow(b, t, row, c0, C, n, j)
    <3>1. n \in DOMAIN t.nodes /\ NodeLen(t.nodes[n]) = s[n]
      BY <1>2, <1>4 DEF NodeLens
    <3>2. parts[n] = [i \in 1..NodeLen(t.nodes[n]) |-> NodesRow(b, t, row, c0, C, n, i)]
      BY <3>1
    <3> HIDE DEF parts
    <3> QED BY <1>4, <3>1, <3>2
  <2> HIDE DEF parts, A, rows
  <2>4. rows[l] = parts[n][j]
    BY <1>4, <2>1, <2>2 DEF Placed
  <2> QED BY <2>3, <2>4
<1> HIDE DEF hs, rows, A, parts, n0, S, L, s, nodes, N, up
\* What the row itself is.
<1>61. NodeRowIs(hs[l], w, b.tails[v.prompt], v, j) /\ v.from \in Nat /\ v.to \in Nat
  <2>1. NodeRowIs(hs[l], w, b.tails[nodes[n].prompt], nodes[n], j)
    BY <1>4, <1>60
  <2>2. nodes[n].from \in Nat /\ nodes[n].to \in Nat
    BY <1>3, <1>4
  <2> QED BY <2>1, <2>2 DEF v, nodes
<1> HIDE DEF v, d
<1>8. d \in Nat /\ d >= 1 /\ d <= v.to /\ d > v.from /\ v.from \in Nat /\ v.to \in Nat
  <2>1. v.from + j <= v.to
    BY <1>61 DEF NodeRowIs
  <2> QED BY <1>4, <1>61, <2>1 DEF d
<1>9. /\ hs[l] \in Seq(Int) /\ Len(hs[l]) = L + d
      /\ \A i \in 1..L : hs[l][i] = w[i]
      /\ \A i \in 1..d : hs[l][L + i] = b.tails[v.prompt][i]
  BY <1>61 DEF NodeRowIs, L, d
<1>10. rows[l].position = Len(hs[l]) /\ rows[l].token = hs[l][Len(hs[l])]
  <2>1. rows[l].position = L + v.from + j /\ rows[l].token = b.tails[v.prompt][d]
    BY <1>7 DEF NodesRow, Row, v, L, nodes, d
  <2>2. L + v.from + j = L + d /\ d \in 1..d
    BY <1>1, <1>4, <1>8, <1>61 DEF d
  <2> QED BY <1>9, <2>1, <2>2
<1> HIDE DEF at
\* What it sees.
<1>62. ASSUME NEW a \in 1..N, NEW x \in 1..s[a]
       PROVE  nodes[a].from + x <= nodes[a].to /\ nodes[a].from < nodes[a].from + x
  <2>1. NodeRowIs(hs[at(a) + x], w, b.tails[nodes[a].prompt], nodes[a], x)
    BY <1>60
  <2>2. nodes[a].from + x <= nodes[a].to
    BY <2>1 DEF NodeRowIs
  <2>3. nodes[a].from \in Nat /\ s[a] \in Nat
    BY <1>2, <1>3
  <2> QED BY <2>2, <2>3
<1>11. ASSUME NEW a \in Chain(t, n), NEW x \in 1..s[a], a # n \/ x <= j
       PROVE  /\ a \in 1..N /\ at(a) + x \in 1..l
              /\ nodes[a].from + x <= d
              /\ Covers(t, a, nodes[a].from + x)
              /\ \A i \in 1..(nodes[a].from + x) : b.tails[nodes[a].prompt][i] = b.tails[v.prompt][i]
  <2>1. a \in 1..N /\ x \in Nat /\ x >= 1 /\ at(a) \in Nat /\ at(n) \in Nat
    <3>1. a \in 1..N
      BY <1>4, <1>5
    <3>2. s[a] \in Nat
      BY <1>2, <3>1
    <3> QED BY <1>3, <1>4, <3>1, <3>2
  <2>2. CASE a = n
    <3>1. x <= j /\ at(n) + x \in 1..l
      <4>1. \A p, y, z \in Nat : y >= 1 /\ y <= z => p + y \in 1..(p + z)
        OBVIOUS
      <4>2. x <= j
        BY <1>11, <2>2
      <4> HIDE DEF at
      <4> QED BY <1>4, <2>1, <4>1, <4>2
    <3>2. nodes[a].from + x <= d
      <4>1. nodes[a].from = v.from
        BY <2>2 DEF v, nodes
      <4> QED BY <1>4, <1>61, <2>1, <3>1, <4>1 DEF d
    <3>3. nodes[a].from + x <= nodes[a].to /\ nodes[a].from < nodes[a].from + x
      BY <1>62, <2>1
    <3> QED BY <2>1, <2>2, <3>1, <3>2, <3>3 DEF Covers, nodes, v
  <2>3. CASE a \in up
    <3>1. a < n /\ nodes[a].to <= v.from
      BY <1>5, <2>3
    <3>2. at(a) + x \in 1..l
      <4>1. a - 1 \in 0..N /\ a \in 0..N /\ n - 1 \in 0..N /\ a <= n - 1
        <5>1. N \in Nat /\ n \in 1..N /\ a \in 1..N /\ a < n
          BY <1>2, <1>4, <2>1, <3>1
        <5> QED BY <5>1
      <4>2. SumTo(s, a) = SumTo(s, a - 1) + s[a]
        BY <1>2, <2>1, Sums
      <4>3. SumTo(s, a) <= SumTo(s, n - 1)
        BY <1>2, <4>1, SumsGrow
      <4>4. SumTo(s, a) \in Nat /\ SumTo(s, a - 1) \in Nat /\ SumTo(s, n - 1) \in Nat /\ s[a] \in Nat
        BY <1>2, <2>1, <4>1, Sums
      <4>5. SumTo(s, a - 1) + x <= SumTo(s, n - 1)
        BY <2>1, <4>2, <4>3, <4>4
      <4>6. at(a) = S + SumTo(s, a - 1) /\ at(n) = S + SumTo(s, n - 1)
        BY DEF at
      <4>7. \A p, q, u \in Nat : \A y, z \in Nat : y >= 1 /\ q + y <= u => p + q + y \in 1..(p + u + z)
        OBVIOUS
      <4>8. S + SumTo(s, a - 1) + x \in 1..(S + SumTo(s, n - 1) + j)
        BY <1>1, <1>4, <2>1, <4>4, <4>5, <4>7
      <4> QED BY <1>4, <4>6, <4>8
    <3>3. nodes[a].from + x <= nodes[a].to /\ nodes[a].from < nodes[a].from + x
      BY <1>62, <2>1
    <3>4. nodes[a].from + x <= d
      <4>1. nodes[a].from \in Nat /\ nodes[a].to \in Nat
        BY <1>3, <2>1
      <4>2. \A p, q, u, z \in Nat : p <= q /\ q <= u /\ z > u => p <= z
        OBVIOUS
      <4>3. nodes[a].from + x \in Nat
        <5>1. x \in Nat
          BY <2>1
        <5>2. \A p, q \in Nat : p + q \in Nat
          OBVIOUS
        <5> HIDE DEF nodes
        <5> QED BY ONLY <4>1, <5>1, <5>2
      <4> QED BY <1>8, <3>1, <3>3, <4>1, <4>2, <4>3
    <3>5. \A i \in 1..nodes[a].to : b.tails[nodes[a].prompt][i] = b.tails[v.prompt][i]
      BY <1>5 DEF Above, nodes
    <3>6. \A i \in 1..(nodes[a].from + x) : i \in 1..nodes[a].to
      <4>1. \A p, q \in Nat : p <= q => \A i \in 1..p : i \in 1..q
        OBVIOUS
      <4>2. nodes[a].from \in Nat /\ nodes[a].to \in Nat
        BY <1>3, <2>1
      <4>3. nodes[a].from + x \in Nat
        <5>1. x \in Nat
          BY <2>1
        <5>2. \A p, q \in Nat : p + q \in Nat
          OBVIOUS
        <5> HIDE DEF nodes
        <5> QED BY ONLY <4>2, <5>1, <5>2
      <4> QED BY <3>3, <4>1, <4>2, <4>3
    <3> QED BY <2>1, <3>2, <3>3, <3>4, <3>5, <3>6 DEF Covers, nodes
  <2> QED BY <1>5, <2>2, <2>3
<1>12. 1..S \subseteq M
  <2>1. S <= l
    <3>1. at(n) \in Nat /\ SumTo(s, n - 1) \in Nat
      BY <1>3, <1>4
    <3>2. l = S + SumTo(s, n - 1) + j
      BY <1>4 DEF at
    <3> QED BY <1>1, <1>4, <3>1, <3>2
  <2>2. \A m \in 1..S : m \in 1..l
    <3>1. l \in Nat
      BY <1>3, <1>4
    <3> QED BY <1>1, <2>1, <3>1
  <2> QED BY <2>2
<1>13. ASSUME NEW a \in Chain(t, n), NEW x \in 1..s[a], a # n \/ x <= j
       PROVE  at(a) + x \in M
  BY <1>11, <1>13
<1>14. ASSUME NEW m \in M
       PROVE  m \in 1..S \/ \E a \in Chain(t, n) : \E x \in 1..s[a] : Mine(a, x, m)
  OBVIOUS
<1>15. M \subseteq 1..l /\ l \in M
  <2>1. n \in Chain(t, n) /\ j <= j
    BY <1>4, <1>5
  <2> QED BY <1>4, <1>13, <2>1
<1> HIDE DEF M
<1>16. ASSUME NEW m \in 1..S
       PROVE  /\ Len(hs[m]) > n0 /\ Len(hs[m]) <= L /\ Len(hs[m]) <= Len(hs[l])
              /\ hs[m] = SubSeq(hs[l], 1, Len(hs[m]))
  <2>1. Len(hs[m]) > n0 /\ Len(hs[m]) <= L /\ Len(hs[m]) <= Len(hs[l]) /\ Len(hs[m]) \in Nat
    <3>1. Len(hs[m]) = n0 + m /\ Len(hs[l]) = L + d
      BY <1>6, <1>9 DEF SharedIs
    <3>2. \A p, q, z \in Nat : \A y \in 1..q : /\ p + y > p /\ p + y <= p + q /\ p + y <= (p + q) + z
                                               /\ p + y \in Nat
      OBVIOUS
    <3> QED BY <1>1, <1>8, <3>1, <3>2
  <2>2. hs[m] \in Seq(Int) /\ \A i \in 1..Len(hs[m]) : hs[m][i] = w[i]
    BY <1>6 DEF SharedIs
  <2>3. \A i \in 1..Len(hs[m]) : hs[m][i] = hs[l][i]
    <3>1. \A i \in 1..Len(hs[m]) : i \in 1..L
      BY <1>1, <2>1
    <3> QED BY <1>9, <2>2, <3>1
  <2> QED BY <1>9, <2>1, <2>2, <2>3, IsStart
<1>17. ASSUME NEW a \in Chain(t, n), NEW x \in 1..s[a], a # n \/ x <= j, NEW m, m = at(a) + x
       PROVE  /\ Len(hs[m]) = L + (nodes[a].from + x) /\ Len(hs[m]) > L /\ Len(hs[m]) > n0
              /\ Len(hs[m]) <= Len(hs[l])
              /\ hs[m] = SubSeq(hs[l], 1, Len(hs[m]))
  <2> DEFINE e == nodes[a].from + x
  <2>1. /\ a \in 1..N /\ e <= d
        /\ \A i \in 1..e : b.tails[nodes[a].prompt][i] = b.tails[v.prompt][i]
    BY <1>11, <1>17
  <2>2. /\ hs[m] \in Seq(Int) /\ Len(hs[m]) = L + e
        /\ \A i \in 1..L : hs[m][i] = w[i]
        /\ \A i \in 1..e : hs[m][L + i] = b.tails[nodes[a].prompt][i]
    <3>1. NodeRowIs(hs[m], w, b.tails[nodes[a].prompt], nodes[a], x)
      BY <1>17, <1>60, <2>1
    <3> QED BY <3>1 DEF NodeRowIs, L
  <2>3. e \in Nat /\ e >= 1
    <3>1. s[a] \in Nat /\ nodes[a].from \in Nat
      BY <1>2, <1>3, <2>1
    <3> QED BY <3>1
  <2> HIDE DEF e
  <2>4. Len(hs[m]) > L /\ Len(hs[m]) > n0 /\ Len(hs[m]) <= Len(hs[l])
    <3>1. Len(hs[m]) = L + e /\ Len(hs[l]) = L + d /\ L = n0 + S /\ L \in Nat
      BY <1>1, <1>9, <2>2
    <3>2. \A y, z, p, q \in Nat : y <= z /\ p >= 1 /\ p <= q => z + p > z /\ z + p > y /\ z + p <= z + q
      OBVIOUS
    <3>3. n0 <= L /\ n0 \in Nat
      BY <1>1
    <3>4. L + e > L /\ L + e > n0 /\ L + e <= L + d
      BY <1>8, <2>1, <2>3, <3>1, <3>2, <3>3
    <3> QED BY <3>1, <3>4
  <2>5. ASSUME NEW i \in 1..Len(hs[m]) PROVE hs[m][i] = hs[l][i]
    <3>1. CASE i <= L
      <4>1. i \in 1..L
        BY <1>1, <2>2, <2>3, <3>1
      <4> QED BY <1>9, <2>2, <4>1
    <3>2. CASE ~(i <= L)
      <4>1. i - L \in 1..e /\ i - L \in 1..d /\ L + (i - L) = i
        <5>1. Len(hs[m]) = L + e /\ L \in Nat
          BY <1>1, <2>2
        <5> QED BY <1>8, <2>1, <2>3, <3>2, <5>1
      <4>2. hs[m][L + (i - L)] = b.tails[v.prompt][i - L]
        BY <2>1, <2>2, <4>1
      <4>3. hs[l][L + (i - L)] = b.tails[v.prompt][i - L]
        BY <1>9, <4>1
      <4> QED BY <4>1, <4>2, <4>3
    <3> QED BY <3>1, <3>2
  <2>6. hs[m] = SubSeq(hs[l], 1, Len(hs[m]))
    BY <1>9, <2>2, <2>4, <2>5, IsStart
  <2> QED BY <2>2, <2>4, <2>6 DEF e
<1>18. ASSUME NEW m \in M
       PROVE  Len(hs[m]) > n0 /\ Len(hs[m]) <= Len(hs[l]) /\ hs[m] = SubSeq(hs[l], 1, Len(hs[m]))
  <2>1. CASE m \in 1..S
    BY <1>16, <2>1
  <2>2. CASE m \notin 1..S
    <3>1. PICK a \in Chain(t, n) : \E x \in 1..s[a] : Mine(a, x, m)
      BY <1>14, <2>2
    <3> QED BY <1>17, <3>1
  <2> QED BY <2>1, <2>2
<1>19. ASSUME NEW x \in (n0 + 1)..Len(hs[l]) PROVE \E m \in M : Len(hs[m]) = x
  <2>1. CASE x <= L
    <3>1. x - n0 \in 1..S /\ n0 + (x - n0) = x
      BY <1>1, <2>1
    <3>2. Len(hs[x - n0]) = n0 + (x - n0)
      BY <1>6, <3>1 DEF SharedIs
    <3> QED BY <1>12, <3>1, <3>2
  <2>2. CASE ~(x <= L)
    <3> DEFINE y == x - L
    <3>1. y \in 1..d /\ L + y = x
      BY <1>1, <1>8, <1>9, <2>2
    <3> HIDE DEF y
    <3>2. y \in 1..v.to /\ y \in Nat
      BY <1>8, <3>1
    <3>3. PICK a \in Chain(t, n) : Covers(t, a, y)
      BY <1>5, <3>2 DEF Above
    <3>4. a \in 1..N
      BY <1>4, <1>5
    <3>5. nodes[a].from < y /\ y <= nodes[a].to /\ nodes[a].from \in Nat /\ s[a] = nodes[a].to - nodes[a].from
          /\ nodes[a].to \in Nat
      BY <1>2, <1>3, <3>3, <3>4 DEF Covers, nodes
    <3>6. y - nodes[a].from \in 1..s[a] /\ nodes[a].from + (y - nodes[a].from) = y
      <4>1. \A f, g \in Nat, z \in Nat : f < z /\ z <= g => z - f \in 1..(g - f) /\ f + (z - f) = z
        OBVIOUS
      <4> QED BY <3>2, <3>5, <4>1
    <3>7. a # n \/ y - nodes[a].from <= j
      <4>1. a = n => nodes[a].from = v.from
        BY DEF v
      <4> QED BY <1>4, <1>8, <3>1, <3>5, <4>1 DEF d
    <3>8. at(a) + (y - nodes[a].from) \in M
      BY <1>13, <3>6, <3>7
    <3>9. Len(hs[at(a) + (y - nodes[a].from)]) = L + (nodes[a].from + (y - nodes[a].from))
      <4> DEFINE z == y - nodes[a].from
      <4>1. z \in 1..s[a] /\ (a # n \/ z <= j)
        BY <3>6, <3>7
      <4> HIDE DEF z, at
      <4>2. Len(hs[at(a) + z]) = L + (nodes[a].from + z)
        BY <1>17, <4>1
      <4> QED BY <4>2 DEF z
    <3> QED BY <3>1, <3>6, <3>8, <3>9
  <2> QED BY <2>1, <2>2
<1>20. ASSUME NEW m \in M, NEW e \in M, Len(hs[m]) = Len(hs[e]) PROVE m = e
  <2> DEFINE Is(z, a, x) == /\ z = at(a) + x /\ a \in 1..N /\ x \in Nat
                            /\ Len(hs[z]) = L + (nodes[a].from + x) /\ Len(hs[z]) > L
                            /\ nodes[a].from + x \in 1..v.to /\ Covers(t, a, nodes[a].from + x)
  <2>1. ASSUME NEW z \in M, z \notin 1..S
        PROVE  \E a \in Chain(t, n) : \E x \in 1..s[a] : Is(z, a, x) /\ Len(hs[z]) > L
    <3>0. PICK a \in Chain(t, n) : \E x \in 1..s[a] : Mine(a, x, z)
      BY <1>14, <2>1
    <3>1. PICK x \in 1..s[a] : Mine(a, x, z)
      BY <3>0
    <3>2. Len(hs[z]) = L + (nodes[a].from + x) /\ Len(hs[z]) > L
      BY <1>17, <3>1
    <3>3. a \in 1..N /\ nodes[a].from + x <= d /\ Covers(t, a, nodes[a].from + x)
      BY <1>11, <3>1
    <3>4. nodes[a].from \in Nat /\ s[a] \in Nat
      BY <1>2, <1>3, <3>3
    <3>5. x \in Nat /\ nodes[a].from + x \in 1..v.to
      <4>1. x \in Nat /\ x >= 1
        BY <3>4
      <4>2. \A f, u, y \in Nat : u >= 1 /\ y <= d /\ y = f + u => y \in 1..v.to
        BY <1>8
      <4>3. nodes[a].from + x \in Nat
        BY <3>4, <4>1
      <4> QED BY <3>3, <3>4, <4>1, <4>2, <4>3
    <3> QED BY <3>1, <3>2, <3>3, <3>5
  <2>2. CASE m \in 1..S /\ e \in 1..S
    <3>1. n0 + m = n0 + e
      BY <1>6, <1>20, <2>2 DEF SharedIs
    <3> QED BY <1>1, <2>2, <3>1
  <2>3. CASE m \in 1..S /\ e \notin 1..S
    <3>1. Len(hs[m]) <= L /\ Len(hs[e]) > L
      BY <1>16, <2>1, <2>3
    <3>2. Len(hs[m]) \in Nat
      BY <1>1, <1>6, <2>3 DEF SharedIs
    <3> QED BY <1>1, <1>20, <3>1, <3>2
  <2>4. CASE m \notin 1..S /\ e \in 1..S
    <3>1. Len(hs[e]) <= L /\ Len(hs[m]) > L
      BY <1>16, <2>1, <2>4
    <3>2. Len(hs[e]) \in Nat
      BY <1>1, <1>6, <2>4 DEF SharedIs
    <3> QED BY <1>1, <1>20, <3>1, <3>2
  <2>5. CASE m \notin 1..S /\ e \notin 1..S
    <3>9. PICK a \in Chain(t, n) : \E x \in 1..s[a] : Is(m, a, x)
      <4> HIDE DEF Is, s, M
      <4> QED BY <2>1, <2>5
    <3>10. PICK c \in Chain(t, n) : \E y \in 1..s[c] : Is(e, c, y)
      <4> HIDE DEF Is, s, M
      <4> QED BY <2>1, <2>5
    <3>1. PICK x \in 1..s[a] : Is(m, a, x)
      BY <3>9
    <3>2. PICK y \in 1..s[c] : Is(e, c, y)
      BY <3>10
    <3>3. nodes[a].from + x = nodes[c].from + y
      <4>1. nodes[a].from \in Nat /\ nodes[c].from \in Nat
        BY <1>3, <3>1, <3>2
      <4>2. L + (nodes[a].from + x) = L + (nodes[c].from + y) /\ x \in Nat /\ y \in Nat
        BY <1>20, <3>1, <3>2
      <4>3. \A p, q, z \in Nat : p + q = p + z => q = z
        OBVIOUS
      <4>4. nodes[a].from + x \in Nat /\ nodes[c].from + y \in Nat
        <5>1. \A f, u \in Nat : f + u \in Nat
          OBVIOUS
        <5> QED BY <4>1, <4>2, <5>1
      <4> QED BY <1>1, <4>2, <4>3, <4>4
    <3>4. a = c
      BY <1>5, <3>1, <3>2, <3>3 DEF Above
    <3>5. x = y
      <4>1. nodes[a].from \in Nat
        BY <1>3, <3>1
      <4> QED BY <3>1, <3>2, <3>3, <3>4, <4>1
    <3> QED BY <3>1, <3>2, <3>4, <3>5
  <2> QED BY <2>2, <2>3, <2>4, <2>5
<1>21. rows[l].looks = PastColumns(c0, n0) \union {C + row + m : m \in M}
  <2> DEFINE Own(a, x) == C + (row + S + SumTo(s, a - 1)) + x
             above == UNION {RowColumns(C, NodeRow(t, row + S, a), NodeLen(t.nodes[a])) : a \in up}
             mine == RowColumns(C, NodeRow(t, row + S, n), j)
  <2>1. rows[l].looks = PastColumns(c0, n0) \union RowColumns(C, row, S) \union above \union mine
    BY <1>7 DEF NodesRow, Row, n0, S, up, v, nodes
  <2>2. \A a \in 1..N : /\ NodeRow(t, row + S, a) = row + S + SumTo(s, a - 1)
                         /\ NodeLen(t.nodes[a]) = s[a] /\ s[a] \in Nat
                         /\ SumTo(s, a - 1) \in Nat
    <3>1. \A a \in 1..N : NodeLen(t.nodes[a]) = s[a]
      BY <1>2 DEF s, NodeLens, nodes
    <3> QED BY <1>2, <1>3, <3>1 DEF NodeRow, s, NodeLens
  <2>4. ASSUME NEW a \in 1..N, NEW x \in Nat
        PROVE  /\ C + (row + S + SumTo(s, a - 1)) + x = C + row + (at(a) + x)
               /\ row + S + SumTo(s, a - 1) \in Nat
    <3>1. SumTo(s, a - 1) \in Nat /\ at(a) = S + SumTo(s, a - 1)
      BY <2>2 DEF at
    <3>2. \A p, q, z \in Nat : C + (row + p + q) + z = C + row + ((p + q) + z) /\ row + p + q \in Nat
      <4>1. C \in Nat /\ row \in Nat
        OBVIOUS
      <4>2. \A y, r, p, q, z \in Nat : /\ y + (r + p + q) + z = y + r + ((p + q) + z)
                                        /\ r + p + q \in Nat
        OBVIOUS
      <4> QED BY ONLY <4>1, <4>2
    <3>3. S \in Nat
      BY <1>1
    <3>4. x \in Nat
      BY <2>4
    <3> HIDE DEF S, s, at
    <3> QED BY ONLY <3>1, <3>2, <3>3, <3>4
  <2>5. ASSUME NEW c \in RowColumns(C, row, S) PROVE c \in {C + row + m : m \in M}
    <3>1. \E x \in 1..S : c = C + row + x
      <4>1. c - (C + row) \in 1..S /\ c = C + row + (c - (C + row))
        BY <1>1 DEF RowColumns
      <4> QED BY <4>1
    <3> QED BY <1>12, <3>1
  <2>6. ASSUME NEW c \in above PROVE c \in {C + row + m : m \in M}
    <3>1. PICK a \in up : c \in RowColumns(C, NodeRow(t, row + S, a), NodeLen(t.nodes[a]))
      OBVIOUS
    <3>2. a \in 1..N /\ a # n /\ a \in Chain(t, n)
      BY <1>4, <1>5
    <3>3. PICK x \in 1..s[a] : c = C + (row + S + SumTo(s, a - 1)) + x
      <4>1. row + S + SumTo(s, a - 1) \in Nat
        BY <2>4, <3>2
      <4>2. c \in RowColumns(C, row + S + SumTo(s, a - 1), s[a]) /\ s[a] \in Nat
        BY <2>2, <3>1, <3>2
      <4> QED BY <4>1, <4>2, RowColumnsAre
    <3>4. x \in Nat
      BY <2>2, <3>2
    <3>5. at(a) + x \in M
      BY <1>13, <3>2
    <3> QED BY <2>4, <3>2, <3>3, <3>4, <3>5
  <2>7. ASSUME NEW c \in mine PROVE c \in {C + row + m : m \in M}
    <3>1. PICK x \in 1..j : c = C + (row + S + SumTo(s, n - 1)) + x
      <4>1. row + S + SumTo(s, n - 1) \in Nat
        BY <1>4, <2>4
      <4>2. c \in RowColumns(C, row + S + SumTo(s, n - 1), j)
        BY <1>4, <2>2
      <4>3. j \in Nat /\ C \in Nat
        BY <1>4
      <4>4. \A p \in Nat : \A c1 \in RowColumns(C, p, j) : \E x \in 1..j : c1 = C + p + x
        BY ONLY <4>3, RowColumnsAre
      <4> HIDE DEF S, s
      <4> QED BY ONLY <4>1, <4>2, <4>4
    <3>2. x \in Nat /\ x <= j /\ x \in 1..s[n] /\ n \in Chain(t, n)
      BY <1>4, <1>5
    <3>3. at(n) + x \in M
      BY <1>13, <3>2
    <3> QED BY <1>4, <2>4, <3>1, <3>2, <3>3
  <2>8. ASSUME NEW m \in M PROVE C + row + m \in RowColumns(C, row, S) \union above \union mine
    <3>1. CASE m \in 1..S
      BY <1>1, <3>1, RowColumnsAre
    <3>2. CASE m \notin 1..S
      <4>0. PICK a \in Chain(t, n) : \E x \in 1..s[a] : Mine(a, x, m)
        BY <1>14, <3>2
      <4>1. PICK x \in 1..s[a] : Mine(a, x, m)
        BY <4>0
      <4>2. a \in 1..N
        BY <1>4, <1>5
      <4>3. x \in Nat /\ row + S + SumTo(s, a - 1) \in Nat
        <5>1. s[a] \in Nat
          BY <2>2, <4>2
        <5>2. x \in Nat
          BY <4>1, <5>1
        <5> QED BY <2>4, <4>2, <5>2
      <4>4. C + row + m = C + (row + S + SumTo(s, a - 1)) + x
        BY <2>4, <4>1, <4>2, <4>3
      <4>5. CASE a = n
        <5>1. x \in 1..j
          BY <1>4, <4>1, <4>3, <4>5
        <5>2. C + row + m \in RowColumns(C, row + S + SumTo(s, n - 1), j)
          BY <1>4, <4>3, <4>4, <4>5, <5>1, RowColumnsAre
        <5> QED BY <1>4, <2>2, <5>2
      <4>6. CASE a \in up
        <5>1. C + row + m \in RowColumns(C, row + S + SumTo(s, a - 1), s[a])
          BY <2>2, <4>1, <4>2, <4>3, <4>4, RowColumnsAre
        <5>2. C + row + m \in RowColumns(C, NodeRow(t, row + S, a), NodeLen(t.nodes[a]))
          BY <2>2, <4>2, <5>1
        <5> QED BY <4>6, <5>2
      <4> QED BY <1>5, <4>5, <4>6
    <3> QED BY <3>1, <3>2
  <2> HIDE DEF above, mine
  <2> QED BY <2>1, <2>5, <2>6, <2>7, <2>8
<1>22. Sees(rows, hs, n0, row, c0, C, l, M)
  BY <1>10, <1>15, <1>18, <1>19, <1>20, <1>21 DEF Sees
<1>23. StartsWith(hs[l], w, n0)
  <2>1. n0 <= Len(hs[l]) /\ n0 <= Len(w) /\ hs[l] \in Seq(Int) /\ \A i \in 1..n0 : i \in 1..L
    BY <1>1, <1>8, <1>9 DEF L
  <2>2. \A i \in 1..n0 : hs[l][i] = w[i]
    BY <1>9, <2>1
  <2> QED BY <1>1, <2>1, <2>2, StartsWithIs
<1> QED BY <1>22, <1>23 DEF hs, rows, n0

-----------------------------------------------------------------------------
(* All rows of a block see their histories *)

\* Row l of a block that reads w sees what its history is made of.
Knows(rows, hs, w, n0, row, c0, C, l) ==
  (\E M : Sees(rows, hs, n0, row, c0, C, l, M)) /\ StartsWith(hs[l], w, n0)

\* Every row of a block does.
LEMMA BlockSees ==
  ASSUME NEW b, NEW w, Sound(b, w), NEW t, TreeInv(b.tails, t),
         NEW row \in Nat, NEW c0 \in Nat, NEW C \in Nat, NEW l \in 1..Len(Histories(b, w, t))
  PROVE  Knows(Rows(b, t, row, c0, C), Histories(b, w, t), w, b.past_n, row, c0, C, l)
<1> DEFINE S == Len(b.shared)
           s == NodeLens(t)
           N == Len(t.nodes)
<1>1. Placed(Histories(b, w, t), SharedHistories(b, w), t, NodeHistories(b, w, t))
  BY HistoriesAre
<1>2. S \in Nat
  BY DEF Sound
<1>3. Len(SharedHistories(b, w)) = S
  BY <1>2 DEF SharedHistories
<1>4. Len(Histories(b, w, t)) = S + t.tokens
  BY <1>1, <1>3 DEF Placed
<1>5. /\ t.nodes \in Seq(NodeSet(b.tails)) /\ NodesInv(b.tails, t.nodes) /\ N \in Nat
      /\ s \in [1..N -> Nat] /\ SumTo(s, N) = t.tokens /\ t.tokens \in Nat
  BY NodeLensAre
<1>6. CASE l \in 1..S
  BY <1>6, SharedSees DEF Knows
<1>7. CASE l \notin 1..S
  <2>1. l - S \in 1..t.tokens /\ S + (l - S) = l
    BY <1>2, <1>4, <1>5, <1>7
  <2> DEFINE x == l - S
  <2>2. x \in 1..SumTo(s, N)
    BY <1>5, <2>1
  <2> HIDE DEF x, s, N
  <2>3. PICK n \in 1..N : x - SumTo(s, n - 1) \in 1..s[n]
    BY <1>5, <2>2, PlaceInSum
  <2> DEFINE j == x - SumTo(s, n - 1)
  <2>4. j \in 1..s[n] /\ l = S + SumTo(s, n - 1) + j
    <3>1. n - 1 \in 0..N
      BY <1>5
    <3>2. SumTo(s, n - 1) \in Nat /\ x \in Nat
      <4>1. SumTo(s, n - 1) \in Nat
        BY <1>5, <3>1, Sums
      <4>2. SumTo(s, N) \in Nat
        BY <1>5
      <4> QED BY <2>2, <4>1, <4>2
    <3>3. S + x = l
      BY <2>1 DEF x
    <3> HIDE DEF S
    <3> QED BY <1>2, <2>3, <3>2, <3>3
  <2>5. b.tails # <<>>
    <3>1. t.nodes[n].prompt \in DOMAIN b.tails
      BY <1>5, NodeIs DEF N
    <3> QED BY <3>1
  <2>6. b.skip = Len(w)
    BY <2>5 DEF Sound
  <2> HIDE DEF j
  <2> QED BY <2>4, <2>6, NodeSees DEF Knows, S, s, N
<1> QED BY <1>6, <1>7

\* Each row reads the histories of those before it, and computes its own.
Follow(cached, rows, hs) ==
  \A i \in 1..Len(hs) : Read(rows[i], cached \o SubSeq(hs, 1, i - 1)) = hs[i]

\* Rows whose histories follow from those before them compute their histories.
LEMMA ReadRowsIs ==
  ASSUME NEW cached, NEW rows, NEW hs \in Seq(Seq(Int)), Len(rows) = Len(hs), Follow(cached, rows, hs)
  PROVE  ReadRows(cached, rows) = hs
<1> DEFINE N == Len(hs)
           Is(g) == g = [i \in 0..N |-> IF i = 0 THEN <<>>
                                        ELSE LET vals == g[i - 1]
                                             IN Append(vals, Read(rows[i], cached \o vals))]
           h == [i \in 0..N |-> SubSeq(hs, 1, i)]
<1>1. N \in Nat
  OBVIOUS
<1>2. \A i \in 0..N : /\ SubSeq(hs, 1, i) \in Seq(Seq(Int)) /\ Len(SubSeq(hs, 1, i)) = i
                      /\ \A x \in 1..i : SubSeq(hs, 1, i)[x] = hs[x]
  BY SubSeqIsStart
<1>3. SubSeq(hs, 1, 0) = <<>>
  BY <1>1, <1>2, EmptySeq
<1>4. ASSUME NEW i \in 1..N PROVE SubSeq(hs, 1, i) = Append(SubSeq(hs, 1, i - 1), hs[i])
  <2> DEFINE a == SubSeq(hs, 1, i - 1)
             z == SubSeq(hs, 1, i)
  <2>1. i - 1 \in 0..N /\ i \in 0..N /\ i \in DOMAIN hs /\ (i - 1) + 1 = i
    BY <1>1
  <2>2. a \in Seq(Seq(Int)) /\ Len(a) = i - 1 /\ \A x \in 1..(i - 1) : a[x] = hs[x]
    BY <1>2, <2>1
  <2>3. z \in Seq(Seq(Int)) /\ Len(z) = i /\ \A x \in 1..i : z[x] = hs[x]
    BY <1>2, <2>1
  <2>4. hs[i] \in Seq(Int)
    BY <2>1
  <2> DEFINE y == hs[i]
             c == Append(a, y)
  <2> HIDE DEF a, z, y, N
  <2>5. /\ c \in Seq(Seq(Int)) /\ Len(c) = Len(a) + 1
        /\ \A x \in 1..Len(a) : c[x] = a[x]
        /\ c[Len(a) + 1] = y
    BY <2>2, <2>4, AppendProperties DEF y
  <2> HIDE DEF c
  <2>6. \A x \in 1..i : c[x] = z[x]
    <3> SUFFICES ASSUME NEW x \in 1..i PROVE c[x] = z[x]
      OBVIOUS
    <3>1. CASE x = i
      BY <2>1, <2>2, <2>3, <2>5, <3>1 DEF y
    <3>2. CASE x # i
      <4>1. x \in 1..(i - 1)
        BY <3>2
      <4> QED BY <2>2, <2>3, <2>5, <4>1
    <3> QED BY <3>1, <3>2
  <2>7. c = z
    BY <2>1, <2>2, <2>3, <2>5, <2>6, SeqEqual
  <2> QED BY <2>7 DEF a, z, y, c
<1>5. \A i \in 1..N : /\ h[i - 1] = SubSeq(hs, 1, i - 1) /\ h[i] = SubSeq(hs, 1, i)
                      /\ h[i] = Append(h[i - 1], Read(rows[i], cached \o h[i - 1]))
  <2> SUFFICES ASSUME NEW i \in 1..N
               PROVE  /\ h[i - 1] = SubSeq(hs, 1, i - 1) /\ h[i] = SubSeq(hs, 1, i)
                      /\ h[i] = Append(h[i - 1], Read(rows[i], cached \o h[i - 1]))
    OBVIOUS
  <2>1. i - 1 \in 0..N /\ i \in 0..N
    BY <1>1
  <2>2. h[i - 1] = SubSeq(hs, 1, i - 1) /\ h[i] = SubSeq(hs, 1, i)
    BY <2>1
  <2> HIDE DEF h
  <2>3. Read(rows[i], cached \o SubSeq(hs, 1, i - 1)) = hs[i]
    BY DEF Follow
  <2> QED BY <1>4, <2>2, <2>3
<1>6. h[0] = <<>> /\ h = [i \in 0..N |-> h[i]] /\ h[N] = hs
  <2>1. 0 \in 0..N /\ N \in 0..N
    BY <1>1
  <2>2. SubSeq(hs, 1, N) = hs
    BY <1>1, <1>2, <2>1, SeqEqual
  <2> QED BY <1>3, <2>1, <2>2
<1> HIDE DEF h
<1>7. \E g : Is(g)
  <2>1. ASSUME NEW i \in 0..N
        PROVE  h[i] = IF i = 0 THEN <<>> ELSE LET vals == h[i - 1] IN Append(vals, Read(rows[i], cached \o vals))
    <3>1. CASE i = 0
      BY <1>6, <3>1
    <3>2. CASE i # 0
      <4>1. i \in 1..N
        BY <1>1, <3>2
      <4>2. h[i] = Append(h[i - 1], Read(rows[i], cached \o h[i - 1]))
        BY <1>5, <4>1
      <4> QED BY <3>2, <4>2
    <3> QED BY <3>1, <3>2
  <2>2. Is(h)
    BY <1>6, <2>1
  <2> QED BY <2>2
<1>8. PICK g : Is(g) /\ ReadRows(cached, rows) = g[N]
  <2>1. ReadRows(cached, rows) = (CHOOSE g : Is(g))[N]
    BY DEF ReadRows
  <2> HIDE DEF Is
  <2> QED BY <1>7, <2>1
<1>9. /\ g[0] = <<>>
      /\ \A i \in 1..N : g[i] = Append(g[i - 1], Read(rows[i], cached \o g[i - 1]))
  <2>1. ASSUME NEW i \in 0..N
        PROVE  g[i] = IF i = 0 THEN <<>> ELSE LET vals == g[i - 1] IN Append(vals, Read(rows[i], cached \o vals))
    BY <1>8
  <2>2. 0 \in 0..N
    BY <1>1
  <2>3. ASSUME NEW i \in 1..N PROVE g[i] = Append(g[i - 1], Read(rows[i], cached \o g[i - 1]))
    <3>1. i \in 0..N /\ i # 0
      BY <1>1
    <3> HIDE DEF N, Is
    <3> QED BY <2>1, <3>1
  <2> QED BY <2>1, <2>2, <2>3
<1> HIDE DEF Is
<1> DEFINE T == {i \in Nat : i <= N => g[i] = h[i]}
<1>10. 0 \in T
  BY <1>6, <1>9
<1>11. ASSUME NEW i \in Nat, i \in T PROVE i + 1 \in T
  <2> SUFFICES ASSUME i + 1 <= N PROVE g[i + 1] = h[i + 1]
    OBVIOUS
  <2>1. i + 1 \in 1..N /\ (i + 1) - 1 = i /\ i <= N
    BY <1>1
  <2> DEFINE m == i + 1
  <2>2. m \in 1..N /\ m - 1 = i /\ g[i] = h[i]
    BY <1>11, <2>1
  <2> HIDE DEF m, N
  <2>3. g[m] = h[m]
    BY <1>5, <1>9, <2>2
  <2> QED BY <2>3 DEF m
<1>12. \A i \in Nat : i \in T
  <2> HIDE DEF T
  <2> QED BY <1>10, <1>11, Induct
<1>13. g[N] = h[N]
  BY <1>1, <1>12
<1> QED BY <1>6, <1>8, <1>13

-----------------------------------------------------------------------------
(* The answers of a block *)

\* What a block's answers are read from: the whole prompts.
Answers(b, w) == IF b.tails = <<>> THEN <<w>> ELSE [q \in DOMAIN b.tails |-> w \o b.tails[q]]
\* The row of the block each is read at.
AnswerRow(b, t, q) ==
  Len(b.shared) + IF b.tails = <<>> THEN 0 ELSE SumTo(NodeLens(t), t.leaf[q] - 1) + 1

\* The rows answers are read at are the block's, and their histories the whole prompts.
LEMMA AnswersAre ==
  ASSUME NEW b, NEW w, Sound(b, w)
  PROVE  Answers(b, w) \in Seq(Seq(Int)) /\ Len(Answers(b, w)) = AnswersOf(b) /\ AnswersOf(b) \in Nat
<1>1. w \in Seq(Int) /\ b.tails \in Seq(Seq(Int))
  BY DEF Sound, QuestionTails
<1>2. CASE b.tails = <<>>
  <2>1. <<w>> \in Seq(Seq(Int)) /\ Len(<<w>>) = 1
    BY <1>1
  <2> QED BY <1>2, <2>1 DEF Answers, AnswersOf
<1>3. CASE b.tails # <<>>
  <2> DEFINE n == Len(b.tails)
  <2>1. n \in Nat /\ DOMAIN b.tails = 1..n
    BY <1>1
  <2>2. \A q \in 1..n : w \o b.tails[q] \in Seq(Int)
    <3> SUFFICES ASSUME NEW q \in 1..n PROVE w \o b.tails[q] \in Seq(Int)
      OBVIOUS
    <3>1. b.tails[q] \in Seq(Int)
      BY <1>1
    <3> QED BY <1>1, <3>1, ConcatProperties
  <2>3. Answers(b, w) = [q \in 1..n |-> w \o b.tails[q]]
    BY <1>3, <2>1 DEF Answers
  <2> HIDE DEF n
  <2>4. Answers(b, w) \in [1..n -> Seq(Int)]
    BY <2>2, <2>3
  <2>5. Answers(b, w) \in Seq(Seq(Int)) /\ Len(Answers(b, w)) = n
    BY <2>1, <2>4, ArrayIsSeq
  <2> QED BY <1>3, <2>1, <2>5 DEF AnswersOf, n
<1> QED BY <1>2, <1>3

\* Read there, a block's answers are its own.
LEMMA BlockAnswers ==
  ASSUME NEW b, NEW w, Sound(b, w), NEW t, TreeInv(b.tails, t), \A q \in DOMAIN b.tails : t.leaf[q] # 0,
         NEW q \in 1..AnswersOf(b)
  PROVE  /\ AnswerRow(b, t, q) \in 1..Len(Histories(b, w, t))
         /\ Histories(b, w, t)[AnswerRow(b, t, q)] = Answers(b, w)[q]
<1> DEFINE hs == Histories(b, w, t)
           S == Len(b.shared)
<1>1. /\ w \in Seq(Int) /\ Len(w) \in Nat /\ S \in Nat /\ b.past_n \in Nat /\ Len(w) = b.past_n + S
      /\ b.tails \in Seq(Seq(Int)) /\ \A r \in DOMAIN b.tails : b.tails[r] # <<>>
  <2>1. w \in Seq(Int) /\ b.shared \in Seq(Int) /\ b.past_n \in Nat /\ Len(w) = b.past_n + S
    BY DEF Sound
  <2>2. b.tails \in Seq(Seq(Int)) /\ \A r \in DOMAIN b.tails : b.tails[r] # <<>>
    BY DEF Sound, QuestionTails
  <2>3. Len(w) \in Nat /\ S \in Nat
    BY <2>1
  <2> QED BY <2>1, <2>2, <2>3
<1>2. CASE b.tails = <<>>
  <2>1. S # 0
    BY <1>2, EmptySeq DEF Sound
  <2>2. S \in 1..S /\ AnswerRow(b, t, q) = S
    BY <1>1, <1>2, <2>1 DEF AnswerRow
  <2>3. SharedIs(hs[S], w, Len(w)) /\ S \in 1..Len(hs)
    BY <1>1, <2>2, SharedHistoryIs
  <2>4. hs[S] = w
    <3> HIDE DEF hs, S
    <3> QED BY <1>1, <2>3, SeqEqual DEF SharedIs
  <2>5. q = 1 /\ Answers(b, w)[q] = w
    BY <1>2 DEF AnswersOf, Answers
  <2> QED BY <2>2, <2>3, <2>4, <2>5
<1>3. CASE b.tails # <<>>
  <2> DEFINE T == b.tails[q]
             n == t.leaf[q]
             N == Len(t.nodes)
             s == NodeLens(t)
             v == t.nodes[n]
             z == Len(T)
  <2>1. q \in DOMAIN b.tails
    BY <1>1, <1>3 DEF AnswersOf
  <2>2. T \in Seq(Int) /\ z \in Nat /\ z >= 1
    <3>1. T \in Seq(Int) /\ T # <<>>
      BY <1>1, <2>1
    <3> HIDE DEF T
    <3> QED BY <3>1, EmptySeq
  <2>3. n \in DOMAIN t.nodes /\ v.prompt = q /\ v.to = z /\ v.from = z - 1
    <3>1. LeafInv(b.tails, t.nodes, t.todo, t.leaf)
      BY DEF TreeInv
    <3> QED BY <2>1, <3>1 DEF LeafInv
  <2>4. /\ n \in 1..N /\ s[n] = v.to - v.from
    <3>1. N \in Nat /\ DOMAIN t.nodes = 1..N /\ \A m \in 1..N : s[m] = t.nodes[m].to - t.nodes[m].from
      BY NodeLensAre
    <3>2. n \in 1..N
      BY <2>3, <3>1
    <3> HIDE DEF N, s, n
    <3> QED BY <3>1, <3>2
  <2>5. s[n] = 1
    <3> HIDE DEF s, v, z
    <3> QED BY <2>2, <2>3, <2>4
  <2>6. AnswerRow(b, t, q) = S + SumTo(s, n - 1) + 1
    <3>1. SumTo(s, n - 1) \in Nat
      <4>1. N \in Nat /\ s \in [1..N -> Nat]
        BY NodeLensAre
      <4> HIDE DEF N, s, n
      <4>2. n - 1 \in 0..N
        BY <2>4, <4>1
      <4> QED BY <4>1, <4>2, Sums
    <3>2. AnswerRow(b, t, q) = S + (SumTo(s, n - 1) + 1)
      BY <1>3 DEF AnswerRow
    <3> HIDE DEF S, s, n
    <3> QED BY <1>1, <3>1, <3>2
  <2> DEFINE l == AnswerRow(b, t, q)
  <2>7. l \in 1..Len(hs) /\ NodeRowIs(hs[l], w, b.tails[v.prompt], v, 1)
    <3>1. 1 \in 1..s[n]
      BY <2>5
    <3> HIDE DEF l
    <3> QED BY <2>4, <2>6, <3>1, NodeHistoryIs DEF l
  <2>8. NodeRowIs(hs[l], w, T, v, 1)
    BY <2>3, <2>7
  <2> HIDE DEF l, v, hs, z, T
  <2>9. v.from + 1 = z
    BY <2>2, <2>3
  <2> DEFINE g == hs[l]
             W == w \o T
             L == Len(w)
  <2>10. /\ g \in Seq(Int) /\ Len(g) = L + z
         /\ \A i \in 1..L : g[i] = w[i]
         /\ \A i \in 1..z : g[L + i] = T[i]
    BY <2>8, <2>9 DEF NodeRowIs
  <2>11. /\ W \in Seq(Int) /\ Len(W) = L + z
         /\ \A i \in 1..(L + z) : W[i] = IF i <= L THEN w[i] ELSE T[i - L]
    <3>1. w \in Seq(Int) /\ T \in Seq(Int)
      BY <1>1, <2>2
    <3>2. /\ w \o T \in Seq(Int) /\ Len(w \o T) = Len(w) + Len(T)
          /\ \A i \in 1..(Len(w) + Len(T)) : (w \o T)[i] = IF i <= Len(w) THEN w[i] ELSE T[i - Len(w)]
      BY <3>1, ConcatProperties
    <3> QED BY <3>2 DEF z
  <2>12. L \in Nat /\ Len(b.tails[q]) \in Nat
    BY <1>1, <2>2 DEF T, z
  <2> HIDE DEF g, W, L
  <2>13. \A i \in 1..(L + z) : g[i] = W[i]
    <3> SUFFICES ASSUME NEW i \in 1..(L + z) PROVE g[i] = W[i]
      OBVIOUS
    <3>1. CASE i <= L
      <4>1. i \in 1..L
        BY <2>12, <3>1
      <4> QED BY <2>10, <2>11, <3>1, <4>1
    <3>2. CASE ~(i <= L)
      <4>1. i - L \in 1..z /\ L + (i - L) = i
        BY <2>2, <2>12, <3>2
      <4>2. g[L + (i - L)] = T[i - L]
        BY <2>10, <4>1
      <4> QED BY <2>11, <3>2, <4>1, <4>2
    <3> QED BY <3>1, <3>2
  <2>14. g = W
    BY <2>10, <2>11, <2>13, SeqEqual
  <2>15. Answers(b, w)[q] = W
    BY <1>3, <2>1 DEF Answers, W, T
  <2> QED BY <2>7, <2>14, <2>15 DEF l, g, hs
<1> QED BY <1>2, <1>3

-----------------------------------------------------------------------------
(* The rows of a call *)

\* Block b of a call reads the tokens ws[b], and its questions after them.
SoundCall(blocks, ws) ==
  /\ Len(blocks) \in Nat /\ DOMAIN blocks = 1..Len(blocks)
  /\ \A b \in DOMAIN blocks : Sound(blocks[b], ws[b])

\* What a call is put together from, per block.
Trees(blocks) == [b \in DOMAIN blocks |-> prompt_tree(blocks[b].tails)]
RowsOf(blocks) == [b \in DOMAIN blocks |-> Len(blocks[b].shared) + Trees(blocks)[b].tokens]
Pasts(blocks) == [b \in DOMAIN blocks |-> blocks[b].past_n]
CachedParts(blocks) == [b \in DOMAIN blocks |-> SubSeq(blocks[b].past, 1, Pasts(blocks)[b])]
RowParts(blocks) ==
  [b \in DOMAIN blocks |->
     Rows(blocks[b], Trees(blocks)[b], SumTo(RowsOf(blocks), b - 1), SumTo(Pasts(blocks), b - 1),
          SumTo(Pasts(blocks), Len(blocks)))]
HistoryParts(blocks, ws) ==
  [b \in DOMAIN blocks |-> Histories(blocks[b], ws[b], Trees(blocks)[b])]

\* A call's trees are what TreeProofs proves of prompt_tree.
LEMMA TreesAreWhole ==
  ASSUME NEW blocks, NEW ws, SoundCall(blocks, ws), NEW b \in DOMAIN blocks,
         NEW t, t = Trees(blocks)[b]
  PROVE  /\ Sound(blocks[b], ws[b])
         /\ TreeInv(blocks[b].tails, t)
         /\ t.tokens = TreeTokens(blocks[b].tails, DOMAIN blocks[b].tails)
         /\ \A q \in DOMAIN blocks[b].tails : t.leaf[q] # 0
<1>1. Sound(blocks[b], ws[b])
  BY DEF SoundCall
<1>2. QuestionTails(blocks[b].tails)
  BY <1>1 DEF Sound
<1>3. t = prompt_tree(blocks[b].tails)
  BY DEF Trees
<1> QED BY <1>1, <1>2, <1>3, PromptTreeIsComplete

\* The rows and the cached cells of each block are counted.
LEMMA CountsAre ==
  ASSUME NEW blocks, NEW ws, SoundCall(blocks, ws)
  PROVE  /\ RowsOf(blocks) \in [1..Len(blocks) -> Nat]
         /\ Pasts(blocks) \in [1..Len(blocks) -> Nat]
<1>1. Len(blocks) \in Nat /\ DOMAIN blocks = 1..Len(blocks)
  BY DEF SoundCall
<1>2. ASSUME NEW b \in 1..Len(blocks)
      PROVE  Len(blocks[b].shared) + Trees(blocks)[b].tokens \in Nat /\ blocks[b].past_n \in Nat
  <2>1. Sound(blocks[b], ws[b]) /\ TreeInv(blocks[b].tails, Trees(blocks)[b])
    BY <1>1, TreesAreWhole
  <2>2. Trees(blocks)[b].tokens \in Nat
    BY <2>1, NodeLensAre
  <2>3. blocks[b].shared \in Seq(Int) /\ blocks[b].past_n \in Nat
    BY <2>1 DEF Sound
  <2>4. Len(blocks[b].shared) \in Nat
    BY <2>3
  <2> QED BY <2>2, <2>3, <2>4
<1> QED BY <1>1, <1>2 DEF RowsOf, Pasts

\* One history per row.
LEMMA HistoryPartsAre ==
  ASSUME NEW blocks, NEW ws, SoundCall(blocks, ws)
  PROVE  /\ HistoryParts(blocks, ws) \in Seq(Seq(Seq(Int)))
         /\ Len(HistoryParts(blocks, ws)) = Len(blocks)
         /\ Lens(HistoryParts(blocks, ws)) = RowsOf(blocks)
<1> DEFINE n == Len(blocks)
           hss == HistoryParts(blocks, ws)
           h(b) == Histories(blocks[b], ws[b], Trees(blocks)[b])
<1>1. n \in Nat /\ DOMAIN blocks = 1..n
  BY DEF SoundCall
<1>2. ASSUME NEW b \in 1..n PROVE h(b) \in Seq(Seq(Int)) /\ Len(h(b)) = RowsOf(blocks)[b]
  <2> DEFINE t == Trees(blocks)[b]
             B == blocks[b]
             w == ws[b]
             A == SharedHistories(B, w)
  <2>1. Sound(B, w) /\ TreeInv(B.tails, t)
    BY <1>1, TreesAreWhole
  <2> HIDE DEF t, B, w
  <2>2. Histories(B, w, t) \in Seq(Seq(Int)) /\ Placed(Histories(B, w, t), A, t, NodeHistories(B, w, t))
    BY <2>1, HistoriesAre
  <2>3. Len(A) = Len(B.shared)
    <3>1. Len(B.shared) \in Nat
      BY <2>1 DEF Sound
    <3> QED BY <3>1 DEF SharedHistories
  <2>4. Len(Histories(B, w, t)) = Len(B.shared) + t.tokens
    BY <2>2, <2>3 DEF Placed
  <2>5. RowsOf(blocks)[b] = Len(B.shared) + t.tokens
    BY <1>1 DEF RowsOf, B, t
  <2> QED BY <2>2, <2>4, <2>5 DEF B, w, t
<1>3. hss = [b \in 1..n |-> h(b)]
  BY <1>1 DEF HistoryParts
<1> HIDE DEF h, hss, n
<1>4. hss \in [1..n -> Seq(Seq(Int))]
  BY <1>2, <1>3
<1>5. hss \in Seq(Seq(Seq(Int))) /\ Len(hss) = n
  BY <1>1, <1>4, ArrayIsSeq
<1>6. Lens(hss) = RowsOf(blocks)
  <2>1. RowsOf(blocks) \in [1..n -> Nat]
    BY CountsAre DEF n
  <2>2. DOMAIN hss = 1..n /\ \A b \in 1..n : Len(hss[b]) = RowsOf(blocks)[b]
    BY <1>2, <1>3
  <2> QED BY <2>1, <2>2 DEF Lens
<1> QED BY <1>5, <1>6 DEF hss, n

\* The rows of each block are those its place in the call asks for.
LEMMA RowPartsAre ==
  ASSUME NEW blocks, NEW ws, SoundCall(blocks, ws)
  PROVE  /\ \E X : RowParts(blocks) \in Seq(Seq(X))
         /\ Len(RowParts(blocks)) = Len(blocks)
         /\ Lens(RowParts(blocks)) = RowsOf(blocks)
<1> DEFINE n == Len(blocks)
           rs == RowParts(blocks)
           p(b) == Rows(blocks[b], Trees(blocks)[b], SumTo(RowsOf(blocks), b - 1), SumTo(Pasts(blocks), b - 1),
                        SumTo(Pasts(blocks), Len(blocks)))
           X == {p(b)[i] : b \in 1..n, i \in Nat}
<1>1. n \in Nat /\ DOMAIN blocks = 1..n
  BY DEF SoundCall
<1>2. ASSUME NEW b \in 1..n PROVE p(b) \in Seq(X) /\ Len(p(b)) = RowsOf(blocks)[b]
  <2> DEFINE t == Trees(blocks)[b]
             B == blocks[b]
             row == SumTo(RowsOf(blocks), b - 1)
             c0 == SumTo(Pasts(blocks), b - 1)
             C == SumTo(Pasts(blocks), Len(blocks))
             A == [j \in 1..Len(B.shared) |-> SharedRow(B, row, c0, C, j)]
             parts == [m \in DOMAIN t.nodes |->
                         [j \in 1..NodeLen(t.nodes[m]) |-> NodesRow(B, t, row, c0, C, m, j)]]
  <2>1. Sound(B, ws[b]) /\ TreeInv(B.tails, t)
    BY <1>1, TreesAreWhole
  <2> HIDE DEF t, B, row, c0, C
  <2>2. Placed(Rows(B, t, row, c0, C), A, t, parts) /\ \E Y : Rows(B, t, row, c0, C) \in Seq(Y)
    BY <2>1, RowsArePlaced
  <2>3. Len(A) = Len(B.shared)
    <3>1. Len(B.shared) \in Nat
      BY <2>1 DEF Sound
    <3> QED BY <3>1
  <2> HIDE DEF A, parts
  <2>4. Len(Rows(B, t, row, c0, C)) = Len(B.shared) + t.tokens
    BY <2>2, <2>3 DEF Placed
  <2>5. RowsOf(blocks)[b] = Len(B.shared) + t.tokens
    BY <1>1 DEF RowsOf, B, t
  <2>6. p(b) = Rows(B, t, row, c0, C)
    BY DEF B, t, row, c0, C
  <2>7. \A i \in Nat : p(b)[i] \in X
    OBVIOUS
  <2> HIDE DEF p, X
  <2>8. p(b) \in Seq(X)
    <3>1. PICK Y : p(b) \in Seq(Y)
      BY <2>2, <2>6
    <3>2. Len(p(b)) \in Nat /\ p(b) = [i \in 1..Len(p(b)) |-> p(b)[i]] /\ \A i \in 1..Len(p(b)) : i \in Nat
      BY <3>1
    <3>3. p(b) \in [1..Len(p(b)) -> X]
      BY <2>7, <3>2
    <3> QED BY <3>2, <3>3, ArrayIsSeq
  <2> QED BY <2>4, <2>5, <2>6, <2>8
<1>3. rs = [b \in 1..n |-> p(b)]
  BY <1>1 DEF RowParts
<1> HIDE DEF p, rs, n, X
<1>4. rs \in [1..n -> Seq(X)]
  BY <1>2, <1>3
<1>5. rs \in Seq(Seq(X)) /\ Len(rs) = n
  BY <1>1, <1>4, ArrayIsSeq
<1>6. Lens(rs) = RowsOf(blocks)
  <2>1. RowsOf(blocks) \in [1..n -> Nat]
    BY CountsAre DEF n
  <2>2. DOMAIN rs = 1..n /\ \A b \in 1..n : Len(rs[b]) = RowsOf(blocks)[b]
    BY <1>2, <1>3
  <2> QED BY <2>1, <2>2 DEF Lens
<1> QED BY <1>5, <1>6 DEF rs, n

\* The cells that a call starts from are those of the starts of what its blocks read.
CachedIs(cached, past, n, ws) ==
  /\ cached \in Seq(Seq(Int)) /\ Len(cached) = SumTo(past, n)
  /\ \A b \in 1..n : \A i \in 1..past[b] :
       /\ SumTo(past, b - 1) + i \in 1..Len(cached)
       /\ cached[SumTo(past, b - 1) + i] = SubSeq(ws[b], 1, i)

\* The cached cells of the blocks, one after the other, are those of their starts.
LEMMA CachedAre ==
  ASSUME NEW blocks, NEW ws, SoundCall(blocks, ws), NEW cached, cached = FlattenSeq(CachedParts(blocks)),
         NEW past, past = Pasts(blocks), NEW n, n = Len(blocks)
  PROVE  CachedIs(cached, past, n, ws)
<1> DEFINE cs == CachedParts(blocks)
           c(b) == SubSeq(blocks[b].past, 1, past[b])
<1>1. n \in Nat /\ DOMAIN blocks = 1..n
  BY DEF SoundCall
<1>2. ASSUME NEW b \in 1..n
      PROVE  /\ c(b) \in Seq(Seq(Int)) /\ Len(c(b)) = past[b]
             /\ \A i \in 1..past[b] : c(b)[i] = SubSeq(ws[b], 1, i)
  <2>1. Sound(blocks[b], ws[b]) /\ past[b] = blocks[b].past_n
    BY <1>1 DEF SoundCall, Pasts
  <2> DEFINE pb == blocks[b].past
  <2>2. /\ past[b] \in Nat /\ pb \in Seq(Seq(Int)) /\ past[b] <= Len(pb)
    BY <2>1 DEF Sound
  <2>3. \A i \in 1..past[b] : pb[i] = SubSeq(ws[b], 1, i)
    BY <2>1 DEF Sound
  <2> HIDE DEF pb
  <2>4. past[b] \in 0..Len(pb)
    BY <2>2
  <2>5. /\ SubSeq(pb, 1, past[b]) \in Seq(Seq(Int)) /\ Len(SubSeq(pb, 1, past[b])) = past[b]
        /\ \A i \in 1..past[b] : SubSeq(pb, 1, past[b])[i] = pb[i]
    BY <2>2, <2>4, SubSeqIsStart
  <2> QED BY <2>3, <2>5 DEF pb
<1>3. cs = [b \in 1..n |-> c(b)]
  BY <1>1 DEF CachedParts
<1>4. past \in [1..n -> Nat]
  BY CountsAre
<1> HIDE DEF c, cs
<1>5. cs \in [1..n -> Seq(Seq(Int))]
  BY <1>2, <1>3
<1>6. cs \in Seq(Seq(Seq(Int))) /\ Len(cs) = n
  BY <1>1, <1>5, ArrayIsSeq
<1>7. \A b \in 1..n : Len(cs[b]) = past[b] /\ \A i \in 1..past[b] : cs[b][i] = SubSeq(ws[b], 1, i)
  BY <1>2, <1>3
<1>8. DOMAIN cs = 1..n
  BY <1>3
<1>9. Lens(cs) = past
  BY <1>4, <1>7, <1>8 DEF Lens
<1>10. cached \in Seq(Seq(Int)) /\ Flat(cs, cached)
  BY <1>6, FlattenIs DEF cs
<1>11. Len(cached) = SumTo(past, n)
  BY <1>6, <1>9, <1>10 DEF Flat
<1>12. \A b \in 1..n : \A i \in 1..Len(cs[b]) :
         SumTo(past, b - 1) + i \in 1..Len(cached) /\ cached[SumTo(past, b - 1) + i] = cs[b][i]
  BY <1>8, <1>9, <1>10 DEF Flat
<1>13. ASSUME NEW b \in 1..n, NEW i \in 1..past[b]
       PROVE  SumTo(past, b - 1) + i \in 1..Len(cached) /\ cached[SumTo(past, b - 1) + i] = SubSeq(ws[b], 1, i)
  <2>1. i \in 1..Len(cs[b]) /\ cs[b][i] = SubSeq(ws[b], 1, i)
    BY <1>7
  <2> QED BY <1>12, <2>1
<1> QED BY <1>10, <1>11, <1>13 DEF CachedIs

\* Every row of a call computes its history.
LEMMA CallReads ==
  ASSUME NEW blocks, NEW ws, SoundCall(blocks, ws),
         NEW cached, cached = FlattenSeq(CachedParts(blocks)),
         NEW rows, rows = FlattenSeq(RowParts(blocks)),
         NEW hs, hs = FlattenSeq(HistoryParts(blocks, ws))
  PROVE  ReadRows(cached, rows) = hs
<1> DEFINE n == Len(blocks)
           counts == RowsOf(blocks)
           past == Pasts(blocks)
           C == SumTo(past, n)
           hss == HistoryParts(blocks, ws)
           rss == RowParts(blocks)
<1>1. n \in Nat /\ DOMAIN blocks = 1..n
  BY DEF SoundCall
<1>2. counts \in [1..n -> Nat] /\ past \in [1..n -> Nat]
  BY CountsAre
<1>3. hss \in Seq(Seq(Seq(Int))) /\ Len(hss) = n /\ Lens(hss) = counts
  BY HistoryPartsAre
<1>5. (\E X : rss \in Seq(Seq(X))) /\ Len(rss) = n /\ Lens(rss) = counts
  BY RowPartsAre
<1> HIDE DEF counts, past, hss, rss
<1>6. /\ hs \in Seq(Seq(Int)) /\ Len(hs) = SumTo(counts, n)
      /\ \A b \in 1..n : /\ hss[b] \in Seq(Seq(Int)) /\ Len(hss[b]) = counts[b]
                         /\ \A j \in 1..counts[b] : /\ SumTo(counts, b - 1) + j \in 1..Len(hs)
                                                    /\ hs[SumTo(counts, b - 1) + j] = hss[b][j]
  <2>1. hs \in Seq(Seq(Int)) /\ Flat(hss, hs)
    BY <1>3, FlattenIs DEF hss
  <2>2. DOMAIN hss = 1..n /\ \A b \in 1..n : hss[b] \in Seq(Seq(Int)) /\ Len(hss[b]) = counts[b]
    BY <1>3, LensIs
  <2>3. Len(hs) = SumTo(counts, n)
    BY <1>3, <2>1 DEF Flat
  <2>4. \A b \in 1..n : \A j \in 1..Len(hss[b]) :
          SumTo(counts, b - 1) + j \in 1..Len(hs) /\ hs[SumTo(counts, b - 1) + j] = hss[b][j]
    BY <1>3, <2>1, <2>2 DEF Flat
  <2> QED BY <2>1, <2>2, <2>3, <2>4
<1>7. /\ Len(rows) = SumTo(counts, n)
      /\ \A b \in 1..n : \A j \in 1..counts[b] : rows[SumTo(counts, b - 1) + j] = rss[b][j]
  <2>1. PICK X : rss \in Seq(Seq(X))
    BY <1>5
  <2>2. Flat(rss, rows)
    BY <2>1, FlattenIs DEF rss
  <2>3. DOMAIN rss = 1..n /\ \A b \in 1..n : Len(rss[b]) = counts[b]
    BY <1>5, <2>1, LensIs
  <2>4. Len(rows) = SumTo(counts, n)
    BY <1>5, <2>2 DEF Flat
  <2>5. \A b \in 1..n : \A j \in 1..Len(rss[b]) : rows[SumTo(counts, b - 1) + j] = rss[b][j]
    BY <1>5, <2>2, <2>3 DEF Flat
  <2> QED BY <2>3, <2>4, <2>5
<1>8. /\ cached \in Seq(Seq(Int)) /\ Len(cached) = C
      /\ \A b \in 1..n : \A i \in 1..past[b] :
           /\ SumTo(past, b - 1) + i \in 1..Len(cached)
           /\ cached[SumTo(past, b - 1) + i] = SubSeq(ws[b], 1, i)
  <2>1. CachedIs(cached, past, n, ws)
    BY CachedAre DEF past
  <2> QED BY <2>1 DEF CachedIs
<1>9. C \in Nat
  <2>1. n \in 0..n
    BY <1>1
  <2> QED BY <1>1, <1>2, <2>1, Sums
<1> HIDE DEF n
<1>10. ASSUME NEW i \in 1..Len(hs) PROVE Read(rows[i], cached \o SubSeq(hs, 1, i - 1)) = hs[i]
  <2>1. i \in 1..SumTo(counts, n)
    BY <1>6
  <2>2. PICK b \in 1..n : i - SumTo(counts, b - 1) \in 1..counts[b]
    BY <1>1, <1>2, <2>1, PlaceInSum
  <2> DEFINE l == i - SumTo(counts, b - 1)
             row == SumTo(counts, b - 1)
             c0 == SumTo(past, b - 1)
             n0 == past[b]
             w == ws[b]
             before == cached \o SubSeq(hs, 1, i - 1)
  <2>3. row \in Nat /\ c0 \in Nat /\ n0 \in Nat /\ counts[b] \in Nat /\ c0 + n0 <= C
    <3>1. b - 1 \in 0..n /\ b \in 0..n /\ n \in 0..n /\ b <= n
      BY <1>1
    <3>2. row \in Nat /\ c0 \in Nat
      BY <1>1, <1>2, <3>1, Sums
    <3>3. SumTo(past, b) = c0 + n0
      BY <1>1, <1>2, Sums
    <3>4. SumTo(past, b) <= SumTo(past, n)
      BY <1>1, <1>2, <3>1, SumsGrow
    <3> QED BY <1>2, <3>2, <3>3, <3>4
  <2>4. l \in 1..counts[b] /\ i = row + l /\ l \in Nat /\ i \in Nat
    BY <2>1, <2>2, <2>3
  <2>5. Sound(blocks[b], w) /\ n0 = blocks[b].past_n /\ TreeInv(blocks[b].tails, Trees(blocks)[b])
    <3>1. b \in DOMAIN blocks
      BY <1>1
    <3> QED BY <3>1, TreesAreWhole DEF Pasts, past
  <2> HIDE DEF l, row, c0, n0, w, before, C
  <2>6. /\ hss[b] \in Seq(Seq(Int)) /\ Len(hss[b]) = counts[b]
        /\ \A j \in 1..counts[b] : row + j \in 1..Len(hs) /\ hs[row + j] = hss[b][j]
    BY <1>6 DEF row
  <2>7. rows[i] = rss[b][l]
    <3>1. rows[row + l] = rss[b][l]
      BY <1>7, <2>4 DEF row
    <3> QED BY <2>4, <3>1
  <2>8. hs[i] = hss[b][l]
    BY <2>4, <2>6
  <2>9. Knows(rss[b], hss[b], w, n0, row, c0, C, l)
    <3>1. /\ rss[b] = Rows(blocks[b], Trees(blocks)[b], row, c0, C)
          /\ hss[b] = Histories(blocks[b], w, Trees(blocks)[b])
      BY <1>1 DEF RowParts, HistoryParts, rss, hss, row, c0, C, counts, past, w, n
    <3>2. l \in 1..Len(hss[b])
      BY <2>4, <2>6
    <3> QED BY <1>9, <2>3, <2>5, <3>1, <3>2, BlockSees
  <2>10. PICK M : Sees(rss[b], hss[b], n0, row, c0, C, l, M)
    BY <2>9 DEF Knows
  <2>11. /\ SubSeq(hs, 1, i - 1) \in Seq(Seq(Int)) /\ Len(SubSeq(hs, 1, i - 1)) = i - 1
         /\ \A x \in 1..(i - 1) : SubSeq(hs, 1, i - 1)[x] = hs[x]
    <3>1. i - 1 \in 0..Len(hs)
      BY <1>6
    <3> QED BY <1>6, <3>1, SubSeqIsStart
  <2>12. /\ Len(before) = C + (i - 1)
         /\ \A x \in 1..(C + (i - 1)) : before[x] = IF x <= C THEN cached[x] ELSE SubSeq(hs, 1, i - 1)[x - C]
    <3> DEFINE s == SubSeq(hs, 1, i - 1)
    <3>1. s \in Seq(Seq(Int)) /\ cached \in Seq(Seq(Int)) /\ Len(s) = i - 1 /\ Len(cached) = C
      BY <1>8, <2>11
    <3> HIDE DEF s
    <3>2. /\ Len(cached \o s) = Len(cached) + Len(s)
          /\ \A x \in 1..(Len(cached) + Len(s)) : (cached \o s)[x] = IF x <= Len(cached) THEN cached[x] ELSE s[x - Len(cached)]
      BY <3>1, ConcatProperties
    <3> QED BY <3>1, <3>2 DEF before, s
  <2>13. Len(before) = C + row + l - 1
    BY <1>9, <2>3, <2>4, <2>12
  <2>14. ASSUME NEW x \in 1..n0 PROVE before[c0 + x] = SubSeq(hss[b][l], 1, x)
    <3>1. c0 + x \in 1..Len(cached) /\ cached[c0 + x] = SubSeq(w, 1, x)
      BY <1>8 DEF c0, n0, w
    <3> DEFINE y == c0 + x
    <3>2. y \in 1..C /\ cached[y] = SubSeq(w, 1, x)
      BY <1>8, <3>1
    <3> HIDE DEF y
    <3>3. y \in 1..(C + (i - 1)) /\ y <= C
      BY <1>9, <2>1, <2>4, <3>2
    <3>4. before[y] = cached[y]
      BY <2>12, <3>3
    <3>5. SubSeq(hss[b][l], 1, x) = SubSeq(w, 1, x)
      BY <2>9 DEF Knows, StartsWith
    <3> QED BY <3>2, <3>4, <3>5 DEF y
  <2>15. ASSUME NEW m \in 1..(l - 1) PROVE before[C + row + m] = hss[b][m]
    <3>1. m \in 1..counts[b] /\ m \in Nat /\ m < l
      BY <2>3, <2>4
    <3> DEFINE x == row + m
    <3>2. hs[x] = hss[b][m] /\ x \in 1..(i - 1)
      <4>1. row + m \in 1..(i - 1)
        BY <2>3, <2>4, <3>1
      <4> QED BY <2>6, <3>1, <4>1
    <3>3. C + x = C + row + m
      BY <1>9, <2>3, <3>1
    <3> HIDE DEF x
    <3>4. C + x \in 1..(C + (i - 1)) /\ ~(C + x <= C) /\ (C + x) - C = x
      BY <1>9, <2>4, <3>2
    <3>5. before[C + x] = SubSeq(hs, 1, i - 1)[x]
      BY <2>12, <3>4
    <3>6. SubSeq(hs, 1, i - 1)[x] = hs[x]
      BY <2>11, <3>2
    <3> QED BY <3>2, <3>3, <3>5, <3>6
  <2>16. Read(rss[b][l], before) = hss[b][l]
    <3>1. l \in DOMAIN hss[b]
      BY <2>4, <2>6
    <3>2. Before(before, hss[b], n0, row, c0, C, l)
      BY <2>13, <2>14, <2>15 DEF Before
    <3>3. hss[b] \in Seq(Seq(Int)) /\ n0 \in Nat /\ row \in Nat /\ c0 \in Nat /\ C \in Nat /\ c0 + n0 <= C
      BY <1>9, <2>3, <2>6
    <3> DEFINE H == hss[b]
               R == rss[b]
    <3>4. H \in Seq(Seq(Int)) /\ l \in DOMAIN H /\ Sees(R, H, n0, row, c0, C, l, M) /\ Before(before, H, n0, row, c0, C, l)
      BY <2>10, <3>1, <3>2, <3>3
    <3> HIDE DEF H, R
    <3>5. Readable(R, H, n0, row, c0, C, l, M, before)
      BY <3>4, <2>3, <1>9 DEF Readable
    <3>6. Read(R[l], before) = H[l]
      BY <3>5, RowReads
    <3> QED BY <3>6 DEF H, R
  <2> QED BY <2>7, <2>8, <2>16 DEF before
<1>11. Len(rows) = Len(hs)
  BY <1>6, <1>7
<1>12. Follow(cached, rows, hs)
  BY <1>10 DEF Follow
<1> QED BY <1>6, <1>11, <1>12, ReadRowsIs

-----------------------------------------------------------------------------
(* The answers of a call *)

\* Where the rows of each block begin, and the rows its answers are read at.
Starting(blocks) == [b \in DOMAIN blocks |-> SumTo(RowsOf(blocks), b - 1)]
IndexParts(blocks) ==
  [b \in DOMAIN blocks |->
     IF blocks[b].tails = <<>> THEN <<Starting(blocks)[b] + Len(blocks[b].shared)>>
     ELSE [q \in DOMAIN blocks[b].tails |->
             NodeRow(Trees(blocks)[b], Starting(blocks)[b] + Len(blocks[b].shared), Trees(blocks)[b].leaf[q]) + 1]]

\* `run`, written with these.
LEMMA RunUnfolds ==
  ASSUME NEW blocks, NEW new, new = ReadRows(FlattenSeq(CachedParts(blocks)), FlattenSeq(RowParts(blocks))),
         NEW at, at = FlattenSeq(IndexParts(blocks))
  PROVE  run(blocks) = [new |-> new, row |-> Starting(blocks), ps |-> [i \in DOMAIN at |-> new[at[i]]]]
<1> DEFINE B == DOMAIN blocks
           tree == [b \in B |-> prompt_tree(blocks[b].tails)]
           rowsOf == [b \in B |-> Len(blocks[b].shared) + tree[b].tokens]
           past == [b \in B |-> blocks[b].past_n]
           C == SumTo(past, Len(blocks))
           row == [b \in B |-> SumTo(rowsOf, b - 1)]
           cp == [b \in B |-> SubSeq(blocks[b].past, 1, past[b])]
           rp == [b \in B |-> Rows(blocks[b], tree[b], row[b], SumTo(past, b - 1), C)]
           Index(b) == IF blocks[b].tails = <<>> THEN <<row[b] + Len(blocks[b].shared)>>
                       ELSE [q \in DOMAIN blocks[b].tails |->
                               NodeRow(tree[b], row[b] + Len(blocks[b].shared), tree[b].leaf[q]) + 1]
           ip == [b \in B |-> Index(b)]
           rs == ReadRows(FlattenSeq(cp), FlattenSeq(rp))
           fl == FlattenSeq(ip)
<1>1. tree = Trees(blocks)
  BY DEF Trees
<1>2. rowsOf = RowsOf(blocks)
  BY <1>1 DEF RowsOf
<1>3. past = Pasts(blocks)
  BY DEF Pasts
<1>4. row = Starting(blocks)
  BY <1>2 DEF Starting
<1>9. run(blocks) = [new |-> rs, row |-> row, ps |-> [i \in DOMAIN fl |-> rs[fl[i]]]]
  BY DEF run
<1>5. cp = CachedParts(blocks)
  BY <1>3 DEF CachedParts
<1>6. rp = RowParts(blocks)
  <2>1. \A b \in B : row[b] = SumTo(RowsOf(blocks), b - 1)
    BY <1>2
  <2> HIDE DEF tree, rowsOf, past, row
  <2> QED BY <1>1, <1>3, <2>1 DEF RowParts
<1>7. ip = IndexParts(blocks)
  <2> HIDE DEF tree, rowsOf, row
  <2> QED BY <1>1, <1>4 DEF IndexParts
<1> HIDE DEF cp, rp, ip, tree, row, past, rowsOf, C
<1>8. rs = new /\ fl = at
  BY <1>5, <1>6, <1>7
<1> HIDE DEF rs, fl
<1> QED BY <1>4, <1>8, <1>9

\* What a call computes: the histories of its rows, block b's from row[b] on, and
\* the answers of its blocks, in their order.
AnswerParts(blocks, ws) == [b \in DOMAIN blocks |-> Answers(blocks[b], ws[b])]
RunReads(blocks, ws, call) ==
  /\ call.new \in Seq(Seq(Int)) /\ Len(call.new) = SumTo(RowsOf(blocks), Len(blocks))
  /\ \A b \in DOMAIN blocks :
       /\ call.row[b] = SumTo(RowsOf(blocks), b - 1) /\ call.row[b] \in Nat
       /\ \A j \in 1..Len(blocks[b].shared) :
            /\ call.row[b] + j \in 1..Len(call.new)
            /\ call.new[call.row[b] + j] = SubSeq(ws[b], 1, blocks[b].past_n + j)
  /\ call.ps = FlattenSeq(AnswerParts(blocks, ws))

\* Each of the rows that a block's answers are read at is one of its own.
IndexIs(ip, blocks) ==
  /\ ip \in Seq(Seq(Nat)) /\ Len(ip) = Len(blocks)
  /\ \A b \in 1..Len(blocks) :
       /\ AnswersOf(blocks[b]) \in Nat /\ Len(ip[b]) = AnswersOf(blocks[b])
       /\ \A q \in 1..AnswersOf(blocks[b]) :
            ip[b][q] = SumTo(RowsOf(blocks), b - 1) + AnswerRow(blocks[b], Trees(blocks)[b], q)

\* The rows that answers are read at, block by block.
LEMMA IndexAre ==
  ASSUME NEW blocks, NEW ws, SoundCall(blocks, ws)
  PROVE  IndexIs(IndexParts(blocks), blocks)
<1> DEFINE n == Len(blocks)
           ip == IndexParts(blocks)
<1>1. n \in Nat /\ DOMAIN blocks = 1..n
  BY DEF SoundCall
<1>2. ASSUME NEW b \in 1..n
      PROVE  /\ ip[b] \in Seq(Nat) /\ Len(ip[b]) = AnswersOf(blocks[b]) /\ AnswersOf(blocks[b]) \in Nat
             /\ \A q \in 1..AnswersOf(blocks[b]) :
                  ip[b][q] = SumTo(RowsOf(blocks), b - 1) + AnswerRow(blocks[b], Trees(blocks)[b], q)
  <2> DEFINE t == Trees(blocks)[b]
             B == blocks[b]
             row == SumTo(RowsOf(blocks), b - 1)
             S == Len(B.shared)
             K == Len(B.tails)
  <2>1. Sound(B, ws[b]) /\ TreeInv(B.tails, t) /\ \A q \in DOMAIN B.tails : t.leaf[q] # 0
    BY <1>1, TreesAreWhole
  <2>2. row \in Nat
    <3>1. RowsOf(blocks) \in [1..n -> Nat] /\ b - 1 \in 0..n
      BY <1>1, CountsAre
    <3> QED BY <1>1, <3>1, Sums
  <2>3. Starting(blocks)[b] = row
    BY <1>1 DEF Starting
  <2>4. S \in Nat /\ B.tails \in Seq(Seq(Int)) /\ AnswersOf(B) \in Nat
    <3>1. S \in Nat /\ B.tails \in Seq(Seq(Int))
      BY <2>1 DEF Sound, QuestionTails
    <3> QED BY <2>1, <3>1, AnswersAre
  <2>5. K \in Nat /\ DOMAIN B.tails = 1..K
    BY <2>4
  <2>6. ip[b] = IF B.tails = <<>> THEN <<row + S>>
                ELSE [q \in 1..K |-> NodeRow(t, row + S, t.leaf[q]) + 1]
    BY <1>1, <2>3, <2>5 DEF IndexParts
  <2>7. CASE B.tails = <<>>
    <3>1. ip[b] = <<row + S>> /\ AnswersOf(B) = 1
      BY <2>6, <2>7 DEF AnswersOf
    <3> HIDE DEF ip, S, row, K
    <3>2. AnswerRow(B, t, 1) = S
      BY <2>4, <2>7 DEF AnswerRow, S
    <3>3. row + S \in Nat
      BY <2>2, <2>4
    <3> HIDE DEF B
    <3>4. ip[b] \in Seq(Nat) /\ Len(ip[b]) = 1 /\ ip[b][1] = row + S
      BY <3>1, <3>3
    <3>5. \A q \in 1..1 : q = 1
      OBVIOUS
    <3> QED BY <3>1, <3>2, <3>4, <3>5 DEF B, row
  <2>8. CASE B.tails # <<>>
    <3> DEFINE s == NodeLens(t)
               g(q) == NodeRow(t, row + S, t.leaf[q]) + 1
    <3>1. AnswersOf(B) = K
      BY <2>8 DEF AnswersOf
    <3>2. ASSUME NEW q \in 1..K PROVE g(q) \in Nat /\ g(q) = row + AnswerRow(B, t, q)
      <4>1. SumTo(s, t.leaf[q] - 1) \in Nat
        <5>1. Len(t.nodes) \in Nat /\ DOMAIN t.nodes = 1..Len(t.nodes) /\ s \in [1..Len(t.nodes) -> Nat]
          BY <2>1, NodeLensAre
        <5>2. t.leaf[q] \in DOMAIN t.nodes
          <6>1. LeafInv(B.tails, t.nodes, t.todo, t.leaf)
            BY <2>1 DEF TreeInv
          <6> QED BY <2>1, <2>5, <6>1 DEF LeafInv
        <5> HIDE DEF s, t
        <5>3. t.leaf[q] - 1 \in 0..Len(t.nodes)
          BY <5>1, <5>2
        <5> QED BY <5>1, <5>3, Sums
      <4>2. NodeRow(t, row + S, t.leaf[q]) = row + S + SumTo(s, t.leaf[q] - 1)
        BY DEF NodeRow, NodeLens
      <4>3. AnswerRow(B, t, q) = S + (SumTo(s, t.leaf[q] - 1) + 1)
        BY <2>8 DEF AnswerRow
      <4> HIDE DEF S, s, row, t, B
      <4> QED BY <2>2, <2>4, <4>1, <4>2, <4>3
    <3>3. ip[b] = [q \in 1..K |-> g(q)]
      BY <2>6, <2>8
    <3> HIDE DEF g, ip, K
    <3>4. ip[b] \in [1..K -> Nat]
      BY <3>2, <3>3
    <3>5. ip[b] \in Seq(Nat) /\ Len(ip[b]) = K
      BY <2>5, <3>4, ArrayIsSeq
    <3>6. \A q \in 1..K : ip[b][q] = row + AnswerRow(B, t, q)
      BY <3>2, <3>3
    <3> QED BY <2>5, <3>1, <3>5, <3>6 DEF B, t, row
  <2> QED BY <2>7, <2>8
<1>3. ip = [b \in 1..n |-> ip[b]]
  BY <1>1 DEF IndexParts
<1> HIDE DEF ip, n
<1>4. ip \in [1..n -> Seq(Nat)]
  BY <1>2, <1>3
<1>5. ip \in Seq(Seq(Nat)) /\ Len(ip) = n
  BY <1>1, <1>4, ArrayIsSeq
<1> QED BY <1>2, <1>5 DEF IndexIs, ip, n

\* One answer per question, or one if a block has none.
AnswerPartsIs(ap, blocks) ==
  /\ ap \in Seq(Seq(Seq(Int))) /\ Len(ap) = Len(blocks)
  /\ \A b \in 1..Len(blocks) : Len(ap[b]) = AnswersOf(blocks[b])

\* The answers a call owes are as many as it reads.
LEMMA AnswerPartsAre ==
  ASSUME NEW blocks, NEW ws, SoundCall(blocks, ws)
  PROVE  AnswerPartsIs(AnswerParts(blocks, ws), blocks)
<1> DEFINE n == Len(blocks)
           ap == AnswerParts(blocks, ws)
           a(b) == Answers(blocks[b], ws[b])
<1>1. n \in Nat /\ DOMAIN blocks = 1..n
  BY DEF SoundCall
<1>2. \A b \in 1..n : a(b) \in Seq(Seq(Int)) /\ Len(a(b)) = AnswersOf(blocks[b])
  BY <1>1, AnswersAre DEF SoundCall
<1>3. ap = [b \in 1..n |-> a(b)]
  BY <1>1 DEF AnswerParts
<1> HIDE DEF ap, a, n
<1> DEFINE U == Seq(Seq(Int))
<1>4. ap \in [1..n -> U]
  BY <1>2, <1>3
<1> HIDE DEF U
<1>5. ap \in Seq(U) /\ Len(ap) = n
  BY <1>1, <1>4, ArrayIsSeq
<1> QED BY <1>2, <1>3, <1>5 DEF AnswerPartsIs, ap, n, U

\* The answers of a call are read at the rows of the whole prompts.
LEMMA AnswersRead ==
  ASSUME NEW blocks, NEW ws, SoundCall(blocks, ws),
         NEW hs, hs = FlattenSeq(HistoryParts(blocks, ws)),
         NEW at, at = FlattenSeq(IndexParts(blocks)),
         NEW ans, ans = FlattenSeq(AnswerParts(blocks, ws))
  PROVE  [i \in DOMAIN at |-> hs[at[i]]] = ans
<1> DEFINE n == Len(blocks)
           counts == RowsOf(blocks)
           hss == HistoryParts(blocks, ws)
           ip == IndexParts(blocks)
           ap == AnswerParts(blocks, ws)
           ks == [b \in 1..n |-> AnswersOf(blocks[b])]
<1>1. n \in Nat /\ DOMAIN blocks = 1..n
  BY DEF SoundCall
<1>2. /\ ip \in Seq(Seq(Nat)) /\ Len(ip) = n
      /\ \A b \in 1..n : /\ AnswersOf(blocks[b]) \in Nat /\ Len(ip[b]) = AnswersOf(blocks[b])
                         /\ \A q \in 1..AnswersOf(blocks[b]) :
                              ip[b][q] = SumTo(counts, b - 1) + AnswerRow(blocks[b], Trees(blocks)[b], q)
  <2>1. IndexIs(ip, blocks)
    BY IndexAre
  <2> QED BY <2>1 DEF IndexIs
<1>3. /\ ap \in Seq(Seq(Seq(Int))) /\ Len(ap) = n
      /\ \A b \in 1..n : Len(ap[b]) = AnswersOf(blocks[b])
  <2>1. AnswerPartsIs(ap, blocks)
    BY AnswerPartsAre
  <2> QED BY <2>1 DEF AnswerPartsIs
<1>4. ks \in [1..n -> Nat]
  BY <1>2
<1>5. Lens(ip) = ks
  <2>1. DOMAIN ip = 1..n /\ \A b \in 1..n : Len(ip[b]) = ks[b]
    BY <1>2
  <2> HIDE DEF ks, ip
  <2> QED BY <1>4, <2>1 DEF Lens
<1>6. Lens(ap) = ks
  <2>1. DOMAIN ap = 1..n /\ \A b \in 1..n : Len(ap[b]) = ks[b]
    BY <1>3
  <2> HIDE DEF ks, ap
  <2> QED BY <1>4, <2>1 DEF Lens
<1>7. hss \in Seq(Seq(Seq(Int))) /\ Len(hss) = n /\ Lens(hss) = counts
  BY HistoryPartsAre
<1> HIDE DEF counts, hss, ip, ap
<1>8. hs \in Seq(Seq(Int)) /\ Flat(hss, hs)
  BY <1>7, FlattenIs DEF hss
<1>9. at \in Seq(Nat) /\ Flat(ip, at)
  BY <1>2, FlattenIs DEF ip
<1>10. ans \in Seq(Seq(Int)) /\ Flat(ap, ans)
  BY <1>3, FlattenIs DEF ap
<1>11. DOMAIN hss = 1..n /\ DOMAIN ip = 1..n /\ DOMAIN ap = 1..n
  BY <1>2, <1>3, <1>7
<1>12. Len(at) = SumTo(ks, n) /\ Len(ans) = SumTo(ks, n)
  <2> HIDE DEF ks, n
  <2> QED BY <1>2, <1>3, <1>5, <1>6, <1>9, <1>10 DEF Flat
<1>13. \A b \in 1..n : ks[b] = AnswersOf(blocks[b])
  OBVIOUS
<1>14. ASSUME NEW i \in 1..SumTo(ks, n) PROVE hs[at[i]] = ans[i]
  <2> HIDE DEF ks, n
  <2>1. PICK b \in 1..n : i - SumTo(ks, b - 1) \in 1..ks[b]
    BY <1>1, <1>4, PlaceInSum
  <2> DEFINE q == i - SumTo(ks, b - 1)
             l == AnswerRow(blocks[b], Trees(blocks)[b], q)
  <2>2. SumTo(ks, b - 1) \in Nat /\ ks[b] \in Nat
    <3>1. b - 1 \in 0..n
      BY <1>1
    <3> QED BY <1>1, <1>4, <3>1, Sums
  <2>3. q \in 1..ks[b] /\ i = SumTo(ks, b - 1) + q
    BY <2>1, <2>2
  <2>4. /\ Sound(blocks[b], ws[b]) /\ TreeInv(blocks[b].tails, Trees(blocks)[b])
        /\ \A x \in DOMAIN blocks[b].tails : Trees(blocks)[b].leaf[x] # 0
    BY <1>1, TreesAreWhole
  <2> HIDE DEF q
  <2>5. q \in 1..AnswersOf(blocks[b])
    BY <1>13, <2>3
  <2>6. at[i] = SumTo(counts, b - 1) + l
    <3>1. q \in 1..Len(ip[b])
      BY <1>2, <2>5
    <3>2. at[SumTo(ks, b - 1) + q] = ip[b][q]
      BY <1>5, <1>9, <1>11, <3>1 DEF Flat
    <3> QED BY <1>2, <2>3, <2>5, <3>2
  <2>7. ans[i] = Answers(blocks[b], ws[b])[q]
    <3>1. q \in 1..Len(ap[b])
      BY <1>3, <2>5
    <3>2. ans[SumTo(ks, b - 1) + q] = ap[b][q]
      BY <1>6, <1>10, <1>11, <3>1 DEF Flat
    <3>3. ap[b] = Answers(blocks[b], ws[b])
      BY <1>1 DEF ap, AnswerParts
    <3> QED BY <2>3, <3>2, <3>3
  <2> DEFINE h == Histories(blocks[b], ws[b], Trees(blocks)[b])
  <2>8. l \in 1..Len(h) /\ h[l] = Answers(blocks[b], ws[b])[q]
    BY <2>4, <2>5, BlockAnswers
  <2>9. hss[b] = h
    BY <1>1 DEF hss, HistoryParts
  <2> HIDE DEF h, l
  <2>10. hs[SumTo(counts, b - 1) + l] = h[l]
    BY <1>7, <1>8, <1>11, <2>8, <2>9 DEF Flat
  <2> QED BY <2>6, <2>7, <2>8, <2>10
<1> HIDE DEF ks, n
<1>15. DOMAIN at = 1..SumTo(ks, n) /\ ans = [i \in 1..SumTo(ks, n) |-> ans[i]]
  BY <1>9, <1>10, <1>12
<1> QED BY <1>14, <1>15

\* A call reads what its blocks ask, whoever shares it.
LEMMA RunIs ==
  ASSUME NEW blocks, NEW ws, SoundCall(blocks, ws)
  PROVE  RunReads(blocks, ws, run(blocks))
<1> DEFINE n == Len(blocks)
           counts == RowsOf(blocks)
           hss == HistoryParts(blocks, ws)
           hs == FlattenSeq(hss)
           at == FlattenSeq(IndexParts(blocks))
           cached == FlattenSeq(CachedParts(blocks))
           rows == FlattenSeq(RowParts(blocks))
           call == run(blocks)
<1>1. n \in Nat /\ DOMAIN blocks = 1..n
  BY DEF SoundCall
<1>2. ReadRows(cached, rows) = hs
  BY CallReads
<1>3. [i \in DOMAIN at |-> hs[at[i]]] = FlattenSeq(AnswerParts(blocks, ws))
  BY AnswersRead
<1>4. hss \in Seq(Seq(Seq(Int))) /\ Len(hss) = n /\ Lens(hss) = counts
  BY HistoryPartsAre
<1>5. hs \in Seq(Seq(Int)) /\ Flat(hss, hs)
  BY <1>4, FlattenIs
<1> HIDE DEF hs
<1>6. call = [new |-> hs, row |-> Starting(blocks), ps |-> [i \in DOMAIN at |-> hs[at[i]]]]
  BY <1>2, RunUnfolds
<1>7. call.new = hs /\ call.row = Starting(blocks) /\ call.ps = FlattenSeq(AnswerParts(blocks, ws))
  BY <1>3, <1>6
<1> HIDE DEF call
<1>8. Len(hs) = SumTo(counts, n)
  <2> HIDE DEF n, hss
  <2> QED BY <1>4, <1>5 DEF Flat
<1>9. ASSUME NEW b \in DOMAIN blocks
      PROVE  /\ call.row[b] = SumTo(counts, b - 1) /\ call.row[b] \in Nat
             /\ \A j \in 1..Len(blocks[b].shared) :
                  /\ call.row[b] + j \in 1..Len(call.new)
                  /\ call.new[call.row[b] + j] = SubSeq(ws[b], 1, blocks[b].past_n + j)
  <2>1. call.row[b] = SumTo(counts, b - 1)
    BY <1>7 DEF Starting
  <2>2. SumTo(counts, b - 1) \in Nat
    <3>1. counts \in [1..n -> Nat] /\ b - 1 \in 0..n
      BY <1>1, CountsAre
    <3> QED BY <1>1, <3>1, Sums
  <2> DEFINE t == Trees(blocks)[b]
             B == blocks[b]
             w == ws[b]
  <2>3. Sound(B, w) /\ TreeInv(B.tails, t)
    BY TreesAreWhole
  <2>4. hss[b] = Histories(B, w, t)
    BY DEF HistoryParts
  <2>5. ASSUME NEW j \in 1..Len(B.shared)
        PROVE  SumTo(counts, b - 1) + j \in 1..Len(hs) /\ hs[SumTo(counts, b - 1) + j] = SubSeq(w, 1, B.past_n + j)
    <3> HIDE DEF B, w, t, hss, counts
    <3> DEFINE h == Histories(B, w, t)
    <3>1. SharedIs(h[j], w, B.past_n + j) /\ j \in 1..Len(h)
      BY <2>3, SharedHistoryIs
    <3> HIDE DEF h
    <3>2. j \in 1..Len(hss[b])
      BY <2>4, <3>1 DEF h
    <3>3. b \in DOMAIN hss
      BY <1>1, <1>4
    <3>4. SumTo(counts, b - 1) + j \in 1..Len(hs) /\ hs[SumTo(counts, b - 1) + j] = hss[b][j]
      BY <1>4, <1>5, <3>2, <3>3 DEF Flat
    <3>5. h[j] \in Seq(Int) /\ Len(h[j]) = B.past_n + j /\ \A x \in 1..(B.past_n + j) : h[j][x] = w[x]
      BY <3>1 DEF SharedIs
    <3>6. w \in Seq(Int) /\ B.past_n \in Nat /\ Len(B.shared) \in Nat /\ Len(w) = B.past_n + Len(B.shared)
      BY <2>3 DEF Sound
    <3>7. Len(h[j]) <= Len(w)
      BY <3>5, <3>6
    <3>8. h[j] = SubSeq(w, 1, B.past_n + j)
      BY <3>5, <3>6, <3>7, IsStart
    <3> QED BY <2>4, <3>4, <3>8 DEF h
  <2> QED BY <1>7, <2>1, <2>2, <2>5
<1>10. RunReads(blocks, ws, call)
  BY <1>5, <1>7, <1>8, <1>9 DEF RunReads
<1> QED BY <1>10 DEF call

-----------------------------------------------------------------------------
(* Common tokens, and sums of parts *)

\* Two sequences agree as far as Common counts.
LEMMA CommonIs ==
  ASSUME NEW a \in Seq(Int), NEW b \in Seq(Int), NEW c, c = Common(a, b)
  PROVE  /\ c \in Nat /\ c <= Len(a) /\ c <= Len(b)
         /\ \A i \in 1..c : a[i] = b[i]
<1> DEFINE T == {n \in DOMAIN a \intersect DOMAIN b : \A i \in 1..n : a[i] = b[i]}
           G == {n \in Nat : n >= 1 /\ n \notin T}
<1>1. Len(a) \in Nat /\ Len(b) \in Nat /\ DOMAIN a = 1..Len(a) /\ DOMAIN b = 1..Len(b)
  OBVIOUS
<1>2. \A n \in T : n \in 1..Len(a) /\ n \in 1..Len(b) /\ \A i \in 1..n : a[i] = b[i]
  BY <1>1
<1>3. \A n \in T : \A m \in 1..n : m \in T
  <2> SUFFICES ASSUME NEW n \in T, NEW m \in 1..n PROVE m \in T
    OBVIOUS
  <2>1. m \in 1..Len(a) /\ m \in 1..Len(b)
    BY <1>1, <1>2
  <2>2. \A i \in 1..m : a[i] = b[i]
    <3>1. \A i \in 1..m : i \in 1..n
      BY <1>1, <1>2
    <3> QED BY <1>2, <3>1
  <2> QED BY <1>1, <2>1, <2>2
<1> HIDE DEF T
<1>4. G \in SUBSET Nat /\ Len(a) + 1 \in G
  BY <1>1, <1>2
<1>5. PICK g \in G : \A y \in G : ~ (y < g)
  BY <1>4, Least
<1>6. g \in Nat /\ g >= 1 /\ g \notin T
  OBVIOUS
<1>7. \A n \in Nat : n >= 1 /\ n < g => n \in T
  BY <1>5
<1>8. T = 1..(g - 1)
  <2>1. \A n \in T : n < g
    <3> SUFFICES ASSUME NEW n \in T, ~(n < g) PROVE FALSE
      OBVIOUS
    <3>1. n \in Nat
      BY <1>2
    <3>2. g \in 1..n
      BY <1>6, <3>1
    <3> QED BY <1>3, <1>6, <3>2
  <2>2. \A n \in T : n \in 1..(g - 1)
    <3> SUFFICES ASSUME NEW n \in T PROVE n \in 1..(g - 1)
      OBVIOUS
    <3>1. n \in 1..Len(a) /\ n < g
      BY <1>2, <2>1
    <3> QED BY <1>1, <1>6, <3>1
  <2>3. \A n \in 1..(g - 1) : n \in T
    BY <1>6, <1>7
  <2> QED BY <2>2, <2>3
<1>9. c = g - 1
  <2>1. c = Cardinality(T)
    BY DEF Common, T
  <2>2. g - 1 \in Nat
    BY <1>6
  <2> DEFINE m == g - 1
  <2> HIDE DEF m
  <2>3. m \in Nat /\ m \in Int /\ 1 \in Int
    BY <2>2 DEF m
  <2>4. Cardinality(1..m) = IF 1 > m THEN 0 ELSE m - 1 + 1
    BY <2>3, FS_Interval
  <2>5. Cardinality(1..m) = m
    BY <2>3, <2>4
  <2> QED BY <1>8, <2>1, <2>5 DEF m
<1>10. CASE c = 0
  BY <1>1, <1>10
<1>11. CASE c # 0
  <2>1. c \in T /\ c \in Nat
    BY <1>6, <1>8, <1>9, <1>11
  <2> QED BY <1>1, <1>2, <2>1
<1> QED BY <1>10, <1>11

\* Numbers laid end to end: the parts' own sums add up.
Nested(n, L, vals, s, sums) ==
  /\ n \in Nat /\ L \in [1..n -> Nat] /\ s \in [1..SumTo(L, n) -> Nat] /\ sums \in [1..n -> Nat]
  /\ \A i \in 1..n : /\ vals[i] \in [1..L[i] -> Nat]
                     /\ \A l \in 1..L[i] : s[SumTo(L, i - 1) + l] = vals[i][l]
                     /\ sums[i] = SumTo(vals[i], L[i])

\* A part's sums are those of the whole, less what came before.
LEMMA PartSums ==
  ASSUME NEW n, NEW L, NEW vals, NEW s, NEW sums, Nested(n, L, vals, s, sums), NEW i \in 1..n
  PROVE  /\ SumTo(L, i - 1) \in Nat /\ L[i] \in Nat /\ SumTo(L, i - 1) + L[i] = SumTo(L, i)
         /\ \A l \in 0..L[i] : SumTo(s, SumTo(L, i - 1) + l) = SumTo(s, SumTo(L, i - 1)) + SumTo(vals[i], l)
         /\ SumTo(s, SumTo(L, i)) = SumTo(s, SumTo(L, i - 1)) + sums[i]
<1> DEFINE a == SumTo(L, i - 1)
           N == SumTo(L, n)
           p == vals[i]
           m == L[i]
<1>1. n \in Nat /\ L \in [1..n -> Nat] /\ s \in [1..N -> Nat]
  BY DEF Nested
<1>2. p \in [1..m -> Nat] /\ (\A l \in 1..m : s[a + l] = p[l]) /\ sums[i] = SumTo(p, m)
  BY DEF Nested
<1>3. a \in Nat /\ N \in Nat /\ SumTo(L, i) = a + m /\ m \in Nat
  <2>1. i - 1 \in 0..n /\ n \in 0..n
    BY <1>1
  <2>2. a \in Nat /\ N \in Nat
    BY <1>1, <2>1, Sums
  <2>3. SumTo(L, i) = a + m
    BY <1>1, Sums
  <2> QED BY <1>1, <2>2, <2>3
<1>4. a + m <= N
  <2>1. i \in 0..n /\ n \in 0..n /\ i <= n
    BY <1>1
  <2>2. SumTo(L, i) <= N
    BY <1>1, <2>1, SumsGrow
  <2> QED BY <1>3, <2>2
<1> HIDE DEF a, N, p, m
<1>5. \A l \in 0..m : SumTo(s, a + l) = SumTo(s, a) + SumTo(p, l)
  <2>1. N \in Nat /\ s \in [1..N -> Nat] /\ a \in Nat /\ m \in Nat /\ a + m <= N /\ p \in [1..m -> Nat]
    BY <1>1, <1>2, <1>3, <1>4
  <2>2. \A l \in 1..m : p[l] = s[a + l]
    BY <1>2
  <2> QED BY <2>1, <2>2, SumsOfPart
<1>6. m \in 0..m
  BY <1>3
<1>7. SumTo(s, a + m) = SumTo(s, a) + sums[i]
  BY <1>2, <1>5, <1>6
<1> QED BY <1>3, <1>5, <1>7 DEF a, p, m

\* ... to those of the whole.
AddUp(n, L, vals, s, sums) ==
  /\ \A i \in 0..n : SumTo(s, SumTo(L, i)) = SumTo(sums, i)
  /\ \A i \in 1..n : \A l \in 0..L[i] :
       SumTo(s, SumTo(L, i - 1) + l) = SumTo(sums, i - 1) + SumTo(vals[i], l)

\* Nested numbers add up.
LEMMA NestedSums ==
  ASSUME NEW n, NEW L, NEW vals, NEW s, NEW sums, Nested(n, L, vals, s, sums)
  PROVE  AddUp(n, L, vals, s, sums)
<1> DEFINE T == {i \in Nat : i <= n => SumTo(s, SumTo(L, i)) = SumTo(sums, i)}
<1>1. n \in Nat /\ L \in [1..n -> Nat] /\ sums \in [1..n -> Nat] /\ s \in [1..SumTo(L, n) -> Nat]
  BY DEF Nested
<1>2. /\ SumTo(L, 0) = 0 /\ SumTo(sums, 0) = 0
      /\ \A i \in 1..n : SumTo(sums, i) = SumTo(sums, i - 1) + sums[i]
  BY <1>1, Sums
<1>3. SumTo(s, 0) = 0
  <2>1. n \in 0..n
    BY <1>1
  <2>2. SumTo(L, n) \in Nat
    BY <1>1, <2>1, Sums
  <2> QED BY <1>1, <2>2, Sums
<1>4. 0 \in T
  BY <1>2, <1>3
<1>5. ASSUME NEW i \in Nat, i \in T PROVE i + 1 \in T
  <2> SUFFICES ASSUME i + 1 <= n PROVE SumTo(s, SumTo(L, i + 1)) = SumTo(sums, i + 1)
    OBVIOUS
  <2> DEFINE e == i + 1
  <2>1. e \in 1..n /\ e - 1 = i /\ SumTo(s, SumTo(L, i)) = SumTo(sums, i)
    BY <1>1, <1>5
  <2> HIDE DEF e
  <2>2. SumTo(s, SumTo(L, e)) = SumTo(s, SumTo(L, e - 1)) + sums[e]
    BY <2>1, PartSums
  <2>3. SumTo(s, SumTo(L, e)) = SumTo(sums, e)
    BY <1>2, <2>1, <2>2
  <2> QED BY <2>3 DEF e
<1> HIDE DEF T
<1>6. \A i \in Nat : i \in T
  BY <1>4, <1>5, Induct
<1>7. \A i \in 0..n : SumTo(s, SumTo(L, i)) = SumTo(sums, i)
  BY <1>1, <1>6 DEF T
<1>8. ASSUME NEW i \in 1..n, NEW l \in 0..L[i]
      PROVE  SumTo(s, SumTo(L, i - 1) + l) = SumTo(sums, i - 1) + SumTo(vals[i], l)
  <2>1. SumTo(s, SumTo(L, i - 1) + l) = SumTo(s, SumTo(L, i - 1)) + SumTo(vals[i], l)
    BY PartSums
  <2>2. i - 1 \in 0..n
    BY <1>1
  <2> QED BY <1>7, <2>1, <2>2
<1> QED BY <1>7, <1>8 DEF AddUp

\* A tree of no questions has no tokens.
LEMMA NoTreeTokens == ASSUME NEW ts PROVE TreeTokens(ts, {}) = 0
<1>1. UNION {Starts(ts[m]) : m \in {}} = {}
  OBVIOUS
<1>2. Cardinality({}) = 0
  BY FS_EmptySet
<1> QED BY <1>1, <1>2 DEF TreeTokens

\* A tree reads no more than its questions have.
LEMMA TreeAtMost ==
  ASSUME NEW tails, QuestionTails(tails), NEW L, L = Lens(tails)
  PROVE  TreeTokens(tails, DOMAIN tails) \in Nat /\ TreeTokens(tails, DOMAIN tails) <= SumTo(L, Len(tails))
<1> DEFINE n == Len(tails)
           T == {i \in Nat : i <= n => TreeTokens(tails, 1..i) \in Nat /\ TreeTokens(tails, 1..i) <= SumTo(L, i)}
<1>1. tails \in Seq(Seq(Int)) /\ n \in Nat /\ DOMAIN tails = 1..n /\ \A q \in 1..n : tails[q] # <<>>
  BY DEF QuestionTails
<1>2. L \in [1..n -> Nat] /\ \A q \in 1..n : L[q] = Len(tails[q])
  BY <1>1, LensIs
<1>3. SumTo(L, 0) = 0 /\ (\A i \in 0..n : SumTo(L, i) \in Nat) /\ \A i \in 1..n : SumTo(L, i) = SumTo(L, i - 1) + L[i]
  BY <1>1, <1>2, Sums
<1>4. 0 \in T
  <2>1. 1..0 = {}
    OBVIOUS
  <2> QED BY <1>3, <2>1, NoTreeTokens
<1>5. ASSUME NEW i \in Nat, i \in T PROVE i + 1 \in T
  <2> SUFFICES ASSUME i + 1 <= n
               PROVE  TreeTokens(tails, 1..(i + 1)) \in Nat /\ TreeTokens(tails, 1..(i + 1)) <= SumTo(L, i + 1)
    OBVIOUS
  <2> DEFINE M == 1..i
             p == i + 1
  <2>1. M \in SUBSET DOMAIN tails /\ p \in DOMAIN tails /\ p \notin M /\ M \union {p} = 1..(i + 1)
    BY <1>1
  <2>2. TreeTokens(tails, M) \in Nat /\ TreeTokens(tails, M) <= SumTo(L, i)
    BY <1>5
  <2>3. SumTo(L, p) = SumTo(L, i) + L[p] /\ SumTo(L, i) \in Nat /\ L[p] \in Nat
    <3>1. p \in 1..n /\ p - 1 = i /\ i \in 0..n
      BY <1>1
    <3> HIDE DEF p
    <3> QED BY <1>2, <1>3, <3>1
  <2> HIDE DEF M, p
  <2>4. /\ added_tokens(tails, M, p) \in Nat
        /\ TreeTokens(tails, M \union {p}) = TreeTokens(tails, M) + added_tokens(tails, M, p)
    BY <1>1, <2>1, AddedIsGrowth
  <2>5. added_tokens(tails, M, p) <= L[p]
    <3> DEFINE S == {x \in 1..Len(tails[p]) : \E m \in M : SharesStart(tails[p], tails[m], x)}
    <3>1. tails[p] \in Seq(Int) /\ Len(tails[p]) = L[p]
      BY <1>1, <1>2, <2>1
    <3>2. IsFiniteSet(1..Len(tails[p])) /\ S \in SUBSET (1..Len(tails[p]))
      <4>1. Len(tails[p]) \in Int /\ 1 \in Int
        BY <3>1
      <4> QED BY <4>1, FS_Interval
    <3> HIDE DEF S
    <3>3. Cardinality(S) \in Nat
      BY <3>2, FS_Subset, FS_CardinalityType
    <3>4. added_tokens(tails, M, p) = Len(tails[p]) - Cardinality(S)
      BY DEF added_tokens, S
    <3> QED BY <2>3, <3>1, <3>3, <3>4
  <2>6. TreeTokens(tails, M \union {p}) \in Nat /\ TreeTokens(tails, M \union {p}) <= SumTo(L, p)
    BY <2>2, <2>3, <2>4, <2>5
  <2> QED BY <2>1, <2>6 DEF p
<1> HIDE DEF T
<1>6. \A i \in Nat : i \in T
  BY <1>4, <1>5, Induct
<1> QED BY <1>1, <1>6 DEF T

-----------------------------------------------------------------------------
(* The cells of a state *)

\* What a sequence has from a + 1 to e.
LEMMA Middle ==
  ASSUME NEW X, NEW s \in Seq(X), NEW a \in Nat, NEW e \in Nat, a <= e, e <= Len(s)
  PROVE  /\ SubSeq(s, a + 1, e) \in Seq(X) /\ Len(SubSeq(s, a + 1, e)) = e - a
         /\ \A j \in 1..(e - a) : a + j \in 1..Len(s) /\ SubSeq(s, a + 1, e)[j] = s[a + j]
<1>1. \A j \in 1..(e - a) : a + j \in 1..Len(s)
  OBVIOUS
<1>2. a + 1 \in 1..(Len(s) + 1) /\ e \in ((a + 1) - 1)..Len(s)
  OBVIOUS
<1>3. /\ SubSeq(s, a + 1, e) \in Seq(X) /\ Len(SubSeq(s, a + 1, e)) = e - a
      /\ \A j \in 1..(e - a) : SubSeq(s, a + 1, e)[j] = s[a + j]
  OBVIOUS
<1> QED BY <1>1, <1>3

\* The cells of a state: one per token, computed from the tokens up to it.
CellsOf(w) == [i \in 1..Len(w) |-> SubSeq(w, 1, i)]

\* They are histories.
LEMMA CellsAre ==
  ASSUME NEW w \in Seq(Int)
  PROVE  /\ CellsOf(w) \in Seq(Seq(Int)) /\ Len(CellsOf(w)) = Len(w)
         /\ \A i \in 1..Len(w) : CellsOf(w)[i] = SubSeq(w, 1, i)
<1>1. Len(w) \in Nat
  OBVIOUS
<1>2. \A i \in 1..Len(w) : SubSeq(w, 1, i) \in Seq(Int)
  <2>1. \A i \in 1..Len(w) : i \in 0..Len(w)
    OBVIOUS
  <2> QED BY <2>1, SubSeqIsStart
<1>3. CellsOf(w) \in [1..Len(w) -> Seq(Int)]
  BY <1>2 DEF CellsOf
<1>4. CellsOf(w) \in Seq(Seq(Int)) /\ Len(CellsOf(w)) = Len(w)
  BY <1>1, <1>3, ArrayIsSeq
<1> QED BY <1>4 DEF CellsOf

\* Cell by cell, those of a state.
LEMMA IsCells ==
  ASSUME NEW w \in Seq(Int), NEW cs \in Seq(Seq(Int)), Len(cs) = Len(w),
         \A i \in 1..Len(w) : cs[i] = SubSeq(w, 1, i)
  PROVE  cs = CellsOf(w)
<1>1. CellsOf(w) \in Seq(Seq(Int)) /\ Len(CellsOf(w)) = Len(w) /\ \A i \in 1..Len(w) : CellsOf(w)[i] = SubSeq(w, 1, i)
  BY CellsAre
<1>2. \A i \in 1..Len(cs) : cs[i] = CellsOf(w)[i]
  BY <1>1
<1> QED BY <1>1, <1>2, SeqEqual

\* The cells a call leaves for a block are those of all the block has read.
LEMMA ExtendIs ==
  ASSUME NEW b, NEW w, Sound(b, w), NEW row \in Nat, NEW new \in Seq(Seq(Int)),
         row + Len(b.shared) <= Len(new),
         \A j \in 1..Len(b.shared) : new[row + j] = SubSeq(w, 1, b.past_n + j)
  PROVE  extend(b, row, new) = CellsOf(w)
<1> DEFINE S == Len(b.shared)
           n0 == b.past_n
           p == b.past
           x == SubSeq(p, 1, n0)
           y == SubSeq(new, row + 1, row + S)
<1>1. /\ w \in Seq(Int) /\ n0 \in Nat /\ n0 <= Len(p) /\ p \in Seq(Seq(Int)) /\ S \in Nat /\ Len(w) = n0 + S
      /\ \A i \in 1..n0 : p[i] = SubSeq(w, 1, i)
  BY DEF Sound
<1>2. \A j \in 1..S : new[row + j] = SubSeq(w, 1, n0 + j)
  OBVIOUS
<1>3. row + S <= Len(new)
  OBVIOUS
<1>4. extend(b, row, new) = x \o y
  BY DEF extend
<1> HIDE DEF S, n0, p
<1>5. x \in Seq(Seq(Int)) /\ Len(x) = n0 /\ \A i \in 1..n0 : x[i] = SubSeq(w, 1, i)
  <2>1. n0 \in 0..Len(p)
    BY <1>1
  <2>2. x \in Seq(Seq(Int)) /\ Len(x) = n0 /\ \A i \in 1..n0 : x[i] = p[i]
    BY <1>1, <2>1, SubSeqIsStart
  <2> QED BY <1>1, <2>2
<1>6. y \in Seq(Seq(Int)) /\ Len(y) = S /\ \A j \in 1..S : y[j] = new[row + j]
  <2> DEFINE e == row + S
  <2>1. e \in Nat /\ row <= e /\ e <= Len(new) /\ e - row = S
    BY <1>1, <1>3
  <2> HIDE DEF e
  <2>2. /\ SubSeq(new, row + 1, e) \in Seq(Seq(Int)) /\ Len(SubSeq(new, row + 1, e)) = e - row
        /\ \A j \in 1..(e - row) : SubSeq(new, row + 1, e)[j] = new[row + j]
    BY <2>1, Middle
  <2> QED BY <2>1, <2>2 DEF e
<1> HIDE DEF x, y
<1> DEFINE z == x \o y
<1>7. /\ z \in Seq(Seq(Int)) /\ Len(z) = Len(x) + Len(y)
      /\ \A i \in 1..(Len(x) + Len(y)) : z[i] = IF i <= Len(x) THEN x[i] ELSE y[i - Len(x)]
  <2>1. x \in Seq(Seq(Int)) /\ y \in Seq(Seq(Int))
    BY <1>5, <1>6
  <2>2. /\ x \o y \in Seq(Seq(Int)) /\ Len(x \o y) = Len(x) + Len(y)
        /\ \A i \in 1..(Len(x) + Len(y)) : (x \o y)[i] = IF i <= Len(x) THEN x[i] ELSE y[i - Len(x)]
    BY <2>1, ConcatProperties
  <2> QED BY <2>2
<1> HIDE DEF z
<1>8. Len(z) = Len(w)
  BY <1>1, <1>5, <1>6, <1>7
<1>9. ASSUME NEW i \in 1..Len(w) PROVE z[i] = SubSeq(w, 1, i)
  <2>0. i \in 1..(n0 + S) /\ n0 \in Nat /\ S \in Nat
    BY <1>1
  <2>1. CASE i <= n0
    <3>1. i \in 1..n0 /\ i \in 1..(Len(x) + Len(y)) /\ i <= Len(x)
      BY <1>5, <1>6, <2>0, <2>1
    <3> QED BY <1>5, <1>7, <3>1
  <2>2. CASE ~(i <= n0)
    <3> DEFINE j == i - n0
    <3>1. j \in 1..S /\ n0 + j = i /\ ~(i <= Len(x)) /\ i \in 1..(Len(x) + Len(y)) /\ i - Len(x) = j
      BY <1>5, <1>6, <2>0, <2>2
    <3> HIDE DEF j
    <3>2. z[i] = y[j]
      BY <1>7, <3>1
    <3>3. y[j] = SubSeq(w, 1, n0 + j)
      BY <1>2, <1>6, <3>1
    <3> QED BY <3>1, <3>2, <3>3
  <2> QED BY <2>1, <2>2
<1>10. z = CellsOf(w)
  BY <1>1, <1>7, <1>8, <1>9, IsCells
<1> QED BY <1>4, <1>10 DEF z

\* A snapshot keeps the cells of the state, which begins what was read.
LEMMA FirstIsCells ==
  ASSUME NEW w \in Seq(Int), NEW n \in 0..Len(w)
  PROVE  SubSeq(w, 1, n) \in Seq(Int) /\ first(CellsOf(w), n) = CellsOf(SubSeq(w, 1, n))
<1> DEFINE g == SubSeq(w, 1, n)
           cs == CellsOf(w)
<1>1. g \in Seq(Int) /\ Len(g) = n
  BY SubSeqIsStart
<1>2. cs \in Seq(Seq(Int)) /\ Len(cs) = Len(w) /\ \A i \in 1..Len(w) : cs[i] = SubSeq(w, 1, i)
  BY CellsAre
<1>3. CASE n >= Len(cs)
  <2>1. n = Len(w)
    BY <1>2, <1>3
  <2>2. g = w
    BY <2>1, WholeSub
  <2>3. first(cs, n) = cs
    BY <1>3 DEF first
  <2> QED BY <1>1, <2>2, <2>3
<1>4. CASE ~(n >= Len(cs))
  <2> DEFINE f == SubSeq(cs, 1, n)
  <2>1. first(cs, n) = f
    BY <1>4 DEF first
  <2> HIDE DEF cs
  <2>2. n \in 0..Len(cs)
    BY <1>2
  <2>3. f \in Seq(Seq(Int)) /\ Len(f) = n /\ \A i \in 1..n : f[i] = cs[i]
    BY <1>2, <2>2, SubSeqIsStart
  <2> HIDE DEF f
  <2>4. \A i \in 1..n : SubSeq(g, 1, i) = SubSeq(w, 1, i)
    <3>1. \A i \in 1..n : i \in 0..n
      OBVIOUS
    <3> QED BY <3>1, SubOfSub
  <2> HIDE DEF g
  <2>5. \A i \in 1..Len(g) : f[i] = SubSeq(g, 1, i)
    <3> SUFFICES ASSUME NEW i \in 1..n PROVE f[i] = SubSeq(g, 1, i)
      BY <1>1
    <3>1. i \in 1..Len(w)
      OBVIOUS
    <3> QED BY <1>2, <2>3, <2>4, <3>1
  <2>6. f = CellsOf(g)
    BY <1>1, <2>3, <2>5, IsCells
  <2> QED BY <1>1, <2>1, <2>6 DEF g, cs
<1> QED BY <1>3, <1>4

\* A request as the engine is given it: prompts that are not empty, of numbers.
TypedRequest(r) ==
  /\ r.prefix \in Seq(Int) /\ Len(r.prefix) \in Nat /\ r.state \in 0..Len(r.prefix)
  /\ QuestionTails(r.tails) /\ r.tails # <<>> /\ Len(r.tails) \in Nat \ {0} /\ DOMAIN r.tails = 1..Len(r.tails)
  /\ \A j \in 1..Len(r.tails) : r.tails[j] \in Seq(Int) /\ r.tails[j] # <<>>

\* Tokens are numbers.
LEMMA SeqOfInts == ASSUME NEW s \in Seq(Nat \ {0}) PROVE s \in Seq(Int)
OBVIOUS

\* The requests are such.
LEMMA RequestIs == ASSUME NEW r \in Requests PROVE TypedRequest(r)
<1>1. /\ r.prefix \in Seq(Nat \ {0}) /\ r.state \in 0..Len(r.prefix)
      /\ r.tails \in Seq(Seq(Nat \ {0})) /\ r.tails # <<>>
      /\ \A j \in DOMAIN r.tails : r.tails[j] # <<>>
  BY RequestsAssumption
<1> DEFINE p == r.prefix
           t == r.tails
<1>2. p \in Seq(Int) /\ Len(p) \in Nat
  BY <1>1, SeqOfInts
<1> HIDE DEF t
<1>3. t \in Seq(Seq(Nat \ {0})) /\ t # <<>> /\ Len(t) \in Nat /\ DOMAIN t = 1..Len(t)
  BY <1>1 DEF t
<1>4. ASSUME NEW j \in 1..Len(t) PROVE t[j] \in Seq(Int)
  <2>1. t[j] \in Seq(Nat \ {0})
    BY <1>3
  <2> QED BY <2>1, SeqOfInts
<1>5. t \in [1..Len(t) -> Seq(Int)]
  BY <1>3, <1>4
<1>6. t \in Seq(Seq(Int)) /\ Len(t) # 0
  BY <1>3, <1>5, ArrayIsSeq, EmptySeq
<1>7. QuestionTails(t)
  BY <1>1, <1>6 DEF QuestionTails, t
<1> QED BY <1>1, <1>2, <1>3, <1>4, <1>6, <1>7 DEF TypedRequest, t

\* A block that goes on with a state, or has all of it, reads it and its questions.
GoesOn(cs, p, at, end, tails) ==
  /\ p \in Seq(Int) /\ at \in Nat /\ end \in Nat /\ at <= end /\ end <= Len(p)
  /\ cs \in Seq(Seq(Int)) /\ at <= Len(cs)
  /\ \A i \in 1..at : cs[i] = SubSeq(p, 1, i)
  /\ QuestionTails(tails)
  /\ tails # <<>> => end = Len(p)
  /\ tails = <<>> => at < end

\* It does, if its cells are those of what came before.
LEMMA SoundState ==
  ASSUME NEW cs, NEW p, NEW at, NEW end, NEW tails, GoesOn(cs, p, at, end, tails),
         NEW b, b = state_block(cs, p, at, end, tails)
  PROVE  Sound(b, SubSeq(p, 1, end)) /\ Len(b.shared) = end - at /\ b.tails = tails /\ b.past_n = at
<1> /\ p \in Seq(Int) /\ at \in Nat /\ end \in Nat /\ at <= end /\ end <= Len(p)
    /\ cs \in Seq(Seq(Int)) /\ at <= Len(cs)
    /\ \A i \in 1..at : cs[i] = SubSeq(p, 1, i)
    /\ QuestionTails(tails) /\ (tails # <<>> => end = Len(p)) /\ (tails = <<>> => at < end)
  BY DEF GoesOn
<1> DEFINE w == SubSeq(p, 1, end)
           sh == SubSeq(p, at + 1, end)
<1>1. end \in 0..Len(p)
  OBVIOUS
<1>2. w \in Seq(Int) /\ Len(w) = end /\ \A i \in 1..end : w[i] = p[i]
  BY <1>1, SubSeqIsStart
<1>3. sh \in Seq(Int) /\ Len(sh) = end - at /\ \A j \in 1..(end - at) : at + j \in 1..Len(p) /\ sh[j] = p[at + j]
  BY Middle
<1>4. \A i \in 1..at : SubSeq(w, 1, i) = SubSeq(p, 1, i)
  <2>1. \A i \in 1..at : i \in 0..end
    OBVIOUS
  <2> QED BY <1>1, <2>1, SubOfSub
<1>5. /\ b.past = cs /\ b.past_n = at /\ b.shared = sh /\ b.shared_pos = at /\ b.tails = tails
      /\ b.skip = Len(p)
  BY DEF state_block, Block
<1> HIDE DEF w, sh
<1>6. \A j \in 1..(end - at) : sh[j] = w[at + j]
  <2> SUFFICES ASSUME NEW j \in 1..(end - at) PROVE sh[j] = w[at + j]
    OBVIOUS
  <2>1. at + j \in 1..end
    OBVIOUS
  <2> QED BY <1>2, <1>3, <2>1
<1>7. tails = <<>> => sh # <<>>
  <2>1. Len(<<>>) = 0
    OBVIOUS
  <2> QED BY <1>3, <2>1
<1>8. Len(w) = at + Len(sh)
  BY <1>2, <1>3
<1>9. \A i \in 1..at : cs[i] = SubSeq(w, 1, i)
  BY <1>4
<1>10. \A j \in 1..Len(sh) : sh[j] = w[at + j]
  BY <1>3, <1>6
<1>11. tails # <<>> => b.skip = Len(w)
  BY <1>2, <1>5
<1>12. Sound(b, w)
  BY <1>2, <1>3, <1>5, <1>7, <1>8, <1>9, <1>10, <1>11 DEF Sound
<1> QED BY <1>3, <1>5, <1>12 DEF w

\* A prompt by itself is read whole.
LEMMA SoundAlone ==
  ASSUME NEW w \in Seq(Int), w # <<>>
  PROVE  Sound(alone(w), w)
<1> DEFINE b == alone(w)
<1>1. /\ b.past = <<>> /\ b.past_n = 0 /\ b.shared = w /\ b.shared_pos = 0 /\ b.tails = <<>> /\ b.skip = 0
  BY DEF alone, Block
<1> HIDE DEF b
<1>2. <<>> \in Seq(Seq(Int)) /\ Len(<<>>) = 0 /\ Len(w) \in Nat
  OBVIOUS
<1>3. QuestionTails(<<>>)
  BY <1>2 DEF QuestionTails
<1>4. \A j \in 1..Len(w) : w[0 + j] = w[j]
  OBVIOUS
<1>5. \A i \in 1..0 : b.past[i] = SubSeq(w, 1, i)
  OBVIOUS
<1>6. Len(w) = 0 + Len(w) /\ 0 \in Nat /\ 0 <= 0
  BY <1>2
<1>7. Sound(b, w)
  BY <1>1, <1>2, <1>3, <1>4, <1>5, <1>6 DEF Sound
<1> QED BY <1>7 DEF b

\* A snapshot has the cells of its own tokens.
Faithful(e) == e.tokens \in Seq(Int) /\ e.cells = CellsOf(e.tokens)

\* A request goes on from an entry as far as both have the same tokens.
LEMMA SoundFound ==
  ASSUME NEW r, TypedRequest(r), NEW e, Faithful(e), NEW c, c = Common(e.tokens, r.prefix)
  PROVE  /\ c \in Nat /\ c <= Len(r.prefix) /\ e.cells \in Seq(Seq(Int)) /\ c <= Len(e.cells)
         /\ \A i \in 1..c : e.cells[i] = SubSeq(r.prefix, 1, i)
<1> DEFINE a == e.tokens
           p == r.prefix
           cs == e.cells
<1>1. a \in Seq(Int) /\ cs = CellsOf(a) /\ p \in Seq(Int)
  BY DEF Faithful, TypedRequest
<1> HIDE DEF a, p, cs
<1>2. c = Common(a, p)
  BY DEF a, p
<1>3. c \in Nat /\ c <= Len(a) /\ c <= Len(p) /\ \A i \in 1..c : a[i] = p[i]
  BY <1>1, <1>2, CommonIs
<1>4. cs \in Seq(Seq(Int)) /\ Len(cs) = Len(a) /\ \A i \in 1..Len(a) : cs[i] = SubSeq(a, 1, i)
  BY <1>1, CellsAre
<1>5. ASSUME NEW i \in 1..c PROVE cs[i] = SubSeq(p, 1, i)
  <2>1. i \in 1..Len(a) /\ i \in 0..Len(a) /\ i \in 0..Len(p)
    BY <1>1, <1>3
  <2>2. \A x \in 1..i : a[x] = p[x]
    BY <1>3
  <2>3. SubSeq(a, 1, i) = SubSeq(p, 1, i)
    BY <1>1, <2>1, <2>2, SameSub
  <2> QED BY <1>4, <2>1, <2>3
<1> QED BY <1>3, <1>4, <1>5 DEF p, cs

-----------------------------------------------------------------------------
(* Calls of one block *)

\* A sum of one.
LEMMA SumOfOne ==
  ASSUME NEW s \in [1..1 -> Nat]
  PROVE  SumTo(s, 1) = s[1] /\ SumTo(s, 0) = 0
<1>1. SumTo(s, 0) = 0 /\ \A i \in 1..1 : SumTo(s, i) = SumTo(s, i - 1) + s[i]
  BY Sums
<1>2. SumTo(s, 1) = SumTo(s, 1 - 1) + s[1] /\ 1 - 1 = 0 /\ s[1] \in Nat
  BY <1>1
<1> QED BY <1>1, <1>2

\* One sequence, put together.
LEMMA FlattenOne ==
  ASSUME NEW X, NEW s \in Seq(X)
  PROVE  FlattenSeq(<<s>>) = s
<1> DEFINE ss == <<s>>
           f == FlattenSeq(ss)
<1>1. ss \in Seq(Seq(X)) /\ Len(ss) = 1 /\ ss[1] = s /\ 1 \in DOMAIN ss
  OBVIOUS
<1> HIDE DEF ss
<1>2. f \in Seq(X) /\ Flat(ss, f)
  BY <1>1, FlattenIs
<1>3. Lens(ss) \in [1..1 -> Nat] /\ Lens(ss)[1] = Len(s)
  BY <1>1, LensIs
<1>4. SumTo(Lens(ss), 1) = Len(s) /\ SumTo(Lens(ss), 0) = 0
  BY <1>3, SumOfOne
<1> HIDE DEF f
<1>5. Len(f) = Len(s)
  BY <1>1, <1>2, <1>4 DEF Flat
<1>6. ASSUME NEW i \in 1..Len(s) PROVE f[i] = s[i]
  <2>1. f[SumTo(Lens(ss), 1 - 1) + i] = ss[1][i]
    BY <1>1, <1>2 DEF Flat
  <2>2. SumTo(Lens(ss), 1 - 1) + i = i
    BY <1>4
  <2> QED BY <1>1, <2>1, <2>2
<1>7. f = s
  BY <1>2, <1>5, <1>6, SeqEqual
<1> QED BY <1>7 DEF f, ss

\* A call of one block.
OneReads(b, w, call) ==
  /\ Len(call.new) = Len(b.shared) + TreeTokens(b.tails, DOMAIN b.tails)
  /\ extend(b, 0, call.new) = CellsOf(w)
  /\ call.ps = Answers(b, w)

\* A call of one block computes what the block reads, and answers it.
LEMMA OneRunIs ==
  ASSUME NEW b, NEW w, Sound(b, w)
  PROVE  OneReads(b, w, run(<<b>>))
<1> DEFINE blocks == <<b>>
           ws == <<w>>
           call == run(blocks)
           counts == RowsOf(blocks)
<1>1. Len(blocks) = 1 /\ DOMAIN blocks = 1..1 /\ blocks[1] = b /\ ws[1] = w /\ 1 \in DOMAIN blocks
  OBVIOUS
<1> HIDE DEF blocks, ws
<1>2. SoundCall(blocks, ws)
  <2>1. \A x \in DOMAIN blocks : x = 1
    BY <1>1
  <2> QED BY <1>1, <2>1 DEF SoundCall
<1>3. RunReads(blocks, ws, call)
  BY <1>2, RunIs
<1>4. counts \in [1..1 -> Nat]
  BY <1>1, <1>2, CountsAre
<1>5. SumTo(counts, 1) = counts[1] /\ SumTo(counts, 0) = 0
  BY <1>4, SumOfOne
<1>6. counts[1] = Len(b.shared) + TreeTokens(b.tails, DOMAIN b.tails)
  <2>1. Trees(blocks)[1].tokens = TreeTokens(b.tails, DOMAIN b.tails)
    BY <1>1, <1>2, TreesAreWhole
  <2> QED BY <1>1, <2>1 DEF RowsOf
<1> HIDE DEF call, counts
<1>7. call.new \in Seq(Seq(Int)) /\ Len(call.new) = counts[1]
  BY <1>1, <1>3, <1>5 DEF RunReads, counts
<1>8. \A j \in 1..Len(b.shared) : call.new[0 + j] = SubSeq(w, 1, b.past_n + j)
  <2> SUFFICES ASSUME NEW j \in 1..Len(b.shared) PROVE call.new[0 + j] = SubSeq(w, 1, b.past_n + j)
    OBVIOUS
  <2>1. call.row[1] = SumTo(counts, 1 - 1)
    BY <1>1, <1>3 DEF RunReads, counts
  <2>2. call.row[1] = 0
    BY <1>5, <2>1
  <2>3. call.new[call.row[1] + j] = SubSeq(ws[1], 1, blocks[1].past_n + j)
    BY <1>1, <1>3 DEF RunReads
  <2> QED BY <1>1, <2>2, <2>3
<1>9. Len(b.shared) \in Nat /\ TreeTokens(b.tails, DOMAIN b.tails) \in Nat
  BY TreeAtMost DEF Sound
<1>10. extend(b, 0, call.new) = CellsOf(w)
  <2>1. 0 + Len(b.shared) <= Len(call.new) /\ 0 \in Nat
    BY <1>6, <1>7, <1>9
  <2> QED BY <1>7, <1>8, <2>1, ExtendIs
<1>11. call.ps = Answers(b, w)
  <2>1. AnswerParts(blocks, ws) = <<Answers(b, w)>>
    <3>1. AnswerParts(blocks, ws) = [x \in 1..1 |-> Answers(blocks[x], ws[x])]
      BY <1>1 DEF AnswerParts
    <3>2. [x \in 1..1 |-> Answers(blocks[x], ws[x])] = [x \in 1..1 |-> Answers(b, w)]
      BY <1>1
    <3>3. [x \in 1..1 |-> Answers(b, w)] = <<Answers(b, w)>>
      OBVIOUS
    <3> QED BY <3>1, <3>2, <3>3
  <2>2. Answers(b, w) \in Seq(Seq(Int))
    BY AnswersAre
  <2>3. FlattenSeq(<<Answers(b, w)>>) = Answers(b, w)
    BY <2>2, FlattenOne
  <2>4. call.ps = FlattenSeq(AnswerParts(blocks, ws))
    BY <1>3 DEF RunReads
  <2> QED BY <2>1, <2>3, <2>4
<1>12. OneReads(b, w, call)
  BY <1>6, <1>7, <1>10, <1>11 DEF OneReads
<1> QED BY <1>12 DEF call, blocks

\* tokens() adds the state and what each prompt has after it.
LEMMA SizeIs ==
  ASSUME NEW r, TypedRequest(r)
  PROVE  /\ Lens(r.tails) \in [1..Len(r.tails) -> Nat]
         /\ \A j \in 1..Len(r.tails) : Lens(r.tails)[j] = Len(r.tails[j])
         /\ SumTo(Lens(r.tails), Len(r.tails)) \in Nat
         /\ Size(r) = Len(r.prefix) + SumTo(Lens(r.tails), Len(r.tails)) /\ Size(r) \in Nat
<1> DEFINE t == r.tails
<1>1. t \in Seq(Seq(Int)) /\ Len(t) \in Nat /\ Len(r.prefix) \in Nat
  BY DEF TypedRequest, QuestionTails
<1> HIDE DEF t
<1>2. Lens(t) \in [1..Len(t) -> Nat] /\ \A j \in 1..Len(t) : Lens(t)[j] = Len(t[j])
  <2>1. DOMAIN t = 1..Len(t)
    BY <1>1
  <2> QED BY <1>1, <2>1, LensIs
<1>3. Len(FlattenSeq(t)) = SumTo(Lens(t), Len(t))
  BY <1>1, FlattenIs DEF Flat
<1>4. SumTo(Lens(t), Len(t)) \in Nat
  <2>1. Len(t) \in 0..Len(t)
    BY <1>1
  <2> QED BY <1>1, <1>2, <2>1, Sums
<1>5. Size(r) = Len(r.prefix) + SumTo(Lens(t), Len(t))
  BY <1>3 DEF Size, t
<1> QED BY <1>1, <1>2, <1>4, <1>5 DEF t

\* A request's size is that of a batch of one.
LEMMA SizeOfOne ==
  ASSUME NEW r, TypedRequest(r), NEW b, b = <<r>>
  PROVE  SumTo([i \in DOMAIN b |-> Size(b[i])], Len(b)) = Size(r)
<1> DEFINE s == [i \in DOMAIN b |-> Size(b[i])]
<1>1. Len(b) = 1 /\ DOMAIN b = 1..1 /\ \A i \in 1..1 : b[i] = r
  OBVIOUS
<1>2. Size(r) \in Nat
  BY SizeIs
<1>3. s \in [1..1 -> Nat] /\ s[1] = Size(r)
  BY <1>1, <1>2
<1> HIDE DEF s
<1>4. SumTo(s, 1) = Size(r)
  BY <1>3, SumOfOne
<1> QED BY <1>1, <1>4 DEF s

\* `cs` are the cells of the first `at` tokens of a request's state, and more of
\* another's, if they are an entry's.
ReadSoFar(r, cs, at, own) ==
  /\ at \in Nat /\ at <= Len(r.prefix)
  /\ cs \in Seq(Seq(Int)) /\ at <= Len(cs)
  /\ \A i \in 1..at : cs[i] = SubSeq(r.prefix, 1, i)
  /\ own => Len(cs) = at

\* A call reads part of a request's state up to `end`, and n questions from q on.
Asks(r, at, end, q, n) ==
  /\ end \in Nat /\ at <= end /\ end <= Len(r.prefix)
  /\ q \in Nat /\ q >= 1 /\ n \in Nat /\ q + n <= Len(r.tails) + 1
  /\ n # 0 => end = Len(r.prefix)
  /\ n = 0 => at < end
Asked(r, q, n) == [i \in 1..n |-> r.tails[q + i - 1]]

\* What the call gives: the state's cells up to `end`, those answers, and no more rows than the request has tokens.
CallGives(r, b, end, q, n, call) ==
  /\ Len(call.new) \in Nat /\ Len(call.new) <= Size(r)
  /\ extend(b, 0, call.new) = CellsOf(SubSeq(r.prefix, 1, end))
  /\ \A j \in q..(q + n - 1) : call.ps[j - q + 1] = Prompt(r, j)

\* Questions after the state.
LEMMA AskedAre ==
  ASSUME NEW r, TypedRequest(r), NEW q \in Nat, NEW n \in Nat, q >= 1, q + n <= Len(r.tails) + 1
  PROVE  /\ QuestionTails(Asked(r, q, n)) /\ Len(Asked(r, q, n)) = n
         /\ Asked(r, q, n) = <<>> <=> n = 0
         /\ SumTo(Lens(Asked(r, q, n)), n) \in Nat
         /\ SumTo(Lens(Asked(r, q, n)), n) <= SumTo(Lens(r.tails), Len(r.tails))
<1> DEFINE t == r.tails
           N == Len(t)
           s == Asked(r, q, n)
           L == Lens(t)
           P0 == Lens(s)
           a == q - 1
<1>1. /\ t \in Seq(Seq(Int)) /\ N \in Nat
      /\ \A j \in 1..N : t[j] \in Seq(Int) /\ t[j] # <<>>
      /\ L \in [1..N -> Nat] /\ \A j \in 1..N : L[j] = Len(t[j])
  <2>1. t \in Seq(Seq(Int)) /\ N \in Nat /\ \A j \in 1..N : t[j] \in Seq(Int) /\ t[j] # <<>>
    BY DEF TypedRequest, QuestionTails
  <2> QED BY <2>1, SizeIs
<1>2. a \in Nat /\ a + n <= N
  <2>1. N \in Nat
    BY <1>1
  <2> QED BY <2>1
<1>3. \A i \in 1..n : a + i \in 1..N /\ q + i - 1 = a + i
  BY <1>1, <1>2
<1>4. s = [i \in 1..n |-> t[a + i]]
  BY <1>3 DEF Asked
<1> HIDE DEF t, N, s, a
<1>5. s \in [1..n -> Seq(Int)]
  BY <1>1, <1>3, <1>4
<1>6. s \in Seq(Seq(Int)) /\ Len(s) = n
  BY <1>5, ArrayIsSeq
<1>7. QuestionTails(s)
  <2>1. DOMAIN s = 1..n /\ \A i \in 1..n : s[i] # <<>>
    BY <1>1, <1>3, <1>4
  <2> QED BY <1>6, <2>1 DEF QuestionTails
<1>8. s = <<>> <=> n = 0
  BY <1>6, EmptySeq
<1>9. P0 \in [1..n -> Nat] /\ \A i \in 1..n : P0[i] = Len(s[i])
  <2>1. DOMAIN s = 1..n
    BY <1>6
  <2> QED BY <1>6, <2>1, LensIs
<1> HIDE DEF P0, L
<1>10. \A i \in 1..n : P0[i] = L[a + i]
  BY <1>1, <1>3, <1>4, <1>9
<1>11. \A i \in 0..n : SumTo(L, a + i) = SumTo(L, a) + SumTo(P0, i)
  BY <1>1, <1>2, <1>9, <1>10, SumsOfPart
<1>12. SumTo(L, a + n) = SumTo(L, a) + SumTo(P0, n)
  <2>1. n \in 0..n
    OBVIOUS
  <2> QED BY <1>11, <2>1
<1>13. /\ SumTo(L, a) \in Nat /\ SumTo(L, a + n) \in Nat /\ SumTo(L, N) \in Nat
       /\ SumTo(L, a + n) <= SumTo(L, N) /\ SumTo(P0, n) \in Nat
  <2>1. a \in 0..N /\ a + n \in 0..N /\ N \in 0..N /\ n \in 0..n
    BY <1>1, <1>2
  <2>2. SumTo(L, a) \in Nat /\ SumTo(L, a + n) \in Nat /\ SumTo(L, N) \in Nat
    BY <1>1, <2>1, Sums
  <2>3. SumTo(P0, n) \in Nat
    BY <1>9, <2>1, Sums
  <2>4. SumTo(L, a + n) <= SumTo(L, N)
    BY <1>1, <1>2, <2>1, SumsGrow
  <2> QED BY <2>2, <2>3, <2>4
<1>14. SumTo(P0, n) <= SumTo(L, N)
  BY <1>12, <1>13
<1> QED BY <1>6, <1>7, <1>8, <1>13, <1>14 DEF s, P0, L, t, N

\* A call of score_one gives that.
LEMMA CallAnswers ==
  ASSUME NEW r, TypedRequest(r), NEW cs, NEW at, NEW own, ReadSoFar(r, cs, at, own),
         NEW end, NEW q, NEW n, Asks(r, at, end, q, n),
         NEW b, b = state_block(cs, r.prefix, at, end, Asked(r, q, n))
  PROVE  CallGives(r, b, end, q, n, run(<<b>>))
<1> DEFINE p == r.prefix
           w == SubSeq(p, 1, end)
           s == Asked(r, q, n)
           call == run(<<b>>)
           L == SumTo(Lens(r.tails), Len(r.tails))
<1>1. p \in Seq(Int) /\ Len(p) \in Nat
  BY DEF TypedRequest
<1>2. /\ at \in Nat /\ at <= Len(p) /\ cs \in Seq(Seq(Int)) /\ at <= Len(cs)
      /\ \A i \in 1..at : cs[i] = SubSeq(p, 1, i)
  BY DEF ReadSoFar
<1>3. /\ end \in Nat /\ at <= end /\ end <= Len(p)
      /\ q \in Nat /\ q >= 1 /\ n \in Nat /\ q + n <= Len(r.tails) + 1
      /\ n # 0 => end = Len(p)
      /\ n = 0 => at < end
  BY DEF Asks
<1>4. /\ QuestionTails(s) /\ Len(s) = n /\ (s = <<>> <=> n = 0)
      /\ SumTo(Lens(s), n) \in Nat /\ SumTo(Lens(s), n) <= L
  BY <1>3, AskedAre
<1>5. Size(r) = Len(p) + L /\ L \in Nat
  BY SizeIs
<1> HIDE DEF p, s, L
<1>6. Sound(b, w) /\ Len(b.shared) = end - at /\ b.tails = s
  <2>1. s # <<>> => end = Len(p)
    BY <1>3, <1>4
  <2>2. s = <<>> => at < end
    BY <1>3, <1>4
  <2>3. b = state_block(cs, p, at, end, s)
    BY DEF p, s
  <2>4. GoesOn(cs, p, at, end, s)
    BY <1>1, <1>2, <1>3, <1>4, <2>1, <2>2 DEF GoesOn
  <2> QED BY <2>3, <2>4, SoundState
<1>7. OneReads(b, w, call)
  BY <1>6, OneRunIs
<1> HIDE DEF call
<1>8. Len(call.new) \in Nat /\ Len(call.new) <= Size(r)
  <2>1. Len(call.new) = (end - at) + TreeTokens(s, DOMAIN s)
    BY <1>6, <1>7 DEF OneReads
  <2>2. TreeTokens(s, DOMAIN s) \in Nat /\ TreeTokens(s, DOMAIN s) <= SumTo(Lens(s), n)
    BY <1>4, TreeAtMost
  <2>3. \A e, a, z, y, l, c \in Nat :
          a <= e /\ e <= z /\ y <= c /\ c <= l => (e - a) + y \in Nat /\ (e - a) + y <= z + l
    OBVIOUS
  <2>4. Len(p) \in Nat /\ end \in Nat /\ at \in Nat /\ at <= end /\ end <= Len(p)
    BY <1>1, <1>2, <1>3
  <2>5. SumTo(Lens(s), n) \in Nat /\ SumTo(Lens(s), n) <= L /\ L \in Nat
    BY <1>4, <1>5
  <2> HIDE DEF L
  <2>6. (end - at) + TreeTokens(s, DOMAIN s) \in Nat /\ (end - at) + TreeTokens(s, DOMAIN s) <= Len(p) + L
    BY <2>2, <2>3, <2>4, <2>5
  <2> QED BY <1>5, <2>1, <2>6
<1>9. extend(b, 0, call.new) = CellsOf(w)
  BY <1>7 DEF OneReads
<1>10. ASSUME NEW j \in q..(q + n - 1) PROVE call.ps[j - q + 1] = Prompt(r, j)
  <2>1. n # 0 /\ j - q + 1 \in 1..n /\ j \in Nat /\ q + (j - q + 1) - 1 = j
    BY <1>3
  <2>2. w = p
    BY <1>1, <1>3, <2>1, WholeSub
  <2>3. Answers(b, w) = [i \in DOMAIN s |-> w \o s[i]]
    BY <1>4, <1>6, <2>1 DEF Answers
  <2> DEFINE i == j - q + 1
  <2>4. i \in DOMAIN s /\ s[i] = r.tails[j]
    BY <2>1 DEF s, Asked
  <2> HIDE DEF i
  <2>5. call.ps[i] = p \o r.tails[j]
    BY <1>7, <2>2, <2>3, <2>4 DEF OneReads
  <2> QED BY <2>5 DEF Prompt, p, i
<1>11. CallGives(r, b, end, q, n, call)
  BY <1>8, <1>9, <1>10 DEF CallGives, p
<1> QED BY <1>11 DEF call

-----------------------------------------------------------------------------
(* The invariant, and the steps of score_one *)

\* The first n - 1 of a request's answers are there.
Answered(r, o, n) ==
  /\ DOMAIN o = 1..1 /\ DOMAIN o[1] = DOMAIN r.tails
  /\ o[1] = [j \in DOMAIN r.tails |-> o[1][j]]
  /\ \A j \in DOMAIN r.tails : j < n => o[1][j] = Prompt(r, j)

\* Inside score_one: what has been read of the state, and by whom.
Reading ==
  pc = "calls" =>
    /\ batch = <<One>> /\ One \in Requests
    /\ ReadSoFar(One, cells, pos, ~from)
    /\ k \in Nat /\ k >= 1 /\ k <= Len(One.tails) + 1
    /\ k > 1 => pos = P
    /\ Answered(One, out, k)

\* The inductive invariant: snapshots have their own states' cells, and a request that is being read goes on from
\* those of its own.
IInv == /\ pc \in {"idle", "calls"}
        /\ \A e \in snapshots : Faithful(e)
        /\ Reading
        /\ AnswersAreTheirOwn
        /\ ReadsWithinSize

\* Without a snapshot nothing is cached, which is no wrong cell.
LEMMA NoEntryFaithful == Faithful(NoEntry)
<1>1. NoEntry.tokens = <<>> /\ NoEntry.cells = <<>>
  BY DEF NoEntry
<1>2. <<>> \in Seq(Int) /\ <<>> \in Seq(Seq(Int)) /\ Len(<<>>) = 0
  OBVIOUS
<1>3. \A i \in 1..Len(<<>>) : <<>>[i] = SubSeq(<<>>, 1, i)
  BY <1>2
<1>4. <<>> = CellsOf(<<>>)
  BY <1>2, <1>3, IsCells
<1> QED BY <1>1, <1>2, <1>4 DEF Faithful

\* What `find` returns is faithful.
LEMMA FoundIs ==
  ASSUME IInv, NEW prefix, NEW e \in Find(prefix)
  PROVE  Faithful(e)
<1>1. e \in snapshots \/ e = NoEntry
  BY DEF Find
<1> QED BY <1>1, NoEntryFaithful DEF IInv

\* Nothing has been read.
LEMMA InitIInv == Init => IInv
<1> SUFFICES ASSUME Init PROVE IInv
  OBVIOUS
<1>1. snapshots = {} /\ pc = "idle" /\ batch = <<>> /\ out = <<>> /\ length = 0
  BY DEF Init
<1>2. AnswersAreTheirOwn
  <2>1. \A i \in DOMAIN <<>> : FALSE
    OBVIOUS
  <2> QED BY <1>1, <2>1 DEF AnswersAreTheirOwn
<1>3. ReadsWithinSize
  <2> DEFINE s == [i \in DOMAIN batch |-> Size(batch[i])]
  <2>1. DOMAIN batch = {} /\ Len(batch) = 0
    BY <1>1
  <2>2. s \in [1..0 -> Nat]
    BY <2>1
  <2> HIDE DEF s
  <2>3. SumTo(s, 0) = 0
    BY <2>2, Sums
  <2> QED BY <1>1, <2>1, <2>3 DEF ReadsWithinSize, s
<1> QED BY <1>1, <1>2, <1>3 DEF IInv, Reading

\* A request by itself is answered when its first element of `out` is.
LEMMA OwnOfOne ==
  ASSUME NEW r, NEW b, b = <<r>>, NEW o, o[1] = [j \in DOMAIN r.tails |-> Prompt(r, j)]
  PROVE  \A i \in DOMAIN b : o[i] = [j \in DOMAIN b[i].tails |-> Prompt(b[i], j)]
<1> SUFFICES ASSUME NEW i \in DOMAIN b PROVE o[i] = [j \in DOMAIN b[i].tails |-> Prompt(b[i], j)]
  OBVIOUS
<1>1. i = 1
  OBVIOUS
<1>2. b[i] = r
  BY <1>1
<1> QED BY <1>1, <1>2

\* Prompts without a boundary are read by themselves.
LEMMA ScoreAloneStep == ASSUME IInv, ScoreAlone PROVE IInv'
<1>1. PICK r \in Requests :
        /\ ~Boundary(r)
        /\ batch' = <<r>>
        /\ out' = <<[j \in DOMAIN r.tails |-> run(<<alone(r.tails[j])>>).ps[1]]>>
        /\ length' = Len(r.tails[Len(r.tails)])
  BY DEF ScoreAlone
<1>2. pc = "idle" /\ pc' = pc /\ snapshots' = snapshots
  BY DEF ScoreAlone
<1>3. TypedRequest(r)
  BY RequestIs
<1>4. /\ r.prefix = <<>> /\ Len(r.tails) \in Nat \ {0} /\ DOMAIN r.tails = 1..Len(r.tails)
      /\ \A j \in 1..Len(r.tails) : r.tails[j] \in Seq(Int) /\ r.tails[j] # <<>>
  BY <1>1, <1>3 DEF TypedRequest, Boundary
<1>5. ASSUME NEW j \in DOMAIN r.tails PROVE run(<<alone(r.tails[j])>>).ps[1] = Prompt(r, j)
  <2> DEFINE w == r.tails[j]
             b == alone(w)
  <2>1. w \in Seq(Int) /\ w # <<>>
    BY <1>4
  <2>2. Sound(b, w)
    BY <2>1, SoundAlone
  <2>3. b.tails = <<>>
    BY DEF alone, Block
  <2> HIDE DEF b
  <2>4. run(<<b>>).ps = Answers(b, w)
    BY <2>2, OneRunIs DEF OneReads
  <2>5. run(<<b>>).ps[1] = w
    BY <2>3, <2>4 DEF Answers
  <2>6. Prompt(r, j) = w
    <3> HIDE DEF w
    <3>1. <<>> \o w = w
      BY <2>1
    <3> QED BY <1>4, <3>1 DEF Prompt, w
  <2> QED BY <2>5, <2>6 DEF b
<1>6. AnswersAreTheirOwn'
  <2>1. out' = <<[j \in DOMAIN r.tails |-> Prompt(r, j)]>>
    BY <1>1, <1>5
  <2>3. out'[1] = [j \in DOMAIN r.tails |-> Prompt(r, j)]
    BY <2>1
  <2>4. \A i \in DOMAIN batch' : out'[i] = [j \in DOMAIN batch'[i].tails |-> Prompt(batch'[i], j)]
    <3> DEFINE b == batch'
               o == out'
    <3>1. b = <<r>> /\ o[1] = [j \in DOMAIN r.tails |-> Prompt(r, j)]
      BY <1>1, <2>3
    <3> HIDE DEF b, o
    <3>2. \A i \in DOMAIN b : o[i] = [j \in DOMAIN b[i].tails |-> Prompt(b[i], j)]
      BY <3>1, OwnOfOne
    <3> QED BY <3>2 DEF b, o
  <2> QED BY <2>4 DEF AnswersAreTheirOwn
<1>7. ReadsWithinSize'
  <2> DEFINE N == Len(r.tails)
             L == Lens(r.tails)
  <2>1. /\ L \in [1..N -> Nat] /\ L[N] = Len(r.tails[N])
        /\ SumTo(L, N) \in Nat /\ Size(r) = Len(r.prefix) + SumTo(L, N) /\ N \in Nat \ {0}
    <3>1. N \in 1..N
      BY <1>4
    <3> QED BY <1>3, <1>4, <3>1, SizeIs
  <2>2. Len(r.prefix) = 0
    BY <1>4
  <2> HIDE DEF N, L
  <2>3. SumTo(L, N) = SumTo(L, N - 1) + L[N] /\ SumTo(L, N - 1) \in Nat /\ L[N] \in Nat
    <3>1. N \in 1..N /\ N - 1 \in 0..N
      BY <2>1
    <3> QED BY <2>1, <3>1, Sums
  <2>4. length' <= Size(r)
    BY <1>1, <2>1, <2>2, <2>3 DEF N
  <2>5. SumTo([i \in DOMAIN batch' |-> Size(batch'[i])], Len(batch')) = Size(r)
    BY <1>1, <1>3, SizeOfOne
  <2> QED BY <2>4, <2>5 DEF ReadsWithinSize
<1> QED BY <1>2, <1>6, <1>7 DEF IInv, Reading

\* A request begins with the cells of an entry, cut where they stop being its own.
LEMMA BeginOneStep == ASSUME IInv, BeginOne PROVE IInv'
<1>0. PICK r \in Requests : /\ Boundary(r)
                            /\ \E e \in Find(r.prefix) :
                                 /\ batch' = <<r>>
                                 /\ out' = <<[j \in DOMAIN r.tails |-> <<>>]>>
                                 /\ cells' = e.cells
                                 /\ pos' = Common(e.tokens, r.prefix)
  BY DEF BeginOne
<1>1. PICK e \in Find(r.prefix) : /\ batch' = <<r>>
                                  /\ out' = <<[j \in DOMAIN r.tails |-> <<>>]>>
                                  /\ cells' = e.cells
                                  /\ pos' = Common(e.tokens, r.prefix)
  BY <1>0
<1>2. pc' = "calls" /\ from' = TRUE /\ k' = 1 /\ length' = 0 /\ snapshots' = snapshots
  BY DEF BeginOne
<1>3. TypedRequest(r) /\ Faithful(e)
  BY RequestIs, FoundIs
<1>4. One' = r /\ batch' = <<One'>>
  BY <1>1 DEF One
<1>5. ReadSoFar(r, cells', pos', ~from')
  <2>1. /\ pos' \in Nat /\ pos' <= Len(r.prefix) /\ e.cells \in Seq(Seq(Int)) /\ pos' <= Len(e.cells)
        /\ \A i \in 1..pos' : e.cells[i] = SubSeq(r.prefix, 1, i)
    BY <1>1, <1>3, SoundFound
  <2> QED BY <1>1, <1>2, <2>1 DEF ReadSoFar
<1>6. Answered(r, out', k')
  <2>1. DOMAIN r.tails = 1..Len(r.tails)
    BY <1>3 DEF TypedRequest
  <2>2. \A j \in DOMAIN r.tails : ~(j < k')
    BY <1>2, <2>1
  <2> DEFINE o == [j \in DOMAIN r.tails |-> <<>>]
  <2>3. out' = <<o>> /\ DOMAIN out' = 1..1 /\ out'[1] = o
    BY <1>1
  <2>4. DOMAIN o = DOMAIN r.tails /\ o = [j \in DOMAIN r.tails |-> o[j]]
    OBVIOUS
  <2> HIDE DEF o
  <2> QED BY <2>2, <2>3, <2>4 DEF Answered
<1>7. Reading'
  <2>1. Len(r.tails) \in Nat
    BY <1>3 DEF TypedRequest
  <2>2. k' \in Nat /\ k' >= 1 /\ k' <= Len(r.tails) + 1 /\ ~(k' > 1)
    BY <1>2, <2>1
  <2> QED BY <1>4, <1>5, <1>6, <2>2 DEF Reading
<1>8. ReadsWithinSize'
  <2>1. SumTo([i \in DOMAIN batch' |-> Size(batch'[i])], Len(batch')) = Size(r)
    BY <1>1, <1>3, SizeOfOne
  <2>2. Size(r) \in Nat
    BY <1>3, SizeIs
  <2> QED BY <1>2, <2>1, <2>2 DEF ReadsWithinSize
<1>9. AnswersAreTheirOwn'
  BY <1>2 DEF AnswersAreTheirOwn
<1> QED BY <1>2, <1>7, <1>8, <1>9 DEF IInv

\* What a call of score_one does, next state and all.
LEMMA CallStep ==
  ASSUME IInv, pc = "calls", NEW end, NEW n, Asks(One, pos, end, k, n), Call(end, n),
         UNCHANGED <<snapshots, pc, batch>>
  PROVE  IInv'
<1> DEFINE r == One
           b == state_block(cells, r.prefix, pos, end, Asked(r, k, n))
           call == run(<<b>>)
<1>1. /\ batch = <<r>> /\ r \in Requests /\ ReadSoFar(r, cells, pos, ~from)
      /\ k \in Nat /\ k >= 1 /\ (k > 1 => pos = P) /\ Answered(r, out, k)
  BY DEF IInv, Reading
<1>2. TypedRequest(r)
  BY <1>1, RequestIs
<1>3. /\ end \in Nat /\ pos <= end /\ end <= Len(r.prefix) /\ pos \in Nat
      /\ n \in Nat /\ k + n <= Len(r.tails) + 1
      /\ n # 0 => end = Len(r.prefix)
  BY <1>1 DEF Asks, ReadSoFar
<1>4. /\ out' = [out EXCEPT ![1] = [j \in DOMAIN out[1] |-> IF j \in k..(k + n - 1)
                                                              THEN call.ps[j - k + 1] ELSE out[1][j]]]
      /\ pos' = end
      /\ k' = k + n
      /\ cells' = IF end > pos THEN extend(b, 0, call.new) ELSE cells
      /\ from' = (from /\ end = pos)
      /\ length' = Len(call.new)
  BY DEF Call, Asked
<1>5. CallGives(r, b, end, k, n, call)
  BY <1>1, <1>2, CallAnswers
<1>6. batch' = batch /\ pc' = pc /\ snapshots' = snapshots /\ One' = r
  BY DEF One
<1> HIDE DEF call, b
<1>7. ReadSoFar(r, cells', pos', ~from')
  <2> DEFINE p == r.prefix
  <2>1. p \in Seq(Int) /\ Len(p) \in Nat
    BY <1>2 DEF TypedRequest
  <2> HIDE DEF r
  <2>2. CASE end > pos
    <3> DEFINE w == SubSeq(p, 1, end)
    <3>1. cells' = CellsOf(w)
      BY <1>4, <1>5, <2>2 DEF CallGives
    <3>2. end \in 0..Len(p)
      BY <1>3, <2>1
    <3> HIDE DEF p
    <3>3. w \in Seq(Int) /\ Len(w) = end
      BY <2>1, <3>2, SubSeqIsStart
    <3>4. \A i \in 1..end : SubSeq(w, 1, i) = SubSeq(p, 1, i)
      <4>1. \A i \in 1..end : i \in 0..end
        BY <1>3
      <4> QED BY <2>1, <3>2, <4>1, SubOfSub
    <3> HIDE DEF w
    <3>5. cells' \in Seq(Seq(Int)) /\ Len(cells') = end /\ \A i \in 1..end : cells'[i] = SubSeq(w, 1, i)
      BY <3>1, <3>3, CellsAre
    <3> QED BY <1>3, <1>4, <3>4, <3>5 DEF ReadSoFar, p
  <2>3. CASE ~(end > pos)
    <3>1. end = pos /\ cells' = cells /\ from' = (from /\ TRUE) /\ pos' = pos
      BY <1>3, <1>4, <2>3
    <3>2. ~from' => ~from
      BY <3>1
    <3> QED BY <1>1, <3>1, <3>2 DEF ReadSoFar
  <2> QED BY <2>2, <2>3
<1>8. Answered(r, out', k')
  <2> DEFINE D == DOMAIN r.tails
             o == [j \in D |-> IF j \in k..(k + n - 1) THEN call.ps[j - k + 1] ELSE out[1][j]]
  <2>1. DOMAIN out = 1..1 /\ DOMAIN out[1] = D /\ \A j \in D : j < k => out[1][j] = Prompt(r, j)
    BY <1>1 DEF Answered
  <2>2. out' = [out EXCEPT ![1] = o]
    BY <1>4, <2>1
  <2>3. \A j \in D : j < k + n => o[j] = Prompt(r, j)
    <3> SUFFICES ASSUME NEW j \in D, j < k + n PROVE o[j] = Prompt(r, j)
      OBVIOUS
    <3>1. j \in Nat
      BY <1>2 DEF TypedRequest
    <3>2. CASE j < k
      <4>1. j \notin k..(k + n - 1)
        BY <1>1, <3>1, <3>2
      <4> QED BY <2>1, <3>2, <4>1
    <3>3. CASE ~(j < k)
      <4>1. j \in k..(k + n - 1)
        BY <1>1, <1>3, <3>1, <3>3
      <4>2. call.ps[j - k + 1] = Prompt(r, j)
        BY <1>5, <4>1 DEF CallGives
      <4> QED BY <4>1, <4>2
    <3> QED BY <3>2, <3>3
  <2>4. DOMAIN o = D /\ o = [j \in D |-> o[j]]
    OBVIOUS
  <2> HIDE DEF o, D
  <2>5. DOMAIN out' = 1..1 /\ out'[1] = o
    BY <2>1, <2>2
  <2>6. \A j \in D : j < k' => o[j] = Prompt(r, j)
    BY <1>4, <2>3
  <2> HIDE DEF r
  <2>7. DOMAIN o = DOMAIN r.tails /\ o = [j \in DOMAIN r.tails |-> o[j]]
    BY <2>4 DEF D
  <2>8. \A j \in DOMAIN r.tails : j < k' => o[j] = Prompt(r, j)
    BY <2>6 DEF D
  <2> QED BY <2>5, <2>7, <2>8 DEF Answered
<1>9. Reading'
  <2>1. k' \in Nat /\ k' >= 1 /\ k' <= Len(r.tails) + 1
    BY <1>1, <1>3, <1>4
  <2>2. k' > 1 => pos' = Len(r.prefix)
    <3>1. CASE n = 0
      BY <1>1, <1>2, <1>3, <1>4, <3>1 DEF P, TypedRequest
    <3>2. CASE n # 0
      BY <1>3, <1>4, <3>2
    <3> QED BY <3>1, <3>2
  <2>3. P' = Len(r.prefix) /\ batch' = <<One'>>
    BY <1>1, <1>6 DEF P
  <2> HIDE DEF r
  <2> QED BY <1>1, <1>6, <1>7, <1>8, <2>1, <2>2, <2>3 DEF Reading
<1>10. ReadsWithinSize'
  <2>1. SumTo([i \in DOMAIN batch' |-> Size(batch'[i])], Len(batch')) = Size(r)
    BY <1>1, <1>2, <1>6, SizeOfOne
  <2>2. length' <= Size(r)
    BY <1>4, <1>5 DEF CallGives
  <2> QED BY <2>1, <2>2 DEF ReadsWithinSize
<1>11. AnswersAreTheirOwn'
  BY <1>6 DEF AnswersAreTheirOwn
<1> QED BY <1>6, <1>9, <1>10, <1>11 DEF IInv

\* A piece of the state extends its cells.
LEMMA ReadPieceStep == ASSUME IInv, ReadPiece PROVE IInv'
<1>1. pc = "calls" /\ k = 1 /\ UNCHANGED <<snapshots, pc, batch>>
  BY DEF ReadPiece
<1>2. PICK end \in (pos + 1)..P : Call(end, 0)
  BY DEF ReadPiece
<1>3. ReadSoFar(One, cells, pos, ~from) /\ One \in Requests
  BY <1>1 DEF IInv, Reading
<1>4. TypedRequest(One)
  BY <1>3, RequestIs
<1>5. Asks(One, pos, end, k, 0)
  <2>1. pos \in Nat /\ P \in Nat /\ P = Len(One.prefix) /\ Len(One.tails) \in Nat
    BY <1>3, <1>4 DEF ReadSoFar, TypedRequest, P
  <2>2. end \in Nat /\ pos <= end /\ end <= P /\ pos < end
    BY <2>1
  <2>3. k \in Nat /\ k >= 1 /\ k + 0 <= Len(One.tails) + 1 /\ 0 \in Nat
    BY <1>1, <2>1
  <2> QED BY <2>1, <2>2, <2>3 DEF Asks
<1> QED BY <1>1, <1>2, <1>5, CallStep

\* A call of questions answers them in place.
LEMMA ReadQuestionsStep == ASSUME IInv, ReadQuestions PROVE IInv'
<1>1. pc = "calls" /\ UNCHANGED <<snapshots, pc, batch>>
  BY DEF ReadQuestions
<1>2. PICK n \in 1..(Len(One.tails) - k + 1) : Call(P, n)
  BY DEF ReadQuestions
<1>3. /\ ReadSoFar(One, cells, pos, ~from) /\ One \in Requests
      /\ k \in Nat /\ k >= 1 /\ k <= Len(One.tails) + 1
  BY <1>1 DEF IInv, Reading
<1>4. TypedRequest(One)
  BY <1>3, RequestIs
<1>5. Asks(One, pos, P, k, n)
  <2>1. pos \in Nat /\ P \in Nat /\ P = Len(One.prefix) /\ pos <= P /\ Len(One.tails) \in Nat
    BY <1>3, <1>4 DEF ReadSoFar, TypedRequest, P
  <2>2. n \in Nat /\ n # 0 /\ k + n <= Len(One.tails) + 1
    BY <1>3, <2>1
  <2> QED BY <1>3, <2>1, <2>2 DEF Asks
<1> QED BY <1>1, <1>2, <1>5, CallStep

\* What is kept in the end is the cells of the state.
LEMMA EndOneStep == ASSUME IInv, EndOne PROVE IInv'
<1> DEFINE r == One
           e == [tokens |-> State(r), cells |-> first(cells, r.state)]
<1>1. /\ pc = "calls" /\ k > Len(r.tails) /\ KeepState /\ pc' = "idle"
      /\ batch' = batch /\ out' = out /\ length' = length
  BY DEF EndOne
<1>2. /\ batch = <<r>> /\ r \in Requests /\ ReadSoFar(r, cells, pos, ~from)
      /\ k \in Nat /\ k >= 1 /\ (k > 1 => pos = P) /\ Answered(r, out, k)
  BY <1>1 DEF IInv, Reading
<1>3. TypedRequest(r)
  BY <1>2, RequestIs
<1>4. /\ r.prefix \in Seq(Int) /\ r.state \in 0..Len(r.prefix) /\ Len(r.tails) \in Nat \ {0}
      /\ DOMAIN r.tails = 1..Len(r.tails)
  BY <1>3 DEF TypedRequest
<1>5. pos = Len(r.prefix)
  BY <1>1, <1>2, <1>4 DEF P
<1>6. ~from => Faithful(e)
  <2> SUFFICES ASSUME ~from PROVE Faithful(e)
    OBVIOUS
  <2> DEFINE p == r.prefix
             s == r.state
  <2>1. cells \in Seq(Seq(Int)) /\ Len(cells) = Len(p) /\ \A i \in 1..Len(p) : cells[i] = SubSeq(p, 1, i)
    BY <1>2, <1>5 DEF ReadSoFar
  <2>2. p \in Seq(Int) /\ s \in 0..Len(p)
    BY <1>4
  <2>5. e.tokens = SubSeq(p, 1, s) /\ e.cells = first(cells, s)
    BY DEF State
  <2> HIDE DEF p, s, r, e
  <2>3. cells = CellsOf(p)
    BY <2>1, <2>2, IsCells
  <2>4. SubSeq(p, 1, s) \in Seq(Int) /\ first(CellsOf(p), s) = CellsOf(SubSeq(p, 1, s))
    BY <2>2, FirstIsCells
  <2> QED BY <2>3, <2>4, <2>5 DEF Faithful
<1>7. \A x \in snapshots' : Faithful(x)
  <2>1. CASE ~from /\ Wants(State(One))
    <3>1. AddAll({e})
      BY <1>1, <2>1 DEF KeepState
    <3>2. \A x \in snapshots' : x \in snapshots \/ x = e
      <4> HIDE DEF e
      <4>1. {e} # {}
        OBVIOUS
      <4>2. snapshots' \in SUBSET (snapshots \union {e})
        BY <3>1, <4>1 DEF AddAll
      <4> QED BY <4>2
    <3> QED BY <1>6, <2>1, <3>2 DEF IInv
  <2>2. CASE ~(~from /\ Wants(State(One)))
    <3>1. snapshots' = snapshots
      BY <1>1, <2>2 DEF KeepState
    <3> QED BY <3>1 DEF IInv
  <2> QED BY <2>1, <2>2
<1>8. AnswersAreTheirOwn'
  <2>1. out[1] = [j \in DOMAIN r.tails |-> out[1][j]] /\ \A j \in DOMAIN r.tails : j < k => out[1][j] = Prompt(r, j)
    BY <1>2 DEF Answered
  <2>2. \A j \in DOMAIN r.tails : j < k
    BY <1>1, <1>2, <1>4
  <2>3. out[1] = [j \in DOMAIN r.tails |-> Prompt(r, j)]
    BY <2>1, <2>2
  <2>4. \A i \in DOMAIN batch : out[i] = [j \in DOMAIN batch[i].tails |-> Prompt(batch[i], j)]
    BY <1>2, <2>3, OwnOfOne
  <2> QED BY <1>1, <2>4 DEF AnswersAreTheirOwn
<1>9. ReadsWithinSize'
  BY <1>1 DEF IInv, ReadsWithinSize
<1>10. Reading'
  BY <1>1 DEF Reading
<1> QED BY <1>1, <1>7, <1>8, <1>9, <1>10 DEF IInv

-----------------------------------------------------------------------------
(* Requests read together *)

\* What the blocks of a request in a batch read: its state, or a prompt each.
Reads(r) == IF Boundary(r) THEN <<r.prefix>> ELSE r.tails

\* The blocks B of a request read those, the sequences w.
BlocksRead(r, B, w) ==
  /\ Len(B) \in Nat \ {0} /\ DOMAIN B = 1..Len(B) /\ B = [l \in 1..Len(B) |-> B[l]]
  /\ w \in Seq(Seq(Int)) /\ Len(w) = Len(B)
  /\ \A l \in 1..Len(B) : Sound(B[l], w[l])
  /\ Boundary(r) => Len(B) = 1 /\ B[1].tails = r.tails /\ w[1] = r.prefix /\ Len(B[1].shared) <= Len(r.prefix)
  /\ ~Boundary(r) => /\ r.prefix = <<>> /\ Len(B) = Len(r.tails)
                     /\ \A l \in 1..Len(B) : B[l].tails = <<>> /\ w[l] = r.tails[l] /\ B[l].shared = r.tails[l]

\* The blocks score_batch makes of a request do.
LEMMA BlocksAre ==
  ASSUME NEW r, TypedRequest(r), NEW e, Faithful(e)
  PROVE  BlocksRead(r, RequestBlocks(r, e), Reads(r))
<1> DEFINE B == RequestBlocks(r, e)
           w == Reads(r)
           t == r.tails
           p == r.prefix
<1>1. /\ p \in Seq(Int) /\ Len(p) \in Nat /\ QuestionTails(t) /\ t # <<>> /\ Len(t) \in Nat \ {0}
      /\ DOMAIN t = 1..Len(t) /\ \A j \in 1..Len(t) : t[j] \in Seq(Int) /\ t[j] # <<>>
  BY DEF TypedRequest
<1>2. t \in Seq(Seq(Int))
  BY <1>1 DEF QuestionTails
<1>3. CASE Boundary(r)
  <2> DEFINE c == Common(e.tokens, p)
             b == state_block(e.cells, p, c, Len(p), t)
  <2>1. B = <<b>> /\ w = <<p>>
    BY <1>3 DEF RequestBlocks, Reads
  <2>2. /\ c \in Nat /\ c <= Len(p) /\ e.cells \in Seq(Seq(Int)) /\ c <= Len(e.cells)
        /\ \A i \in 1..c : e.cells[i] = SubSeq(p, 1, i)
    BY SoundFound
  <2> HIDE DEF B, w, c, p, t
  <2>3. GoesOn(e.cells, p, c, Len(p), t)
    BY <1>1, <2>2 DEF GoesOn
  <2>4. Sound(b, SubSeq(p, 1, Len(p))) /\ Len(b.shared) = Len(p) - c /\ b.tails = t
    BY <2>3, SoundState
  <2>5. SubSeq(p, 1, Len(p)) = p
    BY <1>1, WholeSub
  <2> HIDE DEF b
  <2>6. Len(B) = 1 /\ DOMAIN B = 1..1 /\ B = [l \in 1..1 |-> B[l]] /\ B[1] = b
    BY <2>1
  <2>7. w \in Seq(Seq(Int)) /\ Len(w) = 1 /\ w[1] = p
    BY <1>1, <2>1
  <2>8. \A l \in 1..1 : Sound(B[l], w[l])
    <3>1. \A l \in 1..1 : l = 1
      OBVIOUS
    <3> QED BY <2>4, <2>5, <2>6, <2>7, <3>1
  <2>9. Len(b.shared) <= Len(p)
    BY <1>1, <2>2, <2>4
  <2>10. Len(B) \in Nat \ {0} /\ DOMAIN B = 1..Len(B) /\ B = [l \in 1..Len(B) |-> B[l]] /\ Len(w) = Len(B)
         /\ \A l \in 1..Len(B) : Sound(B[l], w[l])
    BY <2>6, <2>7, <2>8
  <2>11. Len(B) = 1 /\ B[1].tails = r.tails /\ w[1] = r.prefix /\ Len(B[1].shared) <= Len(r.prefix)
    BY <2>4, <2>6, <2>7, <2>9 DEF p, t
  <2>12. BlocksRead(r, B, w)
    BY <1>3, <2>7, <2>10, <2>11 DEF BlocksRead
  <2> QED BY <2>12 DEF B, w
<1>4. CASE ~Boundary(r)
  <2> DEFINE N == Len(t)
  <2>1. B = [j \in 1..N |-> alone(t[j])] /\ w = t
    BY <1>1, <1>4 DEF RequestBlocks, Reads
  <2>2. p = <<>>
    BY <1>4 DEF Boundary
  <2> HIDE DEF B, w, t, p
  <2>3. N \in Nat \ {0}
    BY <1>1
  <2> HIDE DEF N
  <2>4. Len(B) = N /\ DOMAIN B = 1..N /\ B = [l \in 1..N |-> B[l]] /\ \A l \in 1..N : B[l] = alone(t[l])
    <3>1. DOMAIN B = 1..N /\ B = [l \in 1..N |-> B[l]] /\ \A l \in 1..N : B[l] = alone(t[l])
      BY <2>1
    <3> DEFINE X == {B[l] : l \in 1..N}
    <3>2. B \in [1..N -> X]
      BY <3>1
    <3> HIDE DEF X
    <3>3. Len(B) = N
      BY <2>3, <3>2, ArrayIsSeq
    <3> QED BY <3>1, <3>3
  <2>5. \A l \in 1..N : Sound(B[l], w[l])
    <3> SUFFICES ASSUME NEW l \in 1..N PROVE Sound(B[l], w[l])
      OBVIOUS
    <3>1. t[l] \in Seq(Int) /\ t[l] # <<>>
      BY <1>1 DEF N
    <3>2. Sound(alone(t[l]), t[l])
      BY <3>1, SoundAlone
    <3> QED BY <2>1, <2>4, <3>2
  <2>6. \A l \in 1..N : B[l].tails = <<>> /\ w[l] = t[l] /\ B[l].shared = t[l]
    BY <2>1, <2>4 DEF alone, Block
  <2>7. w \in Seq(Seq(Int)) /\ Len(w) = N
    BY <1>2, <2>1 DEF N
  <2>8. BlocksRead(r, B, w)
    BY <1>4, <2>2, <2>3, <2>4, <2>5, <2>6, <2>7 DEF BlocksRead, t, p, N
  <2> QED BY <2>8 DEF B, w
<1> QED BY <1>3, <1>4

\* The answers that the blocks of a request give, one after the other, are its own.
Asking(B) == [b \in DOMAIN B |-> AnswersOf(B[b])]

\* ... in the order of its prompts.
AnswersInPlace(r, B, w) ==
  /\ Asking(B) \in [1..Len(B) -> Nat]
  /\ SumTo(Asking(B), Len(B)) = Len(r.tails)
  /\ \A q \in 1..Len(r.tails) : \E l \in 1..Len(B) :
       /\ q - SumTo(Asking(B), l - 1) \in 1..AnswersOf(B[l])
       /\ Answers(B[l], w[l])[q - SumTo(Asking(B), l - 1)] = Prompt(r, q)

\* They are.
LEMMA BlocksAnswer ==
  ASSUME NEW r, TypedRequest(r), NEW B, NEW w, BlocksRead(r, B, w)
  PROVE  AnswersInPlace(r, B, w)
<1> DEFINE s == Asking(B)
           t == r.tails
           N == Len(B)
<1>1. /\ N \in Nat \ {0} /\ DOMAIN B = 1..N
      /\ \A l \in 1..N : Sound(B[l], w[l])
      /\ Boundary(r) => N = 1 /\ B[1].tails = t /\ w[1] = r.prefix
      /\ ~Boundary(r) => /\ r.prefix = <<>> /\ N = Len(t)
                         /\ \A l \in 1..N : B[l].tails = <<>> /\ w[l] = t[l]
  BY DEF BlocksRead
<1>2. Len(t) \in Nat \ {0} /\ DOMAIN t = 1..Len(t) /\ t # <<>> /\ \A j \in 1..Len(t) : t[j] \in Seq(Int)
  BY DEF TypedRequest
<1>3. \A l \in 1..N : AnswersOf(B[l]) \in Nat
  BY <1>1, AnswersAre
<1>4. s \in [1..N -> Nat] /\ \A l \in 1..N : s[l] = AnswersOf(B[l])
  BY <1>1, <1>3 DEF Asking
<1> HIDE DEF s, t, N
<1>5. CASE Boundary(r)
  <2>1. N = 1 /\ B[1].tails = t /\ w[1] = r.prefix /\ AnswersOf(B[1]) = Len(t) /\ 1 \in 1..N
    BY <1>1, <1>2, <1>5 DEF AnswersOf
  <2>2. SumTo(s, 1) = s[1] /\ SumTo(s, 0) = 0
    BY <1>4, <2>1, SumOfOne
  <2>3. SumTo(s, N) = Len(t)
    BY <1>4, <2>1, <2>2
  <2>4. ASSUME NEW q \in 1..Len(t)
        PROVE  /\ q - SumTo(s, 1 - 1) \in 1..AnswersOf(B[1])
               /\ Answers(B[1], w[1])[q - SumTo(s, 1 - 1)] = Prompt(r, q)
    <3>1. SumTo(s, 1 - 1) = 0 /\ q - 0 = q
      BY <2>2
    <3>2. Answers(B[1], w[1]) = [x \in DOMAIN t |-> r.prefix \o t[x]]
      BY <1>2, <2>1 DEF Answers
    <3>3. Answers(B[1], w[1])[q] = Prompt(r, q)
      BY <1>2, <3>2 DEF Prompt, t
    <3>4. q - SumTo(s, 1 - 1) = q
      BY <3>1
    <3> QED BY <2>1, <3>3, <3>4
  <2>5. \A q \in 1..Len(t) : \E l \in 1..N :
          /\ q - SumTo(s, l - 1) \in 1..AnswersOf(B[l])
          /\ Answers(B[l], w[l])[q - SumTo(s, l - 1)] = Prompt(r, q)
    BY <2>1, <2>4
  <2> QED BY <1>4, <2>3, <2>5 DEF AnswersInPlace, s, t, N
<1>6. CASE ~Boundary(r)
  <2>1. r.prefix = <<>> /\ N = Len(t) /\ \A l \in 1..N : B[l].tails = <<>> /\ w[l] = t[l]
    BY <1>1, <1>6
  <2>2. \A l \in 1..N : AnswersOf(B[l]) = 1 /\ Answers(B[l], w[l]) = <<w[l]>>
    BY <2>1 DEF AnswersOf, Answers
  <2>3. \A i \in 0..N : SumTo(s, i) = i
    <3>1. N \in Nat /\ \A l \in 1..N : s[l] = 1
      BY <1>1, <1>4, <2>2
    <3> QED BY <1>4, <3>1, SumOfOnes
  <2>4. SumTo(s, N) = Len(t)
    <3>1. N \in 0..N
      BY <1>1
    <3> QED BY <2>1, <2>3, <3>1
  <2>5. ASSUME NEW q \in 1..N
        PROVE  /\ q - SumTo(s, q - 1) \in 1..AnswersOf(B[q])
               /\ Answers(B[q], w[q])[q - SumTo(s, q - 1)] = Prompt(r, q)
    <3>1. q - 1 \in 0..N /\ q - (q - 1) = 1
      BY <1>1
    <3>2. q - SumTo(s, q - 1) = 1
      BY <2>3, <3>1
    <3>3. Prompt(r, q) = t[q]
      <4>1. t[q] \in Seq(Int)
        BY <1>2, <2>1
      <4> DEFINE u == t[q]
      <4> HIDE DEF u
      <4>2. <<>> \o u = u
        BY <4>1 DEF u
      <4> QED BY <2>1, <4>2 DEF Prompt, u, t
    <3> QED BY <2>1, <2>2, <3>2, <3>3
  <2>6. \A q \in 1..Len(t) : \E l \in 1..N :
          /\ q - SumTo(s, l - 1) \in 1..AnswersOf(B[l])
          /\ Answers(B[l], w[l])[q - SumTo(s, l - 1)] = Prompt(r, q)
    BY <2>1, <2>5
  <2> QED BY <1>4, <2>4, <2>6 DEF AnswersInPlace, s, t, N
<1> QED BY <1>5, <1>6

\* The rows that the blocks of a request take are no more than its tokens.
RowsTaken(B) == [b \in DOMAIN B |-> Len(B[b].shared) + TreeTokens(B[b].tails, DOMAIN B[b].tails)]

\* No more than tokens() counts.
LEMMA BlocksFit ==
  ASSUME NEW r, TypedRequest(r), NEW B, NEW w, BlocksRead(r, B, w)
  PROVE  /\ RowsTaken(B) \in [1..Len(B) -> Nat]
         /\ SumTo(RowsTaken(B), Len(B)) \in Nat /\ SumTo(RowsTaken(B), Len(B)) <= Size(r)
<1> DEFINE s == RowsTaken(B)
           t == r.tails
           N == Len(B)
           L == Lens(t)
           T(b) == TreeTokens(B[b].tails, DOMAIN B[b].tails)
<1>1. /\ N \in Nat \ {0} /\ DOMAIN B = 1..N
      /\ \A l \in 1..N : Sound(B[l], w[l])
      /\ Boundary(r) => N = 1 /\ B[1].tails = t /\ Len(B[1].shared) <= Len(r.prefix)
      /\ ~Boundary(r) => /\ r.prefix = <<>> /\ N = Len(t)
                         /\ \A l \in 1..N : B[l].tails = <<>> /\ B[l].shared = t[l]
  BY DEF BlocksRead
<1>2. Len(r.prefix) \in Nat /\ QuestionTails(t)
  BY DEF TypedRequest
<1>3. /\ L \in [1..Len(t) -> Nat] /\ \A j \in 1..Len(t) : L[j] = Len(t[j])
      /\ SumTo(L, Len(t)) \in Nat /\ Size(r) = Len(r.prefix) + SumTo(L, Len(t))
  BY SizeIs
<1>4. \A l \in 1..N : Len(B[l].shared) \in Nat /\ T(l) \in Nat /\ T(l) <= SumTo(Lens(B[l].tails), Len(B[l].tails))
  <2> SUFFICES ASSUME NEW l \in 1..N
               PROVE Len(B[l].shared) \in Nat /\ T(l) \in Nat /\ T(l) <= SumTo(Lens(B[l].tails), Len(B[l].tails))
    OBVIOUS
  <2>1. B[l].shared \in Seq(Int) /\ QuestionTails(B[l].tails)
    BY <1>1 DEF Sound
  <2> QED BY <2>1, TreeAtMost
<1>5. s = [b \in 1..N |-> Len(B[b].shared) + T(b)]
  BY <1>1 DEF RowsTaken
<1> HIDE DEF s, t, N, L, T
<1>6. s \in [1..N -> Nat] /\ \A l \in 1..N : s[l] = Len(B[l].shared) + T(l)
  BY <1>4, <1>5
<1>7. SumTo(s, N) \in Nat
  <2>1. N \in Nat /\ N \in 0..N
    BY <1>1
  <2> QED BY <1>6, <2>1, Sums
<1>8. CASE Boundary(r)
  <2>1. N = 1 /\ 1 \in 1..N /\ B[1].tails = t /\ Len(B[1].shared) <= Len(r.prefix)
    BY <1>1, <1>8
  <2>2. SumTo(s, N) = Len(B[1].shared) + T(1)
    <3>1. SumTo(s, 1) = s[1]
      BY <1>6, <2>1, SumOfOne
    <3> QED BY <1>6, <2>1, <3>1
  <2>3. T(1) <= SumTo(L, Len(t)) /\ T(1) \in Nat /\ Len(B[1].shared) \in Nat
    BY <1>4, <2>1 DEF L
  <2>4. SumTo(s, N) <= Size(r)
    BY <1>2, <1>3, <2>1, <2>2, <2>3
  <2> QED BY <1>6, <1>7, <2>4 DEF s, N
<1>9. CASE ~Boundary(r)
  <2>1. N = Len(t) /\ N \in Nat /\ r.prefix = <<>> /\ \A l \in 1..N : B[l].tails = <<>> /\ B[l].shared = t[l]
    BY <1>1, <1>9
  <2>2. \A l \in 1..N : s[l] = L[l]
    <3> SUFFICES ASSUME NEW l \in 1..N PROVE s[l] = L[l]
      OBVIOUS
    <3>1. DOMAIN <<>> = {}
      OBVIOUS
    <3>2. T(l) = 0
      BY <2>1, <3>1, NoTreeTokens DEF T
    <3>3. Len(B[l].shared) = L[l] /\ L[l] \in Nat
      BY <1>3, <2>1
    <3> QED BY <1>6, <3>2, <3>3
  <2>3. s = L
    BY <1>3, <1>6, <2>1, <2>2
  <2>4. Len(r.prefix) = 0
    BY <2>1
  <2>5. SumTo(s, N) <= Size(r)
    BY <1>3, <1>7, <2>1, <2>3, <2>4
  <2> QED BY <1>6, <1>7, <2>5 DEF s, N
<1> QED BY <1>8, <1>9

\* Some requests, the blocks of each and what these read.
Together(n, rs, per, wss) ==
  /\ n \in Nat /\ DOMAIN rs = 1..n
  /\ DOMAIN per = 1..n /\ per = [i \in 1..n |-> per[i]]
  /\ DOMAIN wss = 1..n /\ wss = [i \in 1..n |-> wss[i]]
  /\ \A i \in 1..n : TypedRequest(rs[i]) /\ BlocksRead(rs[i], per[i], wss[i])

\* Their blocks in one call.
LaidTogether(n, per, wss, L, blocks, ws) ==
  /\ L \in [1..n -> Nat] /\ \A i \in 1..n : L[i] = Len(per[i])
  /\ SumTo(L, n) \in Nat /\ Len(blocks) = SumTo(L, n)
  /\ SoundCall(blocks, ws)
  /\ \A i \in 1..n : \A l \in 1..L[i] :
       /\ SumTo(L, i - 1) + l \in 1..Len(blocks)
       /\ blocks[SumTo(L, i - 1) + l] = per[i][l] /\ ws[SumTo(L, i - 1) + l] = wss[i][l]

\* One after the other, the blocks of all requests are the blocks of one call.
LEMMA LaidIs ==
  ASSUME NEW n, NEW rs, NEW per, NEW wss, Together(n, rs, per, wss),
         NEW L, L = Lens(per), NEW blocks, blocks = FlattenSeq(per), NEW ws, ws = FlattenSeq(wss)
  PROVE  LaidTogether(n, per, wss, L, blocks, ws)
<1> DEFINE X == {per[i][l] : i \in 1..n, l \in Nat}
           U == Seq(Seq(Int))
<1>1. /\ n \in Nat /\ DOMAIN per = 1..n /\ per = [i \in 1..n |-> per[i]]
      /\ DOMAIN wss = 1..n /\ wss = [i \in 1..n |-> wss[i]]
  BY DEF Together
<1>2. \A i \in 1..n : /\ Len(per[i]) \in Nat \ {0} /\ per[i] = [l \in 1..Len(per[i]) |-> per[i][l]]
                      /\ wss[i] \in U /\ Len(wss[i]) = Len(per[i])
                      /\ \A l \in 1..Len(per[i]) : Sound(per[i][l], wss[i][l])
  BY DEF Together, BlocksRead
<1>3. \A i \in 1..n : per[i] \in Seq(X)
  <2> SUFFICES ASSUME NEW i \in 1..n PROVE per[i] \in Seq(X)
    OBVIOUS
  <2> DEFINE f == per[i]
             N == Len(per[i])
  <2>1. N \in Nat /\ f = [l \in 1..N |-> f[l]]
    BY <1>2
  <2>2. \A l \in 1..N : f[l] \in X
    OBVIOUS
  <2> HIDE DEF f, N, X
  <2>3. f \in [1..N -> X]
    BY <2>1, <2>2
  <2>4. f \in Seq(X)
    BY <2>1, <2>3, ArrayIsSeq
  <2> QED BY <2>4 DEF f
<1> HIDE DEF X
<1>4. per \in Seq(Seq(X)) /\ Len(per) = n
  <2> DEFINE Y == Seq(X)
  <2>1. per \in [1..n -> Y]
    BY <1>1, <1>3
  <2> HIDE DEF Y
  <2>2. per \in Seq(Y) /\ Len(per) = n
    BY <1>1, <2>1, ArrayIsSeq
  <2> QED BY <2>2 DEF Y
<1>5. wss \in Seq(U) /\ Len(wss) = n
  <2> HIDE DEF U
  <2>1. wss \in [1..n -> U]
    BY <1>1, <1>2
  <2> QED BY <1>1, <2>1, ArrayIsSeq
<1>6. L \in [1..n -> Nat] /\ \A i \in 1..n : L[i] = Len(per[i])
  BY <1>1, <1>4, LensIs
<1>7. Lens(wss) = L
  <2>1. \A i \in 1..n : Len(wss[i]) = L[i]
    BY <1>2, <1>6
  <2> QED BY <1>1, <1>6, <2>1 DEF Lens
<1>8. blocks \in Seq(X) /\ Flat(per, blocks)
  BY <1>4, FlattenIs
<1>9. ws \in Seq(Seq(Int)) /\ Flat(wss, ws)
  BY <1>5, FlattenIs
<1>10. SumTo(L, n) \in Nat
  <2>1. n \in 0..n
    BY <1>1
  <2> QED BY <1>1, <1>6, <2>1, Sums
<1>11. Len(blocks) = SumTo(L, n) /\ Len(ws) = SumTo(L, n) /\ DOMAIN blocks = 1..Len(blocks)
  <2>1. Len(blocks) = SumTo(L, n)
    BY <1>4, <1>8 DEF Flat
  <2>2. Len(ws) = SumTo(L, n)
    BY <1>5, <1>7, <1>9 DEF Flat
  <2> QED BY <1>8, <2>1, <2>2
<1>12. \A i \in 1..n : \A l \in 1..L[i] :
         /\ SumTo(L, i - 1) + l \in 1..Len(blocks)
         /\ blocks[SumTo(L, i - 1) + l] = per[i][l] /\ ws[SumTo(L, i - 1) + l] = wss[i][l]
  <2>1. \A i \in 1..n : \A l \in 1..Len(per[i]) :
          SumTo(L, i - 1) + l \in 1..Len(blocks) /\ blocks[SumTo(L, i - 1) + l] = per[i][l]
    BY <1>1, <1>8 DEF Flat
  <2>2. \A i \in 1..n : \A l \in 1..Len(wss[i]) : ws[SumTo(L, i - 1) + l] = wss[i][l]
    BY <1>1, <1>7, <1>9 DEF Flat
  <2> QED BY <1>2, <1>6, <2>1, <2>2
<1>13. ASSUME NEW x \in 1..Len(blocks) PROVE Sound(blocks[x], ws[x])
  <2>1. PICK i \in 1..n : x - SumTo(L, i - 1) \in 1..L[i]
    BY <1>1, <1>6, <1>11, PlaceInSum
  <2>2. SumTo(L, i - 1) \in Nat
    <3>1. i - 1 \in 0..n
      BY <1>1
    <3> QED BY <1>1, <1>6, <3>1, Sums
  <2> DEFINE l == x - SumTo(L, i - 1)
  <2>3. l \in 1..L[i] /\ SumTo(L, i - 1) + l = x
    BY <1>10, <1>11, <2>1, <2>2
  <2> HIDE DEF l
  <2>4. blocks[x] = per[i][l] /\ ws[x] = wss[i][l]
    BY <1>12, <2>3
  <2>5. Sound(per[i][l], wss[i][l])
    BY <1>2, <1>6, <2>3
  <2> QED BY <2>4, <2>5
<1>14. SoundCall(blocks, ws)
  BY <1>10, <1>11, <1>13 DEF SoundCall
<1> QED BY <1>6, <1>10, <1>11, <1>12, <1>14 DEF LaidTogether

\* No block's rows are beyond those of the call.
LEMMA RowsWithin ==
  ASSUME NEW blocks, NEW ws, SoundCall(blocks, ws), NEW call, RunReads(blocks, ws, call), NEW b \in DOMAIN blocks
  PROVE  extend(blocks[b], call.row[b], call.new) = CellsOf(ws[b])
<1> DEFINE n == Len(blocks)
           counts == RowsOf(blocks)
           B == blocks[b]
<1>1. n \in Nat /\ DOMAIN blocks = 1..n /\ Sound(B, ws[b])
  BY DEF SoundCall
<1>2. counts \in [1..n -> Nat]
  BY CountsAre
<1>3. /\ call.new \in Seq(Seq(Int)) /\ Len(call.new) = SumTo(counts, n)
      /\ call.row[b] = SumTo(counts, b - 1) /\ call.row[b] \in Nat
      /\ \A j \in 1..Len(B.shared) : call.new[call.row[b] + j] = SubSeq(ws[b], 1, B.past_n + j)
  BY DEF RunReads
<1>4. Len(B.shared) \in Nat /\ counts[b] \in Nat /\ Len(B.shared) <= counts[b]
  <2> DEFINE t == Trees(blocks)[b]
  <2>1. TreeInv(B.tails, t)
    BY TreesAreWhole
  <2>2. t.tokens \in Nat
    BY <2>1, NodeLensAre
  <2>3. B.shared \in Seq(Int)
    BY <1>1 DEF Sound
  <2>4. counts[b] = Len(B.shared) + t.tokens
    BY DEF RowsOf
  <2> HIDE DEF t, B
  <2>5. Len(B.shared) \in Nat
    BY <2>3
  <2> QED BY <2>2, <2>4, <2>5
<1> HIDE DEF B, counts, n
<1>5. SumTo(counts, b) = SumTo(counts, b - 1) + counts[b] /\ SumTo(counts, b) <= SumTo(counts, n)
  <2>1. b \in 1..n /\ b \in 0..n /\ n \in 0..n /\ b <= n
    BY <1>1
  <2>2. SumTo(counts, b) = SumTo(counts, b - 1) + counts[b]
    BY <1>1, <1>2, <2>1, Sums
  <2> QED BY <1>1, <1>2, <2>1, <2>2, SumsGrow
<1>6. SumTo(counts, n) \in Nat
  <2>1. n \in 0..n
    BY <1>1
  <2> QED BY <1>1, <1>2, <2>1, Sums
<1> DEFINE new == call.new
           row == call.row[b]
<1>7. new \in Seq(Seq(Int)) /\ row \in Nat /\ row + Len(B.shared) <= Len(new)
  BY <1>3, <1>4, <1>5, <1>6
<1>8. \A j \in 1..Len(B.shared) : new[row + j] = SubSeq(ws[b], 1, B.past_n + j)
  BY <1>3
<1> HIDE DEF new, row
<1>9. extend(B, row, new) = CellsOf(ws[b])
  BY <1>1, <1>7, <1>8, ExtendIs
<1> QED BY <1>9 DEF B, row, new

\* How many answers each request is to have, and which of the call's they are.
Counts(n, per) == [i \in 1..n |-> SumTo(Asking(per[i]), Len(per[i]))]
AnswersAt(n, rs, counts, ps) ==
  \A i \in 1..n : SubSeq(ps, SumTo(counts, i - 1) + 1, SumTo(counts, i))
                    = [j \in DOMAIN rs[i].tails |-> Prompt(rs[i], j)]

\* Each request of a batch has its answers where the code cuts them out.
LEMMA AnswersCut ==
  ASSUME NEW n, NEW rs, NEW per, NEW wss, Together(n, rs, per, wss),
         NEW L, L = Lens(per), NEW blocks, NEW ws, LaidTogether(n, per, wss, L, blocks, ws),
         NEW counts, counts = Counts(n, per),
         NEW ps, ps = FlattenSeq(AnswerParts(blocks, ws))
  PROVE  AnswersAt(n, rs, counts, ps)
<1> SUFFICES ASSUME NEW i \in 1..n
             PROVE  SubSeq(ps, SumTo(counts, i - 1) + 1, SumTo(counts, i))
                      = [j \in DOMAIN rs[i].tails |-> Prompt(rs[i], j)]
  BY DEF AnswersAt
<1> DEFINE ap == AnswerParts(blocks, ws)
           s == Lens(ap)
           N == Len(blocks)
           vals == [x \in 1..n |-> Asking(per[x])]
           t == rs[i].tails
           K == Len(t)
           a == SumTo(counts, i - 1)
<1>1. /\ n \in Nat /\ \A x \in 1..n : TypedRequest(rs[x]) /\ BlocksRead(rs[x], per[x], wss[x])
  BY DEF Together
<1>2. /\ L \in [1..n -> Nat] /\ (\A x \in 1..n : L[x] = Len(per[x]))
      /\ N \in Nat /\ N = SumTo(L, n) /\ SoundCall(blocks, ws)
      /\ \A x \in 1..n : \A l \in 1..L[x] :
           /\ SumTo(L, x - 1) + l \in 1..N
           /\ blocks[SumTo(L, x - 1) + l] = per[x][l] /\ ws[SumTo(L, x - 1) + l] = wss[x][l]
  BY DEF LaidTogether
<1>3. DOMAIN blocks = 1..N
  BY <1>2 DEF SoundCall
<1>4. ap \in Seq(Seq(Seq(Int))) /\ Len(ap) = N /\ \A b \in 1..N : Len(ap[b]) = AnswersOf(blocks[b])
  <2>1. AnswerPartsIs(ap, blocks)
    BY <1>2, AnswerPartsAre
  <2> QED BY <2>1 DEF AnswerPartsIs
<1>5. \A b \in 1..N : ap[b] = Answers(blocks[b], ws[b])
  BY <1>3 DEF AnswerParts
<1> HIDE DEF ap
<1>6. s \in [1..N -> Nat] /\ \A b \in 1..N : s[b] = AnswersOf(blocks[b])
  <2>1. DOMAIN ap = 1..N
    BY <1>4
  <2> QED BY <1>4, <2>1, LensIs
<1>7. \A x \in 1..n : AnswersInPlace(rs[x], per[x], wss[x])
  BY <1>1, BlocksAnswer
<1>8. \A x \in 1..n : /\ Asking(per[x]) \in [1..L[x] -> Nat]
                      /\ \A l \in 1..L[x] : Asking(per[x])[l] = AnswersOf(per[x][l])
                      /\ SumTo(Asking(per[x]), L[x]) = Len(rs[x].tails)
                      /\ Len(rs[x].tails) \in Nat
  <2> SUFFICES ASSUME NEW x \in 1..n
               PROVE /\ Asking(per[x]) \in [1..L[x] -> Nat]
                     /\ \A l \in 1..L[x] : Asking(per[x])[l] = AnswersOf(per[x][l])
                     /\ SumTo(Asking(per[x]), L[x]) = Len(rs[x].tails)
                     /\ Len(rs[x].tails) \in Nat
    OBVIOUS
  <2>1. Asking(per[x]) \in [1..L[x] -> Nat] /\ SumTo(Asking(per[x]), L[x]) = Len(rs[x].tails)
    BY <1>2, <1>7 DEF AnswersInPlace
  <2>2. DOMAIN per[x] = 1..L[x] /\ Len(rs[x].tails) \in Nat
    BY <1>1, <1>2 DEF BlocksRead, TypedRequest
  <2> QED BY <2>1, <2>2 DEF Asking
<1>9. counts \in [1..n -> Nat] /\ \A x \in 1..n : counts[x] = Len(rs[x].tails) /\ counts[x] = SumTo(Asking(per[x]), L[x])
  <2>1. \A x \in 1..n : /\ SumTo(Asking(per[x]), Len(per[x])) = Len(rs[x].tails)
                        /\ SumTo(Asking(per[x]), Len(per[x])) = SumTo(Asking(per[x]), L[x])
                        /\ SumTo(Asking(per[x]), Len(per[x])) \in Nat
    BY <1>2, <1>8
  <2> QED BY <2>1 DEF Counts
<1> HIDE DEF s, N, t
<1>10. Nested(n, L, vals, s, counts)
  <2>1. \A x \in 1..n : vals[x] = Asking(per[x])
    OBVIOUS
  <2> HIDE DEF vals
  <2>2. \A x \in 1..n : \A l \in 1..L[x] : s[SumTo(L, x - 1) + l] = vals[x][l]
    <3> SUFFICES ASSUME NEW x \in 1..n, NEW l \in 1..L[x] PROVE s[SumTo(L, x - 1) + l] = vals[x][l]
      OBVIOUS
    <3>1. SumTo(L, x - 1) + l \in 1..N /\ blocks[SumTo(L, x - 1) + l] = per[x][l]
      BY <1>2
    <3>2. s[SumTo(L, x - 1) + l] = AnswersOf(per[x][l])
      BY <1>6, <3>1
    <3> QED BY <1>8, <2>1, <3>2
  <2>3. s \in [1..SumTo(L, n) -> Nat]
    BY <1>2, <1>6
  <2> QED BY <1>1, <1>2, <1>8, <1>9, <2>1, <2>2, <2>3 DEF Nested
<1>11. /\ \A x \in 0..n : SumTo(s, SumTo(L, x)) = SumTo(counts, x)
       /\ \A x \in 1..n : \A l \in 0..L[x] :
            SumTo(s, SumTo(L, x - 1) + l) = SumTo(counts, x - 1) + SumTo(Asking(per[x]), l)
  <2>1. /\ \A x \in 0..n : SumTo(s, SumTo(L, x)) = SumTo(counts, x)
        /\ \A x \in 1..n : \A l \in 0..L[x] :
             SumTo(s, SumTo(L, x - 1) + l) = SumTo(counts, x - 1) + SumTo(vals[x], l)
    <3>1. AddUp(n, L, vals, s, counts)
      BY <1>10, NestedSums
    <3> HIDE DEF vals
    <3> QED BY <3>1 DEF AddUp
  <2>2. \A x \in 1..n : vals[x] = Asking(per[x])
    OBVIOUS
  <2> HIDE DEF vals
  <2> QED BY <2>1, <2>2
<1> HIDE DEF vals
<1>12. ps \in Seq(Seq(Int)) /\ Flat(ap, ps)
  BY <1>4, FlattenIs DEF ap
<1>13. /\ Len(ps) = SumTo(s, N)
       /\ \A b \in 1..N : \A j \in 1..AnswersOf(blocks[b]) :
            SumTo(s, b - 1) + j \in 1..Len(ps) /\ ps[SumTo(s, b - 1) + j] = Answers(blocks[b], ws[b])[j]
  <2>1. DOMAIN ap = 1..N /\ Len(ps) = SumTo(s, N)
    BY <1>4, <1>12 DEF Flat, s
  <2>2. \A b \in 1..N : \A j \in 1..Len(ap[b]) :
          SumTo(s, b - 1) + j \in 1..Len(ps) /\ ps[SumTo(s, b - 1) + j] = ap[b][j]
    BY <1>12, <2>1 DEF Flat, s
  <2> QED BY <1>4, <1>5, <2>1, <2>2
<1>14. /\ a \in Nat /\ SumTo(counts, i) = a + K /\ SumTo(counts, i) <= Len(ps)
       /\ K \in Nat /\ DOMAIN t = 1..K
  <2>1. i - 1 \in 0..n /\ i \in 0..n /\ n \in 0..n /\ i <= n
    BY <1>1
  <2>2. a \in Nat
    BY <1>1, <1>9, <2>1, Sums
  <2>3. SumTo(counts, i) = a + counts[i]
    BY <1>1, <1>9, Sums
  <2>4. SumTo(counts, i) <= SumTo(counts, n)
    BY <1>1, <1>9, <2>1, SumsGrow
  <2>5. Len(ps) = SumTo(counts, n)
    BY <1>2, <1>11, <1>13, <2>1
  <2>6. K \in Nat /\ DOMAIN t = 1..K
    BY <1>1 DEF TypedRequest, t
  <2> QED BY <1>9, <2>2, <2>3, <2>4, <2>5, <2>6 DEF t
<1>15. ASSUME NEW q \in 1..K PROVE ps[a + q] = Prompt(rs[i], q)
  <2> DEFINE A == Asking(per[i])
             B == per[i]
             w == wss[i]
  <2>1. PICK l \in 1..L[i] : /\ q - SumTo(A, l - 1) \in 1..AnswersOf(B[l])
                             /\ Answers(B[l], w[l])[q - SumTo(A, l - 1)] = Prompt(rs[i], q)
    BY <1>2, <1>7 DEF AnswersInPlace, t
  <2>2. L[i] \in Nat /\ A \in [1..L[i] -> Nat]
    BY <1>2, <1>8
  <2> HIDE DEF A, B, w
  <2>3. SumTo(A, l - 1) \in Nat /\ l - 1 \in 0..L[i]
    <3>1. l - 1 \in 0..L[i]
      BY <2>2
    <3> QED BY <2>2, <3>1, Sums
  <2> DEFINE j == q - SumTo(A, l - 1)
             x == SumTo(L, i - 1) + l
  <2>4. j \in 1..AnswersOf(B[l]) /\ q = SumTo(A, l - 1) + j /\ j \in Nat
    <3>1. AnswersOf(B[l]) \in Nat
      <4>1. AnswersOf(B[l]) = A[l]
        BY <1>8 DEF A, B
      <4> QED BY <2>2, <4>1
    <3>2. q \in Nat
      BY <1>14
    <3> QED BY <2>1, <2>3, <3>1, <3>2
  <2>5. x \in 1..N /\ blocks[x] = B[l] /\ ws[x] = w[l]
    BY <1>2 DEF B, w
  <2>6. x - 1 = SumTo(L, i - 1) + (l - 1)
    <3>1. SumTo(L, i - 1) \in Nat
      <4>1. i - 1 \in 0..n
        BY <1>1
      <4> QED BY <1>1, <1>2, <4>1, Sums
    <3>2. l \in Int
      BY <2>2
    <3> QED BY <3>1, <3>2
  <2>7. SumTo(s, x - 1) = a + SumTo(A, l - 1)
    <3>1. SumTo(s, SumTo(L, i - 1) + (l - 1)) = a + SumTo(A, l - 1)
      BY <1>11, <2>3 DEF A
    <3> QED BY <2>6, <3>1
  <2> HIDE DEF x, j, a
  <2>8. ps[SumTo(s, x - 1) + j] = Answers(B[l], w[l])[j]
    BY <1>13, <2>4, <2>5
  <2>9. SumTo(s, x - 1) + j = a + q
    BY <1>14, <2>3, <2>4, <2>7
  <2> QED BY <2>1, <2>8, <2>9 DEF j
<1> HIDE DEF a, K
<1> DEFINE e == SumTo(counts, i)
           o == SubSeq(ps, a + 1, e)
<1>16. e \in Nat /\ a <= e /\ e <= Len(ps) /\ e - a = K
  BY <1>14
<1> HIDE DEF e
<1>17. o \in Seq(Seq(Int)) /\ Len(o) = K /\ \A j \in 1..K : o[j] = ps[a + j]
  <2>1. /\ SubSeq(ps, a + 1, e) \in Seq(Seq(Int)) /\ Len(SubSeq(ps, a + 1, e)) = e - a
        /\ \A j \in 1..(e - a) : SubSeq(ps, a + 1, e)[j] = ps[a + j]
    <3>1. ps \in Seq(Seq(Int)) /\ a \in Nat /\ e \in Nat /\ a <= e /\ e <= Len(ps)
      BY <1>12, <1>14, <1>16
    <3> QED BY <3>1, Middle
  <2> QED BY <1>16, <2>1
<1> HIDE DEF o
<1>18. o = [j \in 1..K |-> o[j]]
  BY <1>17
<1>19. o = [j \in DOMAIN t |-> Prompt(rs[i], j)]
  BY <1>14, <1>15, <1>17, <1>18
<1> QED BY <1>19 DEF o, e, a, t

-----------------------------------------------------------------------------
(* A batch, and the results *)

\* A batch reads no more than its requests have.
LEMMA BatchFits ==
  ASSUME NEW n, NEW rs, NEW per, NEW wss, Together(n, rs, per, wss),
         NEW L, NEW blocks, NEW ws, LaidTogether(n, per, wss, L, blocks, ws),
         NEW sizes, sizes = [i \in 1..n |-> Size(rs[i])]
  PROVE  SumTo(RowsOf(blocks), Len(blocks)) <= SumTo(sizes, n)
<1> DEFINE s == RowsOf(blocks)
           N == Len(blocks)
           vals == [x \in 1..n |-> RowsTaken(per[x])]
           sums == [x \in 1..n |-> SumTo(RowsTaken(per[x]), L[x])]
<1>1. /\ n \in Nat /\ \A x \in 1..n : TypedRequest(rs[x]) /\ BlocksRead(rs[x], per[x], wss[x])
  BY DEF Together
<1>2. /\ L \in [1..n -> Nat] /\ (\A x \in 1..n : L[x] = Len(per[x]))
      /\ N \in Nat /\ N = SumTo(L, n) /\ SoundCall(blocks, ws)
      /\ \A x \in 1..n : \A l \in 1..L[x] :
           SumTo(L, x - 1) + l \in 1..N /\ blocks[SumTo(L, x - 1) + l] = per[x][l]
  BY DEF LaidTogether
<1>3. DOMAIN blocks = 1..N
  BY <1>2 DEF SoundCall
<1>4. s \in [1..N -> Nat]
  BY <1>2, CountsAre
<1>5. \A b \in 1..N : s[b] = Len(blocks[b].shared) + TreeTokens(blocks[b].tails, DOMAIN blocks[b].tails)
  <2> SUFFICES ASSUME NEW b \in 1..N
               PROVE s[b] = Len(blocks[b].shared) + TreeTokens(blocks[b].tails, DOMAIN blocks[b].tails)
    OBVIOUS
  <2>1. Trees(blocks)[b].tokens = TreeTokens(blocks[b].tails, DOMAIN blocks[b].tails)
    BY <1>2, <1>3, TreesAreWhole
  <2> QED BY <1>3, <2>1 DEF RowsOf
<1>6. \A x \in 1..n : /\ RowsTaken(per[x]) \in [1..L[x] -> Nat]
                      /\ SumTo(RowsTaken(per[x]), L[x]) \in Nat
                      /\ SumTo(RowsTaken(per[x]), L[x]) <= Size(rs[x])
                      /\ Size(rs[x]) \in Nat
  BY <1>1, <1>2, BlocksFit, SizeIs
<1>7. \A x \in 1..n : \A l \in 1..L[x] :
        RowsTaken(per[x])[l] = Len(per[x][l].shared) + TreeTokens(per[x][l].tails, DOMAIN per[x][l].tails)
  <2> SUFFICES ASSUME NEW x \in 1..n, NEW l \in 1..L[x]
               PROVE  RowsTaken(per[x])[l] = Len(per[x][l].shared) + TreeTokens(per[x][l].tails, DOMAIN per[x][l].tails)
    OBVIOUS
  <2>1. l \in DOMAIN per[x]
    BY <1>1, <1>2 DEF BlocksRead
  <2> QED BY <2>1 DEF RowsTaken
<1> HIDE DEF s, N
<1>8. \A x \in 1..n : \A l \in 1..L[x] : s[SumTo(L, x - 1) + l] = RowsTaken(per[x])[l]
  <2> SUFFICES ASSUME NEW x \in 1..n, NEW l \in 1..L[x]
               PROVE  s[SumTo(L, x - 1) + l] = RowsTaken(per[x])[l]
    OBVIOUS
  <2>1. SumTo(L, x - 1) + l \in 1..N /\ blocks[SumTo(L, x - 1) + l] = per[x][l]
    BY <1>2
  <2>2. RowsTaken(per[x])[l] = Len(per[x][l].shared) + TreeTokens(per[x][l].tails, DOMAIN per[x][l].tails)
    BY <1>7
  <2>3. \A b \in 1..N : s[b] = Len(blocks[b].shared) + TreeTokens(blocks[b].tails, DOMAIN blocks[b].tails)
    BY <1>5
  <2> QED BY ONLY <2>1, <2>2, <2>3
<1>9. sums \in [1..n -> Nat] /\ sizes \in [1..n -> Nat] /\ \A x \in 1..n : sums[x] <= sizes[x]
  BY <1>6
<1>10. Nested(n, L, vals, s, sums)
  <2>1. \A x \in 1..n : vals[x] = RowsTaken(per[x]) /\ sums[x] = SumTo(RowsTaken(per[x]), L[x])
    OBVIOUS
  <2> HIDE DEF vals, sums
  <2>2. s \in [1..SumTo(L, n) -> Nat]
    BY <1>2, <1>4
  <2> QED BY <1>1, <1>2, <1>6, <1>8, <1>9, <2>1, <2>2 DEF Nested
<1> HIDE DEF vals, sums
<1>11. AddUp(n, L, vals, s, sums)
  BY <1>10, NestedSums
<1>12. n \in 0..n
  BY <1>1
<1>13. SumTo(s, N) = SumTo(sums, n)
  BY <1>2, <1>11, <1>12 DEF AddUp
<1>14. SumTo(sums, n) <= SumTo(sizes, n)
  BY <1>1, <1>9, <1>12, SumsAtMost
<1> QED BY <1>13, <1>14 DEF s, N

\* What a batch leaves.
BatchDone(n, rs, done) ==
  /\ done.length <= SumTo([i \in 1..n |-> Size(rs[i])], n)
  /\ \A i \in 1..n : done.out[i] = [j \in DOMAIN rs[i].tails |-> Prompt(rs[i], j)]
  /\ \A e \in done.fresh : Faithful(e)

\* score_batch: every request its own answers, every state its own cells.
LEMMA BatchRunIs ==
  ASSUME NEW n \in Nat, NEW rs, DOMAIN rs = 1..n, NEW found,
         \A i \in 1..n : TypedRequest(rs[i]) /\ Faithful(found[i])
  PROVE  BatchDone(n, rs, BatchRun(rs, found))
<1> DEFINE per == [i \in DOMAIN rs |-> RequestBlocks(rs[i], found[i])]
           wss == [i \in DOMAIN rs |-> Reads(rs[i])]
           blocks == FlattenSeq(per)
           ws == FlattenSeq(wss)
           firstBlock == [i \in DOMAIN rs |-> SumTo([j \in DOMAIN per |-> Len(per[j])], i - 1) + 1]
           counts == [i \in DOMAIN rs |-> SumTo([b \in DOMAIN per[i] |-> AnswersOf(per[i][b])], Len(per[i]))]
           call == run(blocks)
           States == {i \in DOMAIN rs : Boundary(rs[i]) /\ Wants(State(rs[i]))}
           Fresh == {i \in States : \A j \in 1..(i - 1) \intersect States : State(rs[j]) # State(rs[i])}
           Cells(i) == first(extend(per[i][1], call.row[firstBlock[i]], call.new), rs[i].state)
           done == BatchRun(rs, found)
           L == Lens(per)
<1>1. /\ done.length = Len(call.new)
      /\ done.out = [i \in DOMAIN rs |-> SubSeq(call.ps, SumTo(counts, i - 1) + 1, SumTo(counts, i))]
      /\ done.fresh = {[tokens |-> State(rs[i]), cells |-> Cells(i)] : i \in Fresh}
  BY DEF BatchRun
<1>2. Together(n, rs, per, wss)
  <2>1. \A i \in 1..n : BlocksRead(rs[i], RequestBlocks(rs[i], found[i]), Reads(rs[i]))
    BY BlocksAre
  <2>2. \A i \in 1..n : per[i] = RequestBlocks(rs[i], found[i]) /\ wss[i] = Reads(rs[i])
    OBVIOUS
  <2>3. DOMAIN per = 1..n /\ per = [i \in 1..n |-> per[i]] /\ DOMAIN wss = 1..n /\ wss = [i \in 1..n |-> wss[i]]
    OBVIOUS
  <2> HIDE DEF per, wss
  <2> QED BY <2>1, <2>2, <2>3 DEF Together
<1>3. firstBlock = [i \in DOMAIN rs |-> SumTo(L, i - 1) + 1]
  BY DEF Lens
<1>4. counts = Counts(n, per)
  <2> HIDE DEF per
  <2> QED BY DEF Asking, Counts
<1> HIDE DEF per, wss, firstBlock, counts, L, done
<1>5. LaidTogether(n, per, wss, L, blocks, ws)
  BY <1>2, LaidIs DEF L
<1> HIDE DEF blocks, ws
<1>6. SoundCall(blocks, ws)
  BY <1>5 DEF LaidTogether
<1>7. RunReads(blocks, ws, call)
  BY <1>6, RunIs
<1> HIDE DEF call
<1>8. call.ps = FlattenSeq(AnswerParts(blocks, ws)) /\ Len(call.new) = SumTo(RowsOf(blocks), Len(blocks))
  BY <1>7 DEF RunReads
<1>9. ASSUME NEW i \in 1..n PROVE done.out[i] = [j \in DOMAIN rs[i].tails |-> Prompt(rs[i], j)]
  <2>1. SubSeq(call.ps, SumTo(counts, i - 1) + 1, SumTo(counts, i)) = [j \in DOMAIN rs[i].tails |-> Prompt(rs[i], j)]
    <3>1. AnswersAt(n, rs, counts, call.ps)
      BY <1>2, <1>4, <1>5, <1>8, AnswersCut DEF L
    <3> QED BY <3>1 DEF AnswersAt
  <2> QED BY <1>1, <2>1
<1>10. done.length <= SumTo([i \in 1..n |-> Size(rs[i])], n)
  <2>1. SumTo(RowsOf(blocks), Len(blocks)) <= SumTo([i \in 1..n |-> Size(rs[i])], n)
    BY <1>2, <1>5, BatchFits
  <2> QED BY <1>1, <1>8, <2>1
<1>11. ASSUME NEW i \in Fresh PROVE Faithful([tokens |-> State(rs[i]), cells |-> Cells(i)])
  <2> DEFINE p == rs[i].prefix
             B == per[i][1]
             x == firstBlock[i]
             c == Cells(i)
  <2>1. i \in 1..n /\ Boundary(rs[i])
    OBVIOUS
  <2>2. TypedRequest(rs[i]) /\ BlocksRead(rs[i], per[i], wss[i])
    BY <1>2, <2>1 DEF Together
  <2>3. Len(per[i]) = 1 /\ wss[i][1] = p
    BY <2>1, <2>2 DEF BlocksRead
  <2>4. L[i] = 1
    BY <1>5, <2>1, <2>3 DEF LaidTogether
  <2>5. x \in 1..Len(blocks) /\ blocks[x] = B /\ ws[x] = p
    <3>1. x = SumTo(L, i - 1) + 1 /\ 1 \in 1..L[i]
      BY <1>3, <2>1, <2>4
    <3> HIDE DEF x
    <3> QED BY <1>5, <2>1, <2>3, <3>1 DEF LaidTogether
  <2>6. x \in DOMAIN blocks
    BY <1>6, <2>5 DEF SoundCall
  <2>7. p \in Seq(Int) /\ rs[i].state \in 0..Len(p)
    BY <2>2 DEF TypedRequest
  <2> HIDE DEF x, B, p
  <2>8. extend(B, call.row[x], call.new) = CellsOf(p)
    <3>1. extend(blocks[x], call.row[x], call.new) = CellsOf(ws[x])
      BY <1>6, <1>7, <2>6, RowsWithin
    <3> QED BY <2>5, <3>1
  <2>9. c = first(CellsOf(p), rs[i].state)
    BY <2>8 DEF B, x
  <2> HIDE DEF c
  <2>10. SubSeq(p, 1, rs[i].state) \in Seq(Int) /\ c = CellsOf(SubSeq(p, 1, rs[i].state))
    BY <2>7, <2>9, FirstIsCells
  <2>11. State(rs[i]) = SubSeq(p, 1, rs[i].state)
    BY DEF State, p
  <2> DEFINE e == [tokens |-> State(rs[i]), cells |-> c]
  <2>12. e.tokens = State(rs[i]) /\ e.cells = c
    OBVIOUS
  <2> HIDE DEF e
  <2>13. Faithful(e)
    BY <2>10, <2>11, <2>12 DEF Faithful
  <2> QED BY <2>13 DEF e, c
<1> HIDE DEF Fresh, Cells
<1>12. \A e \in done.fresh : Faithful(e)
  BY <1>1, <1>11
<1>13. BatchDone(n, rs, done)
  BY <1>9, <1>10, <1>12 DEF BatchDone
<1> QED BY <1>13 DEF done

\* A batch keeps the invariant.
LEMMA ScoreBatchStep == ASSUME IInv, ScoreBatch PROVE IInv'
<1>0. pc = "idle" /\ pc' = pc
  BY DEF ScoreBatch
<1>1. PICK n \in 2..MaxBatch :
        \E rs \in [1..n -> Requests] : \E found \in [1..n -> snapshots \union {NoEntry}] :
          /\ \A i \in 1..n : found[i] \in IF Boundary(rs[i]) THEN Find(rs[i].prefix) ELSE {NoEntry}
          /\ batch' = rs
          /\ LET done == BatchRun(rs, found)
             IN out' = done.out /\ length' = done.length /\ AddAll(done.fresh)
  BY DEF ScoreBatch
<1>2. PICK rs \in [1..n -> Requests] :
        \E found \in [1..n -> snapshots \union {NoEntry}] :
          /\ batch' = rs
          /\ LET done == BatchRun(rs, found)
             IN out' = done.out /\ length' = done.length /\ AddAll(done.fresh)
  BY <1>1
<1>3. PICK found \in [1..n -> snapshots \union {NoEntry}] :
        /\ batch' = rs
        /\ out' = BatchRun(rs, found).out /\ length' = BatchRun(rs, found).length
        /\ AddAll(BatchRun(rs, found).fresh)
  BY <1>2
<1> DEFINE done == BatchRun(rs, found)
<1>4. n \in Nat /\ n >= 1 /\ DOMAIN rs = 1..n
  BY LimitsAssumption
<1>5. \A i \in 1..n : TypedRequest(rs[i]) /\ Faithful(found[i])
  <2> SUFFICES ASSUME NEW i \in 1..n PROVE TypedRequest(rs[i]) /\ Faithful(found[i])
    OBVIOUS
  <2>1. rs[i] \in Requests /\ (found[i] \in snapshots \/ found[i] = NoEntry)
    OBVIOUS
  <2> QED BY <2>1, RequestIs, NoEntryFaithful DEF IInv
<1>6. BatchDone(n, rs, done)
  BY <1>4, <1>5, BatchRunIs
<1> HIDE DEF done
<1>7. batch' = rs /\ out' = done.out /\ length' = done.length /\ AddAll(done.fresh)
  BY <1>3 DEF done
<1>8. \A e \in snapshots' : Faithful(e)
  <2>1. \A e \in snapshots' : e \in snapshots \/ e \in done.fresh
    BY <1>7 DEF AddAll
  <2> QED BY <1>6, <2>1 DEF IInv, BatchDone
<1>9. AnswersAreTheirOwn'
  <2>1. \A i \in DOMAIN rs : done.out[i] = [j \in DOMAIN rs[i].tails |-> Prompt(rs[i], j)]
    BY <1>4, <1>6 DEF BatchDone
  <2> QED BY <1>7, <2>1 DEF AnswersAreTheirOwn
<1>10. ReadsWithinSize'
  <2>1. Len(rs) = n
    BY <1>4, ArrayIsSeq
  <2>2. done.length <= SumTo([i \in DOMAIN rs |-> Size(rs[i])], Len(rs))
    BY <1>4, <1>6, <2>1 DEF BatchDone
  <2> QED BY <1>7, <2>2 DEF ReadsWithinSize
<1> QED BY <1>0, <1>8, <1>9, <1>10 DEF IInv, Reading

\* So does every step.
LEMMA NextIInv == IInv /\ [Next]_vars => IInv'
<1> SUFFICES ASSUME IInv, [Next]_vars PROVE IInv'
  OBVIOUS
<1>1. CASE ScoreBatch BY <1>1, ScoreBatchStep
<1>2. CASE ScoreAlone BY <1>2, ScoreAloneStep
<1>3. CASE BeginOne BY <1>3, BeginOneStep
<1>4. CASE ReadPiece BY <1>4, ReadPieceStep
<1>5. CASE ReadQuestions BY <1>5, ReadQuestionsStep
<1>6. CASE EndOne BY <1>6, EndOneStep
<1>7. CASE UNCHANGED vars
  <2>1. /\ snapshots' = snapshots /\ pc' = pc /\ batch' = batch /\ out' = out /\ from' = from
        /\ cells' = cells /\ pos' = pos /\ k' = k /\ length' = length
    BY <1>7 DEF vars
  <2>2. One' = One /\ P' = P
    BY <2>1 DEF One, P
  <2>3. Reading' /\ AnswersAreTheirOwn' /\ ReadsWithinSize'
    BY <2>1, <2>2 DEF IInv, Reading, AnswersAreTheirOwn, ReadsWithinSize
  <2> QED BY <2>1, <2>3 DEF IInv
<1> QED BY <1>1, <1>2, <1>3, <1>4, <1>5, <1>6, <1>7 DEF Next

\* The invariant of the engine: its snapshots and the request in the middle of score_one only ever have cells of
\* their own tokens.
THEOREM IInvAlways == Spec => []IInv
<1> QED BY InitIInv, NextIInv, PTL DEF Spec

\* Every answer of a request is computed from its own prompt, whole and nothing else: under any plan of calls, from
\* any snapshot, beside any other requests in a batch (the mask of Model::Impl::run, the cutting of score_batch).
THEOREM AnswersAlwaysTheirOwn == Spec => []AnswersAreTheirOwn
<1>1. IInv => AnswersAreTheirOwn
  BY DEF IInv
<1> QED BY <1>1, IInvAlways, PTL

\* What `first` keeps of a call for a snapshot are the cells of its state, each computed from the state's own tokens up
\* to it, whatever questions and requests the call also read.
THEOREM SnapshotsAlwaysFaithful == Spec => []SnapshotsAreFaithful
<1>1. IInv => SnapshotsAreFaithful
  <2> SUFFICES ASSUME IInv, NEW e \in snapshots PROVE e.cells = [i \in DOMAIN e.tokens |-> SubSeq(e.tokens, 1, i)]
    BY DEF SnapshotsAreFaithful
  <2>1. e.tokens \in Seq(Int) /\ e.cells = CellsOf(e.tokens)
    BY DEF IInv, Faithful
  <2>2. DOMAIN e.tokens = 1..Len(e.tokens)
    BY <2>1
  <2> QED BY <2>1, <2>2 DEF CellsOf
<1> QED BY <1>1, IInvAlways, PTL

\* No call reads more rows than ScoreRequest::tokens() counts for its requests, which is what the scheduler budgets by.
THEOREM AlwaysReadsWithinSize == Spec => []ReadsWithinSize
<1>1. IInv => ReadsWithinSize
  BY DEF IInv
<1> QED BY <1>1, IInvAlways, PTL
=============================================================================
