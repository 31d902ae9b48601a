------------------------------ MODULE TreeProofs ------------------------------
(***************************************************************************)
(* Proofs about prefix trees: what added_tokens counts is what a tree      *)
(* grows by, and the tree prompt_tree grows has a leaf of each question,   *)
(* paths that spell the questions, and TreeTokens tokens.  Induction,      *)
(* recursion, sums and lists laid end to end, which these and others need, *)
(* are here as well.                                                       *)
(***************************************************************************)
EXTENDS PromptTree, Sums, SequencesExt, SequenceTheorems, FiniteSetTheorems, WellFoundedInduction, TLAPS

-----------------------------------------------------------------------------
(* Starts of questions *)

\* The first n of a sequence's tokens.
LEMMA SubSeqIsStart ==
  ASSUME NEW S, NEW t \in Seq(S), NEW n \in 0..Len(t)
  PROVE  /\ SubSeq(t, 1, n) \in Seq(S)
         /\ Len(SubSeq(t, 1, n)) = n
         /\ \A i \in 1..n : SubSeq(t, 1, n)[i] = t[i]
<1> QED BY SubSeqProperties

\* A start of a is one of b's exactly when the two share it.
LEMMA SameStart ==
  ASSUME NEW a \in Seq(Int), NEW b \in Seq(Int), NEW n \in 1..(Len(a) - 1)
  PROVE  SubSeq(a, 1, n) \in Starts(b) <=> SharesStart(a, b, n)
<1>1. /\ SubSeq(a, 1, n) \in Seq(Int)
      /\ Len(SubSeq(a, 1, n)) = n
      /\ \A i \in 1..n : SubSeq(a, 1, n)[i] = a[i]
  BY SubSeqIsStart
<1>2. ASSUME SubSeq(a, 1, n) \in Starts(b) PROVE SharesStart(a, b, n)
  <2>1. PICK m \in 1..(Len(b) - 1) : SubSeq(a, 1, n) = SubSeq(b, 1, m)
    BY <1>2 DEF Starts
  <2>2. /\ Len(SubSeq(b, 1, m)) = m
        /\ \A i \in 1..m : SubSeq(b, 1, m)[i] = b[i]
    BY SubSeqIsStart
  <2>3. m = n
    BY <1>1, <2>1, <2>2
  <2> QED BY <1>1, <2>1, <2>2, <2>3 DEF SharesStart
<1>3. ASSUME SharesStart(a, b, n) PROVE SubSeq(a, 1, n) \in Starts(b)
  <2>1. n \in 1..(Len(b) - 1)
    BY <1>3 DEF SharesStart
  <2>2. /\ SubSeq(b, 1, n) \in Seq(Int)
        /\ Len(SubSeq(b, 1, n)) = n
        /\ \A i \in 1..n : SubSeq(b, 1, n)[i] = b[i]
    BY <2>1, SubSeqIsStart
  <2>3. SubSeq(a, 1, n) = SubSeq(b, 1, n)
    BY <1>1, <1>3, <2>2, SeqEqual DEF SharesStart
  <2> QED BY <2>1, <2>3 DEF Starts
<1> QED BY <1>2, <1>3

\* As many starts as lengths: starts of different lengths differ.
LEMMA CountStarts ==
  ASSUME NEW a \in Seq(Int), NEW N \in SUBSET (1..Len(a))
  PROVE  /\ IsFiniteSet({SubSeq(a, 1, n) : n \in N})
         /\ Cardinality({SubSeq(a, 1, n) : n \in N}) = Cardinality(N)
<1> DEFINE T == {SubSeq(a, 1, n) : n \in N}
           f == [n \in N |-> SubSeq(a, 1, n)]
<1>1. IsFiniteSet(N)
  <2>1. Len(a) \in Nat
    OBVIOUS
  <2>2. IsFiniteSet(1..Len(a))
    BY <2>1, FS_Interval
  <2> QED BY <2>2, FS_Subset
<1>2. \A n \in N : Len(f[n]) = n
  BY SubSeqIsStart
<1>3. f \in Bijection(N, T)
  <2>1. f \in [N -> T]
    OBVIOUS
  <2>2. \A m, n \in N : f[m] = f[n] => m = n
    BY <1>2
  <2>3. \A t \in T : \E n \in N : f[n] = t
    OBVIOUS
  <2> QED BY <2>1, <2>2, <2>3 DEF Bijection, Injection, Surjection, IsInjective
<1>4. ExistsBijection(N, T)
  BY <1>3 DEF ExistsBijection
<1> QED BY <1>1, <1>4, FS_Bijection

\* A prompt has finitely many starts.
LEMMA StartsAreFinite ==
  ASSUME NEW a \in Seq(Int)
  PROVE  /\ IsFiniteSet(Starts(a))
<1>1. 1..(Len(a) - 1) \in SUBSET (1..Len(a))
  OBVIOUS
<1> QED BY <1>1, CountStarts DEF Starts

\* What added_tokens counts for question p is what the tree of M grows by.
LEMMA AddedIsGrowth ==
  ASSUME NEW ts \in Seq(Seq(Int)), \A q \in DOMAIN ts : ts[q] # <<>>,
         NEW M \in SUBSET DOMAIN ts, NEW p \in DOMAIN ts, p \notin M
  PROVE  /\ TreeTokens(ts, M) \in Nat
         /\ added_tokens(ts, M, p) \in Nat
         /\ TreeTokens(ts, M \union {p}) = TreeTokens(ts, M) + added_tokens(ts, M, p)
<1> DEFINE a == ts[p]
           U == UNION {Starts(ts[m]) : m \in M}
           Whole == 1..(Len(a) - 1)
           Shared == {n \in 1..Len(a) : \E m \in M : SharesStart(a, ts[m], n)}
           Fresh == {SubSeq(a, 1, n) : n \in Whole \ Shared}
<1>1. a \in Seq(Int) /\ Len(a) \in Nat \ {0} /\ \A m \in M : ts[m] \in Seq(Int)
  OBVIOUS
<1>2. IsFiniteSet(M)
  BY FS_Interval, FS_Subset
<1>3. IsFiniteSet(U)
  <2> DEFINE F == {Starts(ts[m]) : m \in M}
  <2>1. IsFiniteSet(F)
    <3> DEFINE f == [m \in M |-> Starts(ts[m])]
    <3>1. f \in Surjection(M, F)
      BY DEF Surjection
    <3> HIDE DEF f, F
    <3> QED BY <3>1, <1>2, FS_Surjection
  <2>2. \A T \in F : IsFiniteSet(T)
    BY <1>1, StartsAreFinite
  <2> QED BY <2>1, <2>2, FS_UNION
<1>4. Shared \subseteq Whole
  BY <1>1 DEF SharesStart
<1>5. /\ IsFiniteSet(Whole) /\ Cardinality(Whole) = Len(a) - 1
      /\ IsFiniteSet(Shared)
      /\ Cardinality(Shared) \in Nat
      /\ Cardinality(Shared) <= Len(a) - 1
      /\ IsFiniteSet(Whole \ Shared)
      /\ Cardinality(Whole \ Shared) = Len(a) - 1 - Cardinality(Shared)
  <2>1. IsFiniteSet(Whole) /\ Cardinality(Whole) = Len(a) - 1
    <3> DEFINE n == Len(a) - 1
    <3>1. n \in Nat
      BY <1>1
    <3> HIDE DEF n
    <3>2. IsFiniteSet(1..n) /\ Cardinality(1..n) = n
      <4>1. IsFiniteSet(1..n) /\ Cardinality(1..n) = IF 1 > n THEN 0 ELSE n - 1 + 1
        BY <3>1, FS_Interval
      <4> QED BY <3>1, <4>1
    <3> QED BY <3>2 DEF n
  <2>2. IsFiniteSet(Shared) /\ Cardinality(Shared) <= Cardinality(Whole)
    BY <1>4, <2>1, FS_Subset
  <2>3. Whole \intersect Shared = Shared
    BY <1>4
  <2>4. /\ IsFiniteSet(Whole \ Shared)
        /\ Cardinality(Whole \ Shared) = Cardinality(Whole) - Cardinality(Whole \cap Shared)
    BY <2>1, FS_Difference
  <2> HIDE DEF Whole, Shared
  <2> QED BY <2>1, <2>2, <2>3, <2>4, FS_CardinalityType
<1>6. IsFiniteSet(Fresh) /\ Cardinality(Fresh) = Cardinality(Whole \ Shared)
  <2>1. Whole \ Shared \in SUBSET (1..Len(a))
    BY <1>1
  <2> QED BY <1>1, <2>1, CountStarts
<1>7. \A n \in Whole : SubSeq(a, 1, n) \in U <=> n \in Shared
  <2> SUFFICES ASSUME NEW n \in Whole
               PROVE  SubSeq(a, 1, n) \in U <=> n \in Shared
    OBVIOUS
  <2>1. SubSeq(a, 1, n) \in U <=> \E m \in M : SubSeq(a, 1, n) \in Starts(ts[m])
    OBVIOUS
  <2>2. \A m \in M : SubSeq(a, 1, n) \in Starts(ts[m]) <=> SharesStart(a, ts[m], n)
    BY <1>1, SameStart
  <2>3. n \in 1..Len(a)
    BY <1>1
  <2> QED BY <2>1, <2>2, <2>3
<1>8. UNION {Starts(ts[m]) : m \in M \union {p}} = U \union Fresh
  <2>1. Starts(a) = {SubSeq(a, 1, n) : n \in Whole}
    BY DEF Starts
  <2>2. Starts(a) \subseteq U \union Fresh
    <3> SUFFICES ASSUME NEW n \in Whole
                 PROVE  SubSeq(a, 1, n) \in U \union Fresh
      BY <2>1
    <3>1. CASE n \in Shared
      BY <1>7, <3>1
    <3>2. CASE n \notin Shared
      <4> HIDE DEF Whole, Shared
      <4> QED BY <3>2
    <3> QED BY <3>1, <3>2
  <2>3. Fresh \subseteq Starts(a)
    BY <2>1
  <2>4. UNION {Starts(ts[m]) : m \in M \union {p}} = U \union Starts(a)
    OBVIOUS
  <2> HIDE DEF U, Fresh, a
  <2> QED BY <2>2, <2>3, <2>4
<1>9. U \intersect Fresh = {}
  BY <1>7
<1>10. Cardinality(U \union Fresh) = Cardinality(U) + Cardinality(Fresh)
  <2> HIDE DEF U, Fresh
  <2>1. Cardinality(U \union Fresh) = Cardinality(U) + Cardinality(Fresh) - Cardinality(U \intersect Fresh)
    BY <1>3, <1>6, FS_Union
  <2>2. Cardinality(U \intersect Fresh) = 0
    BY <1>9, FS_EmptySet
  <2>3. Cardinality(U) \in Nat /\ Cardinality(Fresh) \in Nat
    BY <1>3, <1>6, FS_CardinalityType
  <2> QED BY <2>1, <2>2, <2>3
<1>11. Cardinality(M \union {p}) = Cardinality(M) + 1
  BY <1>2, FS_AddElement
<1>12. Cardinality(U) \in Nat /\ Cardinality(M) \in Nat
  BY <1>2, <1>3, FS_CardinalityType
<1>13. added_tokens(ts, M, p) = Len(a) - Cardinality(Shared)
  BY DEF added_tokens
<1>14. TreeTokens(ts, M) = Cardinality(U) + Cardinality(M)
  BY DEF TreeTokens
<1>15. TreeTokens(ts, M \union {p}) = Cardinality(U \union Fresh) + Cardinality(M \union {p})
  BY <1>8 DEF TreeTokens
<1> HIDE DEF a, U, Whole, Shared, Fresh
<1>16. /\ Len(a) \in Nat \ {0}
       /\ Cardinality(Shared) \in Nat
       /\ Cardinality(Shared) <= Len(a) - 1
       /\ Cardinality(Fresh) = Len(a) - 1 - Cardinality(Shared)
  BY <1>1, <1>5, <1>6
<1>17. TreeTokens(ts, M) \in Nat
  BY <1>12, <1>14
<1>18. added_tokens(ts, M, p) \in Nat
  BY <1>13, <1>16
<1>19. TreeTokens(ts, M \union {p}) = TreeTokens(ts, M) + added_tokens(ts, M, p)
  BY <1>10, <1>11, <1>12, <1>13, <1>14, <1>15, <1>16
<1> QED BY <1>17, <1>18, <1>19

-----------------------------------------------------------------------------
(* Induction and recursion over the naturals *)

\* A set of naturals has a least element.
LEMMA Least ==
  ASSUME NEW T \in SUBSET Nat, T # {}
  PROVE  \E x \in T : \A y \in T : ~ (y < x)
<1>1. IsWellFoundedOn(OpToRel(<, Nat), Nat)
  BY NatLessThanWellFounded
<1>2. \A x, y \in Nat : <<x, y>> \in OpToRel(<, Nat) <=> x < y
  BY DEF OpToRel
<1>3. PICK R : IsWellFoundedOn(R, Nat) /\ \A x, y \in Nat : <<x, y>> \in R <=> x < y
  BY <1>1, <1>2
<1>4. PICK x \in T : \A y \in T : ~ (<<y, x>> \in R)
  <2>1. IsWellFoundedOn(R, Nat) /\ T \subseteq Nat
    BY <1>3
  <2> QED BY <2>1, WFMin, Zenon
<1>5. \A y \in T : <<y, x>> \in R <=> y < x
  BY <1>3
<1> QED BY <1>4, <1>5

\* Induction over a set of naturals.
LEMMA Induct ==
  ASSUME NEW T, 0 \in T, \A n \in Nat : n \in T => n + 1 \in T
  PROVE  \A n \in Nat : n \in T
<1> DEFINE U == Nat \ T
<1> SUFFICES ASSUME U # {} PROVE FALSE
  OBVIOUS
<1>1. PICK x \in U : \A y \in U : ~(y < x)
  <2>1. U \in SUBSET Nat
    OBVIOUS
  <2> HIDE DEF U
  <2> QED BY <2>1, Least
<1>2. x \in Nat /\ x # 0 /\ x - 1 \in Nat /\ x - 1 < x /\ (x - 1) + 1 = x
  OBVIOUS
<1>3. x - 1 \in T
  BY <1>1, <1>2
<1> QED BY <1>2, <1>3

\* f is made by F from b, on 0..n.
Makes(f, n, b, F) == /\ f[0] = b
                     /\ \A m \in Nat : m < n => f[m + 1] = F[m][f[m]]

\* A recursive function is made in one way only: two tables for it agree.
LEMMA MadeOnce ==
  ASSUME NEW n \in Nat, NEW b, NEW F, NEW f, NEW g, Makes(f, n, b, F), Makes(g, n, b, F)
  PROVE  \A i \in 0..n : f[i] = g[i]
<1> DEFINE T == {i \in Nat : i <= n => f[i] = g[i]}
<1>1. 0 \in T
  BY DEF Makes
<1>2. ASSUME NEW i \in Nat, i \in T PROVE i + 1 \in T
  <2> SUFFICES ASSUME i + 1 <= n PROVE f[i + 1] = g[i + 1]
    OBVIOUS
  <2>1. i < n /\ f[i] = g[i]
    BY <1>2
  <2> QED BY <2>1 DEF Makes
<1>3. \A i \in Nat : i \in T
  <2> HIDE DEF T
  <2> QED BY <1>1, <1>2, Induct
<1> QED BY <1>3

\* A recursive function into U exists.
LEMMA Recursion ==
  ASSUME NEW U, NEW b \in U, NEW F \in [Nat -> [U -> U]]
  PROVE  \E f \in [Nat -> U] : \A n \in Nat : Makes(f, n, b, F)
<1> DEFINE T == {n \in Nat : \E h \in [0..n -> U] : Makes(h, n, b, F)}
<1>1. \A n \in Nat : n \in T
  <2>1. 0 \in T
    <3>1. Makes([i \in 0..0 |-> b], 0, b, F)
      BY DEF Makes
    <3>2. [i \in 0..0 |-> b] \in [0..0 -> U]
      OBVIOUS
    <3> QED BY <3>1, <3>2
  <2>2. ASSUME NEW n \in Nat, n \in T PROVE n + 1 \in T
    <3>1. PICK h \in [0..n -> U] : Makes(h, n, b, F)
      BY <2>2
    <3> DEFINE v == F[n][h[n]]
               g == [i \in 0..(n + 1) |-> IF i = n + 1 THEN v ELSE h[i]]
    <3>2. v \in U
      OBVIOUS
    <3> HIDE DEF v
    <3>3. g \in [0..(n + 1) -> U] /\ g[0] = b
      BY <3>1, <3>2 DEF Makes
    <3>4. ASSUME NEW m \in Nat, m < n + 1 PROVE g[m + 1] = F[m][g[m]]
      <4>1. CASE m = n
        <5>1. g[m] = h[n] /\ g[m + 1] = v
          BY <4>1
        <5> QED BY <4>1, <5>1 DEF v
      <4>2. CASE m < n
        <5>1. g[m] = h[m] /\ g[m + 1] = h[m + 1]
          BY <4>2
        <5> QED BY <3>1, <4>2, <5>1 DEF Makes
      <4> QED BY <3>4, <4>1, <4>2
    <3> HIDE DEF g
    <3>5. Makes(g, n + 1, b, F)
      BY <3>3, <3>4 DEF Makes
    <3> QED BY <3>3, <3>5
  <2> HIDE DEF T
  <2> QED BY <2>1, <2>2, Induct
<1> DEFINE H(n) == CHOOSE h \in [0..n -> U] : Makes(h, n, b, F)
           f == [n \in Nat |-> H(n)[n]]
<1>2. \A n \in Nat : H(n) \in [0..n -> U] /\ Makes(H(n), n, b, F)
  BY <1>1
<1> HIDE DEF H
<1>3. \A n \in Nat : H(n)[n] \in U
  BY <1>2
<1>4. ASSUME NEW n \in Nat PROVE H(n + 1)[n] = H(n)[n] /\ H(n + 1)[n + 1] = F[n][H(n + 1)[n]]
  <2>1. Makes(H(n + 1), n, b, F) /\ Makes(H(n), n, b, F)
    <3>1. n + 1 \in Nat /\ \A m \in Nat : m < n => m < n + 1
      OBVIOUS
    <3> QED BY <1>2, <3>1 DEF Makes
  <2>2. \A i \in 0..n : H(n + 1)[i] = H(n)[i]
    BY <2>1, MadeOnce
  <2>3. Makes(H(n + 1), n + 1, b, F) /\ n < n + 1
    BY <1>2
  <2> QED BY <2>2, <2>3 DEF Makes
<1>5. H(0)[0] = b
  BY <1>2 DEF Makes
<1>6. f \in [Nat -> U] /\ f[0] = b
  BY <1>3, <1>5
<1>7. \A n \in Nat : f[n + 1] = F[n][f[n]]
  BY <1>4
<1> HIDE DEF f
<1> QED BY <1>6, <1>7 DEF Makes

-----------------------------------------------------------------------------
(* Sums *)

\* SumTo adds up.
LEMMA Sums ==
  ASSUME NEW n \in Nat, NEW s \in [1..n -> Nat]
  PROVE  /\ SumTo(s, 0) = 0
         /\ \A i \in 0..n : SumTo(s, i) \in Nat
         /\ \A i \in 1..n : SumTo(s, i) = SumTo(s, i - 1) + s[i]
<1> DEFINE F == [i \in Nat |-> [x \in Nat |-> x + IF i + 1 \in 1..n THEN s[i + 1] ELSE 0]]
<1>1. F \in [Nat -> [Nat -> Nat]]
  OBVIOUS
<1>2. PICK f \in [Nat -> Nat] : \A i \in Nat : Makes(f, i, 0, F)
  <2> HIDE DEF F
  <2> QED BY <1>1, Recursion
<1>3. f[0] = 0 /\ \A i \in Nat : i + 1 <= n => f[i + 1] = f[i] + s[i + 1]
  <2>1. f[0] = 0
    BY <1>2 DEF Makes
  <2>2. ASSUME NEW i \in Nat, i + 1 <= n PROVE f[i + 1] = f[i] + s[i + 1]
    <3>1. i + 1 \in Nat /\ i < i + 1 /\ i + 1 \in 1..n
      BY <2>2
    <3>2. f[i + 1] = F[i][f[i]]
      BY <1>2, <3>1 DEF Makes
    <3>3. f[i] \in Nat
      BY <1>2
    <3> QED BY <3>1, <3>2, <3>3
  <2> QED BY <2>1, <2>2
<1> HIDE DEF F
<1>4. ASSUME NEW i \in 0..n PROVE SumTo(s, i) = f[i]
  <2> DEFINE Is(g) == g = [j \in 0..i |-> IF j = 0 THEN 0 ELSE g[j - 1] + s[j]]
  <2>1. \E g : Is(g)
    <3> DEFINE h == [j \in 0..i |-> f[j]]
    <3>1. ASSUME NEW j \in 0..i PROVE h[j] = IF j = 0 THEN 0 ELSE h[j - 1] + s[j]
      <4>1. CASE j = 0
        BY <1>3, <4>1
      <4>2. CASE j # 0
        <5>1. j - 1 \in Nat /\ (j - 1) + 1 = j /\ j - 1 \in 0..i /\ j <= n
          BY <4>2
        <5>2. f[(j - 1) + 1] = f[j - 1] + s[(j - 1) + 1]
          BY <1>3, <5>1
        <5> QED BY <4>2, <5>1, <5>2
      <4> QED BY <4>1, <4>2
    <3>2. h = [j \in 0..i |-> h[j]]
      OBVIOUS
    <3> HIDE DEF h
    <3>3. Is(h)
      BY <3>1, <3>2
    <3> QED BY <3>3
  <2>2. PICK g : Is(g) /\ SumTo(s, i) = g[i]
    <3>1. SumTo(s, i) = (CHOOSE g : Is(g))[i]
      BY DEF SumTo
    <3> HIDE DEF Is
    <3> QED BY <2>1, <3>1
  <2> DEFINE T == {j \in Nat : j <= i => g[j] = f[j]}
  <2>3. \A j \in 0..i : g[j] = IF j = 0 THEN 0 ELSE g[j - 1] + s[j]
    BY <2>2
  <2>4. 0 \in T
    BY <1>3, <2>3
  <2>5. ASSUME NEW j \in Nat, j \in T PROVE j + 1 \in T
    <3> SUFFICES ASSUME j + 1 <= i PROVE g[j + 1] = f[j + 1]
      OBVIOUS
    <3>1. j + 1 \in 0..i /\ j + 1 # 0 /\ (j + 1) - 1 = j /\ j <= i /\ j + 1 <= n
      OBVIOUS
    <3>2. g[j + 1] = g[j] + s[j + 1]
      BY <2>3, <3>1
    <3>3. g[j] = f[j]
      BY <2>5, <3>1
    <3> QED BY <1>3, <3>1, <3>2, <3>3
  <2>6. \A j \in Nat : j \in T
    <3> HIDE DEF T
    <3> QED BY <2>4, <2>5, Induct
  <2>7. i \in T
    <3>1. i \in Nat
      OBVIOUS
    <3> HIDE DEF T
    <3> QED BY <2>6, <3>1
  <2> QED BY <2>2, <2>7
<1>5. ASSUME NEW i \in 1..n PROVE f[i] = f[i - 1] + s[i]
  <2>1. i - 1 \in Nat /\ (i - 1) + 1 = i /\ (i - 1) + 1 <= n
    OBVIOUS
  <2>2. f[(i - 1) + 1] = f[i - 1] + s[(i - 1) + 1]
    BY <1>3, <2>1
  <2> QED BY <2>1, <2>2
<1>6. ASSUME NEW i \in 1..n PROVE SumTo(s, i) = SumTo(s, i - 1) + s[i]
  <2>1. i \in 0..n /\ i - 1 \in 0..n
    OBVIOUS
  <2> QED BY <1>4, <1>5, <2>1
<1>7. SumTo(s, 0) = 0 /\ \A i \in 0..n : SumTo(s, i) \in Nat
  <2>1. 0 \in 0..n /\ \A i \in 0..n : i \in Nat
    OBVIOUS
  <2> QED BY <1>2, <1>3, <1>4, <2>1
<1> QED BY <1>6, <1>7

\* Later sums are not less.
LEMMA SumsGrow ==
  ASSUME NEW n \in Nat, NEW s \in [1..n -> Nat], NEW i \in 0..n, NEW j \in 0..n, i <= j
  PROVE  SumTo(s, i) <= SumTo(s, j)
<1> DEFINE T == {l \in Nat : i + l <= n => SumTo(s, i) <= SumTo(s, i + l)}
<1>1. \A l \in 0..n : SumTo(s, l) \in Nat
  BY Sums
<1>2. 0 \in T
  BY <1>1
<1>3. ASSUME NEW l \in Nat, l \in T PROVE l + 1 \in T
  <2> SUFFICES ASSUME i + (l + 1) <= n PROVE SumTo(s, i) <= SumTo(s, i + (l + 1))
    OBVIOUS
  <2>1. i + (l + 1) \in 1..n /\ (i + (l + 1)) - 1 = i + l /\ i + l \in 0..n /\ i + l <= n
    OBVIOUS
  <2>2. SumTo(s, i + (l + 1)) = SumTo(s, i + l) + s[i + (l + 1)]
    BY <2>1, Sums
  <2>3. SumTo(s, i) <= SumTo(s, i + l) /\ s[i + (l + 1)] \in Nat
    BY <1>3, <2>1
  <2>4. SumTo(s, i + l) \in Nat /\ SumTo(s, i) \in Nat
    BY <1>1, <2>1
  <2> QED BY <2>2, <2>3, <2>4
<1>4. \A l \in Nat : l \in T
  <2> HIDE DEF T
  <2> QED BY <1>2, <1>3, Induct
<1>5. j - i \in Nat /\ i + (j - i) = j /\ j <= n
  OBVIOUS
<1>6. j - i \in T
  BY <1>4, <1>5
<1> QED BY <1>5, <1>6

\* Each place up to a sum is of one summand.
LEMMA PlaceInSum ==
  ASSUME NEW n \in Nat, NEW s \in [1..n -> Nat], NEW x \in 1..SumTo(s, n)
  PROVE  \E b \in 1..n : x > SumTo(s, b - 1) /\ x <= SumTo(s, b) /\ x - SumTo(s, b - 1) \in 1..s[b]
<1> DEFINE T == {b \in 0..n : x <= SumTo(s, b)}
<1>1. \A l \in 0..n : SumTo(s, l) \in Nat
  BY Sums
<1>2. SumTo(s, 0) = 0
  BY Sums
<1>3. n \in T
  BY <1>1
<1>4. PICK b \in T : \A c \in T : ~(c < b)
  <2>1. T \in SUBSET Nat /\ T # {}
    BY <1>3
  <2> HIDE DEF T
  <2> QED BY <2>1, Least
<1>5. b \in 0..n /\ x <= SumTo(s, b)
  BY <1>4
<1>6. b # 0
  BY <1>1, <1>2, <1>5
<1>7. b \in 1..n /\ b - 1 \in 0..n /\ b - 1 < b
  BY <1>5, <1>6
<1>8. ~(x <= SumTo(s, b - 1))
  BY <1>4, <1>7
<1>9. SumTo(s, b) = SumTo(s, b - 1) + s[b] /\ s[b] \in Nat
  BY <1>7, Sums
<1>10. SumTo(s, b - 1) \in Nat /\ x \in Nat
  BY <1>1, <1>7
<1>11. x > SumTo(s, b - 1) /\ x - SumTo(s, b - 1) \in 1..s[b]
  BY <1>5, <1>8, <1>9, <1>10
<1> QED BY <1>5, <1>7, <1>11

\* ... and of no other.
LEMMA OneInSum ==
  ASSUME NEW n \in Nat, NEW s \in [1..n -> Nat], NEW b \in 1..n, NEW c \in 1..n,
         NEW i \in 1..s[b], NEW j \in 1..s[c], SumTo(s, b - 1) + i = SumTo(s, c - 1) + j
  PROVE  b = c /\ i = j
<1>1. \A l \in 0..n : SumTo(s, l) \in Nat
  BY Sums
<1>2. /\ SumTo(s, b) = SumTo(s, b - 1) + s[b] /\ SumTo(s, c) = SumTo(s, c - 1) + s[c]
      /\ s[b] \in Nat /\ s[c] \in Nat
  BY Sums
<1>3. /\ b \in 0..n /\ c \in 0..n /\ b - 1 \in 0..n /\ c - 1 \in 0..n
  OBVIOUS
<1>4. /\ SumTo(s, b) \in Nat /\ SumTo(s, c) \in Nat /\ SumTo(s, b - 1) \in Nat /\ SumTo(s, c - 1) \in Nat
  BY <1>1, <1>3
<1>5. ~(b < c)
  <2> SUFFICES ASSUME b < c PROVE FALSE
    OBVIOUS
  <2>1. SumTo(s, b) <= SumTo(s, c - 1)
    <3>1. b <= c - 1
      OBVIOUS
    <3> QED BY <1>3, <3>1, SumsGrow
  <2> QED BY <1>2, <1>4, <2>1
<1>6. ~(c < b)
  <2> SUFFICES ASSUME c < b PROVE FALSE
    OBVIOUS
  <2>1. SumTo(s, c) <= SumTo(s, b - 1)
    <3>1. c <= b - 1
      OBVIOUS
    <3> QED BY <1>3, <3>1, SumsGrow
  <2> QED BY <1>2, <1>4, <2>1
<1>7. b = c
  BY <1>5, <1>6
<1> QED BY <1>4, <1>7

\* Smaller summands, smaller sums.
LEMMA SumsAtMost ==
  ASSUME NEW n \in Nat, NEW s \in [1..n -> Nat], NEW t \in [1..n -> Nat], \A i \in 1..n : s[i] <= t[i]
  PROVE  \A i \in 0..n : SumTo(s, i) <= SumTo(t, i)
<1> DEFINE T == {i \in Nat : i <= n => SumTo(s, i) <= SumTo(t, i)}
<1>1. /\ \A i \in 0..n : SumTo(s, i) \in Nat /\ SumTo(t, i) \in Nat
      /\ SumTo(s, 0) = 0 /\ SumTo(t, 0) = 0
  BY Sums
<1>2. \A i \in 1..n : SumTo(s, i) = SumTo(s, i - 1) + s[i] /\ SumTo(t, i) = SumTo(t, i - 1) + t[i]
  BY Sums
<1>3. 0 \in T
  BY <1>1
<1>4. ASSUME NEW i \in Nat, i \in T PROVE i + 1 \in T
  <2> SUFFICES ASSUME i + 1 <= n PROVE SumTo(s, i + 1) <= SumTo(t, i + 1)
    OBVIOUS
  <2>1. i + 1 \in 1..n /\ (i + 1) - 1 = i /\ i \in 0..n
    OBVIOUS
  <2>2. SumTo(s, i) <= SumTo(t, i) /\ SumTo(s, i) \in Nat /\ SumTo(t, i) \in Nat
    BY <1>1, <1>4, <2>1
  <2>3. SumTo(s, i + 1) = SumTo(s, i) + s[i + 1] /\ SumTo(t, i + 1) = SumTo(t, i) + t[i + 1]
    BY <1>2, <2>1
  <2>4. s[i + 1] \in Nat /\ t[i + 1] \in Nat /\ s[i + 1] <= t[i + 1]
    BY <2>1
  <2> QED BY <2>2, <2>3, <2>4
<1> HIDE DEF T
<1>5. \A i \in Nat : i \in T
  BY <1>3, <1>4, Induct
<1> QED BY <1>5 DEF T

\* The sum of a part is what it adds to the sum before it.
LEMMA SumsOfPart ==
  ASSUME NEW n \in Nat, NEW s \in [1..n -> Nat], NEW a \in Nat, NEW m \in Nat, a + m <= n,
         NEW p \in [1..m -> Nat], \A i \in 1..m : p[i] = s[a + i]
  PROVE  \A i \in 0..m : SumTo(s, a + i) = SumTo(s, a) + SumTo(p, i)
<1> DEFINE T == {i \in Nat : i <= m => SumTo(s, a + i) = SumTo(s, a) + SumTo(p, i)}
<1>1. /\ \A i \in 0..n : SumTo(s, i) \in Nat
      /\ \A i \in 1..n : SumTo(s, i) = SumTo(s, i - 1) + s[i]
  BY Sums
<1>2. /\ \A i \in 0..m : SumTo(p, i) \in Nat
      /\ SumTo(p, 0) = 0
      /\ \A i \in 1..m : SumTo(p, i) = SumTo(p, i - 1) + p[i]
  BY Sums
<1>3. 0 \in T
  <2>1. a \in 0..n /\ a + 0 = a
    OBVIOUS
  <2>2. SumTo(s, a) \in Nat
    BY <1>1, <2>1
  <2>3. SumTo(s, a) = SumTo(s, a) + 0
    BY <2>2
  <2> QED BY <1>2, <2>1, <2>3
<1>4. ASSUME NEW i \in Nat, i \in T PROVE i + 1 \in T
  <2> SUFFICES ASSUME i + 1 <= m PROVE SumTo(s, a + (i + 1)) = SumTo(s, a) + SumTo(p, i + 1)
    OBVIOUS
  <2>1. i + 1 \in 1..m /\ (i + 1) - 1 = i /\ i \in 0..m /\ a \in 0..n
        /\ a + (i + 1) \in 1..n /\ (a + (i + 1)) - 1 = a + i /\ a + i \in 0..n
    OBVIOUS
  <2>2. SumTo(s, a + i) = SumTo(s, a) + SumTo(p, i) /\ SumTo(s, a) \in Nat /\ SumTo(p, i) \in Nat
    BY <1>1, <1>2, <1>4, <2>1
  <2>3. SumTo(s, a + (i + 1)) = SumTo(s, a + i) + s[a + (i + 1)]
    BY <1>1, <2>1
  <2>4. SumTo(p, i + 1) = SumTo(p, i) + p[i + 1]
    BY <1>2, <2>1
  <2>5. p[i + 1] \in Nat /\ p[i + 1] = s[a + (i + 1)]
    BY <2>1
  <2> QED BY <2>2, <2>3, <2>4, <2>5
<1> HIDE DEF T
<1>5. \A i \in Nat : i \in T
  BY <1>3, <1>4, Induct
<1> QED BY <1>5 DEF T

\* Ones add up to their number.
LEMMA SumOfOnes ==
  ASSUME NEW n \in Nat, NEW s \in [1..n -> Nat], \A i \in 1..n : s[i] = 1
  PROVE  \A i \in 0..n : SumTo(s, i) = i
<1> DEFINE T == {i \in Nat : i <= n => SumTo(s, i) = i}
<1>1. SumTo(s, 0) = 0 /\ \A i \in 1..n : SumTo(s, i) = SumTo(s, i - 1) + s[i]
  BY Sums
<1>2. 0 \in T
  BY <1>1
<1>3. ASSUME NEW i \in Nat, i \in T PROVE i + 1 \in T
  <2> SUFFICES ASSUME i + 1 <= n PROVE SumTo(s, i + 1) = i + 1
    OBVIOUS
  <2>1. i + 1 \in 1..n /\ (i + 1) - 1 = i /\ SumTo(s, i) = i
    BY <1>3
  <2> QED BY <1>1, <2>1
<1> HIDE DEF T
<1>4. \A i \in Nat : i \in T
  BY <1>2, <1>3, Induct
<1> QED BY <1>4 DEF T

-----------------------------------------------------------------------------
(* Sequences one after the other *)

\* The lengths of the sequences ss.
Lens(ss) == [b \in DOMAIN ss |-> Len(ss[b])]
\* Sequence f is those of ss, one after the other.
Flat(ss, f) ==
  /\ Len(f) = SumTo(Lens(ss), Len(ss))
  /\ \A b \in DOMAIN ss : \A j \in 1..Len(ss[b]) :
       /\ SumTo(Lens(ss), b - 1) + j \in 1..Len(f)
       /\ f[SumTo(Lens(ss), b - 1) + j] = ss[b][j]

\* They are numbers, with the sums Sums speaks of.
LEMMA LensIs ==
  ASSUME NEW X, NEW ss \in Seq(Seq(X))
  PROVE  /\ Len(ss) \in Nat /\ DOMAIN ss = 1..Len(ss)
         /\ Lens(ss) \in [1..Len(ss) -> Nat]
         /\ \A b \in DOMAIN ss : ss[b] \in Seq(X) /\ Lens(ss)[b] = Len(ss[b]) /\ Len(ss[b]) \in Nat
<1>1. Len(ss) \in Nat /\ DOMAIN ss = 1..Len(ss)
  OBVIOUS
<1>2. \A b \in DOMAIN ss : ss[b] \in Seq(X)
  OBVIOUS
<1>3. \A b \in DOMAIN ss : Len(ss[b]) \in Nat
  BY <1>2, LenProperties
<1> QED BY <1>1, <1>2, <1>3 DEF Lens

\* FlattenSeq puts them one after the other.
LEMMA FlattenIs ==
  ASSUME NEW X, NEW ss \in Seq(Seq(X))
  PROVE  FlattenSeq(ss) \in Seq(X) /\ Flat(ss, FlattenSeq(ss))
<1> DEFINE n == Len(ss)
           L == Lens(ss)
           U == Seq(X)
           F == [i \in Nat |-> [x \in U |-> x \o IF i + 1 \in 1..n THEN ss[i + 1] ELSE <<>>]]
<1>1. /\ n \in Nat /\ DOMAIN ss = 1..n
      /\ L \in [1..n -> Nat]
      /\ \A b \in 1..n : ss[b] \in Seq(X) /\ L[b] = Len(ss[b]) /\ Len(ss[b]) \in Nat
  BY LensIs
<1> HIDE DEF L, n
<1>2. <<>> \in U /\ \A x \in U, y \in U : x \o y \in U
  BY EmptySeq, ConcatProperties
<1>3. F \in [Nat -> [U -> U]]
  <2>1. \A i \in Nat : (IF i + 1 \in 1..n THEN ss[i + 1] ELSE <<>>) \in U
    BY <1>1, <1>2
  <2> HIDE DEF U
  <2> QED BY <1>2, <2>1
<1>4. PICK f \in [Nat -> U] : \A i \in Nat : Makes(f, i, <<>>, F)
  <2> HIDE DEF F, U
  <2> QED BY <1>2, <1>3, Recursion
<1>5. f[0] = <<>> /\ \A i \in 1..n : f[i - 1] \in U /\ f[i] \in U /\ f[i] = f[i - 1] \o ss[i]
  <2>1. f[0] = <<>>
    BY <1>4 DEF Makes
  <2>2. ASSUME NEW i \in 1..n PROVE f[i - 1] \in U /\ f[i] \in U /\ f[i] = f[i - 1] \o ss[i]
    <3>1. i - 1 \in Nat /\ i \in Nat /\ (i - 1) + 1 = i /\ i - 1 < i
      OBVIOUS
    <3>2. f[(i - 1) + 1] = F[i - 1][f[i - 1]]
      BY <1>4, <3>1 DEF Makes
    <3>3. f[i - 1] \in U /\ f[i] \in U
      BY <1>4, <3>1
    <3> HIDE DEF U
    <3>4. F[i - 1][f[i - 1]] = f[i - 1] \o ss[i]
      BY <3>1, <3>3
    <3> QED BY <3>1, <3>2, <3>3, <3>4
  <2> QED BY <2>1, <2>2
<1> HIDE DEF F
\* f[i] is the first i of them.
<1> DEFINE T == {i \in Nat : i <= n =>
                   /\ f[i] \in U
                   /\ Len(f[i]) = SumTo(L, i)
                   /\ \A b \in 1..i : \A j \in 1..L[b] :
                        /\ SumTo(L, b - 1) + j \in 1..SumTo(L, i)
                        /\ f[i][SumTo(L, b - 1) + j] = ss[b][j]}
<1>6. 0 \in T
  <2>1. Len(f[0]) = 0 /\ SumTo(L, 0) = 0
    BY <1>1, <1>5, Sums
  <2>2. f[0] \in U
    BY <1>2, <1>5
  <2>3. \A b \in 1..0 : FALSE
    OBVIOUS
  <2> HIDE DEF U
  <2> QED BY <2>1, <2>2, <2>3
<1>7. ASSUME NEW i \in Nat, i \in T PROVE i + 1 \in T
  <2> SUFFICES ASSUME i + 1 <= n
               PROVE  /\ f[i + 1] \in U
                      /\ Len(f[i + 1]) = SumTo(L, i + 1)
                      /\ \A b \in 1..(i + 1) : \A j \in 1..L[b] :
                           /\ SumTo(L, b - 1) + j \in 1..SumTo(L, i + 1)
                           /\ f[i + 1][SumTo(L, b - 1) + j] = ss[b][j]
    <3> HIDE DEF U
    <3> QED OBVIOUS
  <2>1. i + 1 \in 1..n /\ (i + 1) - 1 = i /\ i \in 0..n /\ i <= n
    BY <1>1
  <2>2. SumTo(L, i + 1) = SumTo(L, i) + L[i + 1] /\ SumTo(L, i) \in Nat
    BY <1>1, <2>1, Sums
  <2>3. f[i] \in U /\ f[i + 1] = f[i] \o ss[i + 1] /\ ss[i + 1] \in U /\ Len(ss[i + 1]) = L[i + 1] /\ L[i + 1] \in Nat
    BY <1>1, <1>5, <2>1
  <2>4. /\ Len(f[i]) = SumTo(L, i)
        /\ \A b \in 1..i : \A j \in 1..L[b] :
             /\ SumTo(L, b - 1) + j \in 1..SumTo(L, i)
             /\ f[i][SumTo(L, b - 1) + j] = ss[b][j]
    BY <1>7, <2>1
  <2>5. /\ f[i + 1] \in U /\ Len(f[i + 1]) = Len(f[i]) + Len(ss[i + 1])
        /\ \A l \in 1..(Len(f[i]) + Len(ss[i + 1])) :
             f[i + 1][l] = IF l <= Len(f[i]) THEN f[i][l] ELSE ss[i + 1][l - Len(f[i])]
    <3>1. /\ f[i] \o ss[i + 1] \in Seq(X) /\ Len(f[i] \o ss[i + 1]) = Len(f[i]) + Len(ss[i + 1])
          /\ \A l \in 1..(Len(f[i]) + Len(ss[i + 1])) :
               (f[i] \o ss[i + 1])[l] = IF l <= Len(f[i]) THEN f[i][l] ELSE ss[i + 1][l - Len(f[i])]
      BY <2>3, ConcatProperties
    <3> QED BY <2>3, <3>1
  <2>6. ASSUME NEW b \in 1..(i + 1), NEW j \in 1..L[b]
        PROVE  /\ SumTo(L, b - 1) + j \in 1..SumTo(L, i + 1)
               /\ f[i + 1][SumTo(L, b - 1) + j] = ss[b][j]
    <3>1. CASE b = i + 1
      <4>1. SumTo(L, b - 1) = SumTo(L, i) /\ j \in 1..L[i + 1]
        BY <2>1, <3>1
      <4>2. /\ SumTo(L, i) + j \in 1..(SumTo(L, i) + L[i + 1]) /\ ~(SumTo(L, i) + j <= SumTo(L, i))
            /\ (SumTo(L, i) + j) - SumTo(L, i) = j
        <5>1. SumTo(L, i) \in Nat /\ L[i + 1] \in Nat
          BY <2>2, <2>3
        <5>2. \A x, y \in Nat : \A l \in 1..y : x + l \in 1..(x + y) /\ ~(x + l <= x) /\ (x + l) - x = l
          OBVIOUS
        <5> QED BY <4>1, <5>1, <5>2
      <4>3. f[i + 1][SumTo(L, i) + j] = ss[i + 1][j]
        <5>1. SumTo(L, i) + j \in 1..(Len(f[i]) + Len(ss[i + 1]))
          BY <2>3, <2>4, <4>2
        <5>2. f[i + 1][SumTo(L, i) + j] =
                IF SumTo(L, i) + j <= Len(f[i]) THEN f[i][SumTo(L, i) + j]
                                                ELSE ss[i + 1][(SumTo(L, i) + j) - Len(f[i])]
          BY <2>5, <5>1
        <5> QED BY <2>4, <4>2, <5>2
      <4>4. SumTo(L, i) + j \in 1..SumTo(L, i + 1)
        BY <2>2, <4>2
      <4> QED BY <3>1, <4>1, <4>3, <4>4
    <3>2. CASE b \in 1..i
      <4> DEFINE x == SumTo(L, b - 1) + j
      <4>1. x \in 1..SumTo(L, i) /\ f[i][x] = ss[b][j]
        BY <2>4, <3>2
      <4> HIDE DEF x
      <4>2. x \in 1..(SumTo(L, i) + L[i + 1]) /\ x <= SumTo(L, i)
        <5>1. SumTo(L, i) \in Nat /\ L[i + 1] \in Nat
          BY <2>2, <2>3
        <5>2. \A p, y \in Nat : \A l \in 1..p : l \in 1..(p + y) /\ l <= p
          OBVIOUS
        <5> QED BY <4>1, <5>1, <5>2
      <4>3. x \in 1..SumTo(L, i + 1) /\ f[i + 1][x] = ss[b][j]
        BY <2>2, <2>3, <2>4, <2>5, <4>1, <4>2
      <4> QED BY <4>3 DEF x
    <3> QED BY <2>1, <3>1, <3>2
  <2> QED BY <2>2, <2>3, <2>4, <2>5, <2>6
<1>8. n \in T
  <2>1. \A i \in Nat : i \in T
    <3> HIDE DEF T
    <3> QED BY <1>6, <1>7, Induct
  <2> QED BY <1>1, <2>1
<1>9. FlattenSeq(ss) = f[n]
  <2>1. CASE n = 0
    <3>1. FlattenSeq(ss) = ss /\ ss = <<>>
      BY <2>1, EmptySeq DEF FlattenSeq, n
    <3> QED BY <1>5, <2>1, <3>1
  <2>2. CASE n # 0
    <3> DEFINE Is(g) == g = [i \in 1..n |-> IF i = 1 THEN ss[i] ELSE g[i - 1] \o ss[i]]
    <3>1. FlattenSeq(ss) = (CHOOSE g : Is(g))[n]
      BY <2>2 DEF FlattenSeq, n
    <3>2. f[1] = ss[1]
      <4>1. 1 \in 1..n /\ 1 - 1 = 0
        BY <1>1, <2>2
      <4>2. f[1] = <<>> \o ss[1] /\ ss[1] \in Seq(X)
        BY <1>1, <1>5, <4>1
      <4> QED BY <4>2, ConcatEmptySeq
    <3>3. \E g : Is(g)
      <4> DEFINE h == [i \in 1..n |-> f[i]]
      <4>1. ASSUME NEW i \in 1..n PROVE h[i] = IF i = 1 THEN ss[i] ELSE h[i - 1] \o ss[i]
        <5>1. CASE i = 1
          BY <3>2, <5>1
        <5>2. CASE i # 1
          <6>1. i - 1 \in 1..n
            BY <1>1, <5>2
          <6> QED BY <1>5, <5>2, <6>1
        <5> QED BY <5>1, <5>2
      <4>2. h = [i \in 1..n |-> h[i]]
        OBVIOUS
      <4> HIDE DEF h
      <4>3. Is(h)
        BY <4>1, <4>2
      <4> QED BY <4>3
    <3>4. PICK g : Is(g) /\ FlattenSeq(ss) = g[n]
      <4> HIDE DEF Is
      <4> QED BY <3>1, <3>3
    <3>5. \A i \in 1..n : g[i] = IF i = 1 THEN ss[i] ELSE g[i - 1] \o ss[i]
      BY <3>4
    <3> DEFINE V == {i \in Nat : i + 1 <= n => g[i + 1] = f[i + 1]}
    <3>6. 0 \in V
      BY <1>1, <2>2, <3>2, <3>5
    <3>7. ASSUME NEW i \in Nat, i \in V PROVE i + 1 \in V
      <4> SUFFICES ASSUME (i + 1) + 1 <= n PROVE g[(i + 1) + 1] = f[(i + 1) + 1]
        OBVIOUS
      <4>1. (i + 1) + 1 \in 1..n /\ (i + 1) + 1 # 1 /\ ((i + 1) + 1) - 1 = i + 1 /\ i + 1 <= n
        BY <1>1
      <4>2. g[i + 1] = f[i + 1]
        BY <3>7, <4>1
      <4> DEFINE l == (i + 1) + 1
      <4>3. l \in 1..n /\ l # 1 /\ l - 1 = i + 1
        BY <4>1
      <4> HIDE DEF l
      <4>4. g[l] = g[l - 1] \o ss[l] /\ f[l] = f[l - 1] \o ss[l]
        BY <1>5, <3>5, <4>3
      <4>5. g[l] = f[l]
        BY <4>2, <4>3, <4>4
      <4> QED BY <4>5 DEF l
    <3>8. \A i \in Nat : i \in V
      <4> HIDE DEF V
      <4> QED BY <3>6, <3>7, Induct
    <3>9. n - 1 \in Nat /\ (n - 1) + 1 = n /\ n <= n
      BY <1>1, <2>2
    <3>10. n - 1 \in V
      BY <3>8, <3>9
    <3> QED BY <3>4, <3>9, <3>10
  <2> QED BY <2>1, <2>2
<1>10. /\ f[n] \in Seq(X)
       /\ Len(f[n]) = SumTo(L, n)
       /\ \A b \in 1..n : \A j \in 1..L[b] :
            /\ SumTo(L, b - 1) + j \in 1..SumTo(L, n)
            /\ f[n][SumTo(L, b - 1) + j] = ss[b][j]
  BY <1>1, <1>8
<1>11. Flat(ss, f[n])
  BY <1>1, <1>10 DEF Flat, L, n
<1> QED BY <1>9, <1>10, <1>11

-----------------------------------------------------------------------------
(* Children in order *)

\* Any finite set has an order by a key, if its members' keys differ.
LEMMA OrderExists ==
  ASSUME NEW S, IsFiniteSet(S), NEW key \in [S -> Nat],
         \A a, b \in S : key[a] = key[b] => a = b
  PROVE  \E s \in [1..Cardinality(S) -> S] :
           \A i, j \in 1..Cardinality(S) : i < j => key[s[i]] < key[s[j]]
<1> DEFINE By(s, n) == \A i, j \in 1..n : i < j => key[s[i]] < key[s[j]]
           T == {n \in Nat : \A K \in SUBSET S : Cardinality(K) = n =>
                               \E s \in [1..n -> K] : By(s, n)}
<1>1. 0 \in T
  <2>1. [i \in 1..0 |-> 0] \in [1..0 -> {}] /\ By([i \in 1..0 |-> 0], 0)
    OBVIOUS
  <2>2. \A K \in SUBSET S : Cardinality(K) = 0 => K = {}
    BY FS_Subset, FS_EmptySet
  <2> HIDE DEF By
  <2> QED BY <2>1, <2>2
<1>2. ASSUME NEW n \in Nat, n \in T PROVE n + 1 \in T
  <2> SUFFICES ASSUME NEW K \in SUBSET S, Cardinality(K) = n + 1
               PROVE  \E s \in [1..(n + 1) -> K] : By(s, n + 1)
    OBVIOUS
  <2> DEFINE keys == {key[a] : a \in K}
  <2>1. IsFiniteSet(K) /\ K # {}
    <3>1. IsFiniteSet(K)
      BY FS_Subset
    <3>2. n + 1 # 0
      OBVIOUS
    <3> QED BY <3>1, <3>2, FS_EmptySet
  <2>2. PICK x \in K : \A a \in K : ~(key[a] < key[x])
    <3>1. keys \in SUBSET Nat /\ keys # {}
      BY <2>1
    <3>2. PICK v \in keys : \A w \in keys : ~(w < v)
      <4> HIDE DEF keys
      <4> QED BY <3>1, Least
    <3> QED BY <3>2
  <2> DEFINE R == K \ {x}
  <2>3. R \in SUBSET S /\ Cardinality(R) = n
    <3>1. Cardinality(R) = (n + 1) - 1
      BY <2>1, FS_RemoveElement
    <3> QED BY <3>1
  <2>4. PICK r \in [1..n -> R] : By(r, n)
    BY <1>2, <2>3
  <2>5. \A a \in R : key[x] < key[a]
    <3> SUFFICES ASSUME NEW a \in R PROVE key[x] < key[a]
      OBVIOUS
    <3>1. key[x] \in Nat /\ key[a] \in Nat /\ key[a] # key[x] /\ ~(key[a] < key[x])
      BY <2>2
    <3> QED BY <3>1
  <2> DEFINE s == [i \in 1..(n + 1) |-> IF i = 1 THEN x ELSE r[i - 1]]
  <2>6. \A i \in 1..(n + 1) : i # 1 => i - 1 \in 1..n
    OBVIOUS
  <2>7. s \in [1..(n + 1) -> K]
    BY <2>4, <2>6
  <2>8. By(s, n + 1)
    <3> SUFFICES ASSUME NEW i \in 1..(n + 1), NEW j \in 1..(n + 1), i < j
                 PROVE  key[s[i]] < key[s[j]]
      OBVIOUS
    <3>1. j # 1 /\ j - 1 \in 1..n /\ s[j] = r[j - 1] /\ s[j] \in R
      BY <2>4
    <3>2. CASE i = 1
      BY <2>5, <3>1, <3>2
    <3>3. CASE i # 1
      <4>1. i - 1 \in 1..n /\ i - 1 < j - 1 /\ s[i] = r[i - 1]
        BY <3>3
      <4> QED BY <2>4, <3>1, <4>1
    <3> QED BY <3>2, <3>3
  <2> QED BY <2>7, <2>8
<1>3. \A n \in Nat : n \in T
  <2> HIDE DEF T
  <2> QED BY <1>1, <1>2, Induct
<1>4. Cardinality(S) \in Nat
  BY FS_CardinalityType
<1> QED BY <1>3, <1>4

\* The first member of a group.
LEMMA FirstIs ==
  ASSUME NEW G \in SUBSET Nat, G # {}
  PROVE  First(G) \in G /\ \A m \in G : First(G) <= m
<1>1. PICK x \in G : \A y \in G : ~(y < x)
  BY Least
<1>2. \E m \in G : \A n \in G : m <= n
  BY <1>1
<1> QED BY <1>2 DEF First

\* Children whose groups are apart have an order, which has each of them once.
LEMMA InOrderIs ==
  ASSUME NEW kids, IsFiniteSet(kids),
         \A c \in kids : c.group \in SUBSET Nat /\ c.group # {},
         \A b, c \in kids : b.group \intersect c.group # {} => b = c
  PROVE  /\ InOrder(kids) \in Seq(kids)
         /\ \A c \in kids : \E i \in DOMAIN InOrder(kids) : InOrder(kids)[i] = c
         /\ \A i, j \in DOMAIN InOrder(kids) : InOrder(kids)[i] = InOrder(kids)[j] => i = j
<1> DEFINE n == Cardinality(kids)
           key == [c \in kids |-> First(c.group)]
           s == InOrder(kids)
           By(q) == \A i, j \in DOMAIN q : i < j => First(q[i].group) < First(q[j].group)
<1>1. \A c \in kids : First(c.group) \in c.group /\ First(c.group) \in Nat
  BY FirstIs
<1>2. key \in [kids -> Nat]
  BY <1>1
<1>3. \A a, b \in kids : key[a] = key[b] => a = b
  BY <1>1
<1>4. n \in Nat
  BY FS_CardinalityType
<1>5. \E q \in [1..n -> kids] : \A i, j \in 1..n : i < j => key[q[i]] < key[q[j]]
  <2> HIDE DEF key
  <2> QED BY <1>2, <1>3, OrderExists
<1>6. \E q \in [1..n -> kids] : By(q)
  BY <1>5
<1>7. s \in [1..n -> kids] /\ By(s)
  <2>1. s = CHOOSE q \in [1..n -> kids] : By(q)
    BY DEF InOrder
  <2> HIDE DEF By, s
  <2> QED BY <1>6, <2>1
<1> HIDE DEF n, s
<1>8. DOMAIN s = 1..n
  BY <1>7
<1>9. \A i, j \in 1..n : s[i] = s[j] => i = j
  <2> SUFFICES ASSUME NEW i \in 1..n, NEW j \in 1..n, s[i] = s[j], i < j PROVE FALSE
    BY <1>4
  <2>1. First(s[i].group) < First(s[j].group) /\ First(s[i].group) \in Nat
    BY <1>1, <1>7
  <2> QED BY <2>1
<1>10. s \in Injection(1..n, kids)
  BY <1>7, <1>9 DEF Injection, IsInjective
<1>11. Cardinality(1..n) = n
  BY <1>4, FS_Interval
<1>12. s \in Surjection(1..n, kids)
  BY <1>10, <1>11, FS_Injection DEF n
<1>13. \A c \in kids : \E i \in 1..n : s[i] = c
  BY <1>12 DEF Surjection
<1>14. s \in Seq(kids)
  BY <1>4, <1>7
<1> QED BY <1>8, <1>9, <1>13, <1>14 DEF s

-----------------------------------------------------------------------------
(* Children and runs *)

QuestionTails(tails) == tails \in Seq(Seq(Int)) /\ \A q \in DOMAIN tails : tails[q] # <<>>

ChildSet(tails) == [group : SUBSET DOMAIN tails, leaf : BOOLEAN, d : Nat, parent : Nat]

\* A child to add: of a question of which the last token is left, or of some
\* that go on with the same token.
Kid(tails, c) ==
  /\ c.group # {}
  /\ c.leaf => \E q \in DOMAIN tails : c.group = {q} /\ Len(tails[q]) <= c.d + 1
  /\ ~c.leaf => /\ \A m \in c.group : Len(tails[m]) > c.d + 1
                /\ \A m, n \in c.group : tails[m][c.d + 1] = tails[n][c.d + 1]

\* The questions of a tree are finitely many, each of at least one token.
LEMMA QuestionsFinite ==
  ASSUME NEW tails, QuestionTails(tails)
  PROVE  /\ IsFiniteSet(DOMAIN tails) /\ DOMAIN tails = 1..Len(tails) /\ Len(tails) \in Nat
         /\ DOMAIN tails \subseteq Nat
         /\ \A q \in DOMAIN tails : tails[q] \in Seq(Int) /\ Len(tails[q]) \in Nat /\ Len(tails[q]) >= 1
<1>1. DOMAIN tails = 1..Len(tails) /\ Len(tails) \in Nat
  BY DEF QuestionTails
<1>2. IsFiniteSet(1..Len(tails))
  BY <1>1, FS_Interval
<1>3. ASSUME NEW q \in DOMAIN tails
      PROVE  tails[q] \in Seq(Int) /\ Len(tails[q]) \in Nat /\ Len(tails[q]) >= 1
  <2>1. tails[q] \in Seq(Int) /\ tails[q] # <<>>
    BY DEF QuestionTails
  <2> QED BY <2>1, EmptySeq, LenProperties
<1> QED BY <1>1, <1>2, <1>3

\* The list s splits some questions that share d tokens.
Splits(tails, members, d, parent, s) ==
  /\ s \in Seq(ChildSet(tails))
  /\ \A i \in DOMAIN s : /\ s[i].d = d /\ s[i].parent = parent
                         /\ s[i].group \subseteq members
                         /\ Kid(tails, s[i])
  /\ \A m \in members : \E i \in DOMAIN s : m \in s[i].group
  /\ \A i, j \in DOMAIN s : i # j =>
       \A m \in s[i].group, n \in s[j].group :
         /\ m # n
         /\ Len(tails[m]) > d + 1 /\ Len(tails[n]) > d + 1 =>
              tails[m][d + 1] # tails[n][d + 1]

\* The children of some questions: each question is in one of them, and those
\* in different ones go on with different tokens, or one of them ends.
LEMMA ChildrenIs ==
  ASSUME NEW tails, QuestionTails(tails), NEW members \in SUBSET DOMAIN tails,
         NEW d \in Nat, NEW parent \in Nat, NEW s, s = Children(tails, members, d, parent)
  PROVE  Splits(tails, members, d, parent, s)
<1> DEFINE ended == {m \in members : AtLeaf(tails, m, d)}
           Alike(m) == {n \in members \ ended : tails[n][d + 1] = tails[m][d + 1]}
           kid == [m \in members |-> IF m \in ended THEN Child({m}, TRUE, d, parent)
                                     ELSE Child(Alike(m), FALSE, d, parent)]
           kids == {Child({m}, TRUE, d, parent) : m \in ended}
                   \union {Child(Alike(m), FALSE, d, parent) : m \in members \ ended}
<1>1. s = InOrder(kids)
  BY DEF Children
<1>2. \A m \in members : m \in ended <=> ~(Len(tails[m]) > d + 1)
  BY QuestionsFinite DEF AtLeaf
<1>3. ASSUME NEW m \in ended
      PROVE  LET c == Child({m}, TRUE, d, parent) IN
             /\ c \in ChildSet(tails) /\ c.d = d /\ c.parent = parent /\ c.group = {m}
             /\ c.leaf /\ Kid(tails, c)
  <2>1. Len(tails[m]) <= d + 1
    BY <1>2, QuestionsFinite
  <2> HIDE DEF ended
  <2>2. m \in DOMAIN tails
    BY <1>3 DEF ended
  <2> QED BY <2>1, <2>2 DEF Child, ChildSet, Kid
<1>4. ASSUME NEW m \in members \ ended
      PROVE  LET c == Child(Alike(m), FALSE, d, parent) IN
             /\ c \in ChildSet(tails) /\ c.d = d /\ c.parent = parent /\ c.group = Alike(m)
             /\ ~c.leaf /\ Kid(tails, c) /\ m \in Alike(m)
  <2>1. m \in Alike(m) /\ Alike(m) \subseteq DOMAIN tails
    OBVIOUS
  <2>2. \A n \in Alike(m) : Len(tails[n]) > d + 1 /\ tails[n][d + 1] = tails[m][d + 1]
    BY <1>2
  <2> HIDE DEF Alike
  <2> QED BY <2>1, <2>2 DEF Child, ChildSet, Kid
<1>0. /\ \A c \in kids : \/ \E m \in ended : c = Child({m}, TRUE, d, parent)
                       \/ \E m \in members \ ended : c = Child(Alike(m), FALSE, d, parent)
      /\ \A m \in ended : Child({m}, TRUE, d, parent) \in kids
      /\ \A m \in members \ ended : Child(Alike(m), FALSE, d, parent) \in kids
      /\ \A m, n : n \in Alike(m) <=> n \in members \ ended /\ tails[n][d + 1] = tails[m][d + 1]
      /\ \A k, l : tails[k][d + 1] = tails[l][d + 1] => Alike(k) = Alike(l)
      /\ ended \subseteq members /\ kids = {kid[m] : m \in members}
  OBVIOUS
<1> HIDE DEF Alike, kids, ended, kid
<1>5. \A c \in kids : /\ c \in ChildSet(tails) /\ c.d = d /\ c.parent = parent /\ Kid(tails, c)
                      /\ \/ \E m \in ended : c.group = {m}
                         \/ \E m \in members \ ended : c.group = Alike(m) /\ m \in Alike(m)
  <2> SUFFICES ASSUME NEW c \in kids
               PROVE  /\ c \in ChildSet(tails) /\ c.d = d /\ c.parent = parent /\ Kid(tails, c)
                      /\ \/ \E m \in ended : c.group = {m}
                         \/ \E m \in members \ ended : c.group = Alike(m) /\ m \in Alike(m)
    OBVIOUS
  <2>1. CASE \E m \in ended : c = Child({m}, TRUE, d, parent)
    <3>1. PICK m \in ended : c = Child({m}, TRUE, d, parent)
      BY <2>1
    <3> QED BY <1>3, <3>1
  <2>2. CASE \E m \in members \ ended : c = Child(Alike(m), FALSE, d, parent)
    <3>1. PICK m \in members \ ended : c = Child(Alike(m), FALSE, d, parent)
      BY <2>2
    <3> QED BY <1>4, <3>1
  <2> QED BY <1>0, <2>1, <2>2
<1>6. \A b, c \in kids : \A m \in b.group, n \in c.group :
        (m = n \/ (m \notin ended /\ n \notin ended /\ tails[m][d + 1] = tails[n][d + 1])) => b = c
  <2> SUFFICES ASSUME NEW b \in kids, NEW c \in kids, NEW m \in b.group, NEW n \in c.group,
                      m = n \/ (m \notin ended /\ n \notin ended /\ tails[m][d + 1] = tails[n][d + 1])
               PROVE  b = c
    OBVIOUS
  <2>1. CASE m \in ended
    <3>1. n = m
      BY <2>1
    <3>2. ASSUME NEW a \in kids, m \in a.group PROVE a = Child({m}, TRUE, d, parent)
      <4>1. \A l \in members \ ended : a # Child(Alike(l), FALSE, d, parent)
        <5> SUFFICES ASSUME NEW l \in members \ ended, a = Child(Alike(l), FALSE, d, parent)
                     PROVE  FALSE
          OBVIOUS
        <5>1. a.group = Alike(l)
          BY <1>4
        <5>2. \A x : x \in Alike(l) => x \notin ended
          BY <1>0
        <5> QED BY <2>1, <3>2, <5>1, <5>2
      <4>2. PICK l \in ended : a = Child({l}, TRUE, d, parent)
        BY <1>0, <4>1
      <4>3. l = m
        BY <1>3, <3>2, <4>2
      <4> QED BY <4>2, <4>3
    <3> QED BY <3>1, <3>2
  <2>2. CASE m \notin ended
    <3>1. n \notin ended /\ tails[m][d + 1] = tails[n][d + 1]
      BY <2>2
    <3>2. ASSUME NEW a \in kids, NEW l, l \in a.group, l \notin ended
          PROVE  \E k \in members \ ended : a = Child(Alike(k), FALSE, d, parent) /\ l \in Alike(k)
      <4>1. ~(\E k \in ended : a = Child({k}, TRUE, d, parent))
        BY <1>3, <3>2
      <4>2. PICK k \in members \ ended : a = Child(Alike(k), FALSE, d, parent)
        BY <1>0, <4>1
      <4>3. a.group = Alike(k)
        BY <1>4, <4>2
      <4> QED BY <3>2, <4>2, <4>3
    <3>3. PICK k \in members \ ended : b = Child(Alike(k), FALSE, d, parent) /\ m \in Alike(k)
      BY <2>2, <3>2
    <3>4. PICK l \in members \ ended : c = Child(Alike(l), FALSE, d, parent) /\ n \in Alike(l)
      BY <3>1, <3>2
    <3>5. tails[k][d + 1] = tails[l][d + 1]
      BY <1>0, <3>1, <3>3, <3>4
    <3>6. Alike(k) = Alike(l)
      BY <1>0, <3>5
    <3> QED BY <3>3, <3>4, <3>6
  <2> QED BY <2>1, <2>2
<1>7. IsFiniteSet(kids)
  <2>1. kids = {kid[m] : m \in members}
    BY <1>0
  <2>2. IsFiniteSet(members)
    BY QuestionsFinite, FS_Subset
  <2>3. DOMAIN kid = members
    BY DEF kid
  <2>4. kid \in Surjection(members, kids)
    <3>1. kid = [m \in members |-> kid[m]]
      BY DEF kid
    <3> QED BY <2>1, <3>1 DEF Surjection
  <2> QED BY <2>2, <2>4, FS_Surjection
<1>8. \A m \in members : \E c \in kids : m \in c.group
  <2> SUFFICES ASSUME NEW m \in members PROVE \E c \in kids : m \in c.group
    OBVIOUS
  <2>1. CASE m \in ended
    <3>1. Child({m}, TRUE, d, parent) \in kids /\ m \in Child({m}, TRUE, d, parent).group
      BY <1>0, <1>3, <2>1
    <3> QED BY <3>1
  <2>2. CASE m \notin ended
    <3>1. Child(Alike(m), FALSE, d, parent) \in kids
      BY <1>0, <2>2
    <3>2. m \in Child(Alike(m), FALSE, d, parent).group
      BY <1>4, <2>2
    <3> QED BY <3>1, <3>2
  <2> QED BY <2>1, <2>2
<1>9. \A c \in kids : c.group \subseteq members
  BY <1>0, <1>5
<1>10. /\ s \in Seq(kids)
       /\ \A c \in kids : \E i \in DOMAIN s : s[i] = c
       /\ \A i, j \in DOMAIN s : s[i] = s[j] => i = j
  <2>1. \A c \in kids : c.group \in SUBSET Nat /\ c.group # {}
    BY <1>5, QuestionsFinite DEF Kid, ChildSet
  <2>2. \A b, c \in kids : b.group \intersect c.group # {} => b = c
    BY <1>6
  <2> QED BY <1>1, <1>7, <2>1, <2>2, InOrderIs
<1>11. s \in Seq(ChildSet(tails)) /\ \A i \in DOMAIN s : s[i] \in kids
  <2>1. kids \subseteq ChildSet(tails)
    BY <1>5
  <2> QED BY <1>10, <2>1
<1>12. \A m \in members : \E i \in DOMAIN s : m \in s[i].group
  BY <1>8, <1>10
<1>13. ASSUME NEW i \in DOMAIN s, NEW j \in DOMAIN s, i # j,
              NEW m \in s[i].group, NEW n \in s[j].group
       PROVE  /\ m # n
              /\ Len(tails[m]) > d + 1 /\ Len(tails[n]) > d + 1 =>
                   tails[m][d + 1] # tails[n][d + 1]
  <2>1. s[i] \in kids /\ s[j] \in kids /\ s[i] # s[j]
    BY <1>10, <1>11, <1>13
  <2>2. m \in members /\ n \in members
    BY <1>9, <2>1
  <2> QED BY <1>2, <1>6, <2>1, <2>2
<1>14. \A i \in DOMAIN s : /\ s[i].d = d /\ s[i].parent = parent
                           /\ s[i].group \subseteq members /\ Kid(tails, s[i])
  BY <1>5, <1>9, <1>11
<1> QED BY <1>11, <1>12, <1>13, <1>14 DEF Splits

\* Tokens d + 1 to e are the same in all of a group, and last tokens of none.
SharedRun(tails, G, d, e) ==
  /\ First(G) \in G /\ e \in Nat /\ e > d
  /\ \A m \in G : e < Len(tails[m])
  /\ \A m, n \in G : \A i \in (d + 1)..e : tails[m][i] = tails[n][i]

\* The run of a group that goes on: it ends where one of them ends or turns off.
LEMMA RunEndIs ==
  ASSUME NEW tails, QuestionTails(tails), NEW G \in SUBSET DOMAIN tails, G # {}, NEW d \in Nat,
         \A m \in G : Len(tails[m]) > d + 1,
         \A m, n \in G : tails[m][d + 1] = tails[n][d + 1],
         NEW e, e = RunEnd(tails, G, d)
  PROVE  SharedRun(tails, G, d, e)
<1> DEFINE f == First(G)
           Stops(x) == \E m \in G : Len(tails[m]) - 1 = x \/ tails[m][x + 1] # tails[f][x + 1]
           P(x) == /\ \A m \in G : Len(tails[m]) - 1 >= x
                   /\ \A m \in G : \A i \in (d + 1)..x : tails[m][i] = tails[f][i]
                   /\ Stops(x)
           T == {x \in Nat : x > d /\ Stops(x)}
<1>1. f \in G
  BY FirstIs, QuestionsFinite
<1> HIDE DEF f
<1>2. \A m \in G : Len(tails[m]) \in Nat
  BY QuestionsFinite
<1>3. Len(tails[f]) - 1 \in T
  BY <1>1, <1>2
<1>4. PICK x \in T : \A y \in T : ~(y < x)
  <2>1. T \in SUBSET Nat /\ T # {}
    BY <1>3
  <2> HIDE DEF T
  <2> QED BY <2>1, Least
<1>5. x \in Nat /\ x > d /\ Stops(x)
  BY <1>4
<1>6. ASSUME NEW y \in Nat, y > d, y < x
      PROVE  \A m \in G : Len(tails[m]) - 1 # y /\ tails[m][y + 1] = tails[f][y + 1]
  BY <1>4, <1>6
<1>7. ASSUME NEW m \in G PROVE Len(tails[m]) - 1 >= x
  <2> SUFFICES ASSUME Len(tails[m]) - 1 < x PROVE FALSE
    BY <1>2, <1>5
  <2>1. Len(tails[m]) - 1 \in Nat /\ Len(tails[m]) - 1 > d
    BY <1>2
  <2> QED BY <1>6, <2>1
<1>8. ASSUME NEW m \in G, NEW i \in (d + 1)..x PROVE tails[m][i] = tails[f][i]
  <2>1. CASE i = d + 1
    BY <1>1, <2>1
  <2>2. CASE i # d + 1
    <3>1. i - 1 \in Nat /\ i - 1 > d /\ i - 1 < x /\ (i - 1) + 1 = i
      BY <2>2, <1>5
    <3> QED BY <1>6, <3>1
  <2> QED BY <2>1, <2>2
<1>9. x \in (d + 1)..(Len(tails[f]) - 1)
  BY <1>1, <1>2, <1>5, <1>7
<1> HIDE DEF Stops
<1>10. P(x)
  BY <1>5, <1>7, <1>8
<1>11. e = CHOOSE y \in (d + 1)..(Len(tails[f]) - 1) : P(y)
  BY DEF RunEnd, f, Stops
<1>12. e \in (d + 1)..(Len(tails[f]) - 1) /\ P(e)
  <2> HIDE DEF P
  <2> QED BY <1>9, <1>10, <1>11
<1>13. e \in Nat /\ e > d
  BY <1>1, <1>2, <1>12
<1>14. \A m \in G : e < Len(tails[m])
  BY <1>2, <1>12, <1>13
<1> QED BY <1>1, <1>12, <1>13, <1>14 DEF f, SharedRun

-----------------------------------------------------------------------------
(* What holds of a tree being grown *)

NodeSet(tails) == [parent : Nat, prompt : DOMAIN tails, from : Nat, to : Nat]
TreeSet(tails) == [nodes : Seq(NodeSet(tails)), leaf : [DOMAIN tails -> Nat], tokens : Nat,
                   todo : Seq(ChildSet(tails))]

\* Node p and those above it read the first d tokens of question q, which has more.
Reaches(tails, nodes, p, q, d) ==
  /\ d < Len(tails[q])
  /\ IF p = NO_PARENT THEN d = 0
     ELSE nodes[p].to = d /\ \A i \in 1..d : tails[nodes[p].prompt][i] = tails[q][i]

NodesInv(tails, nodes) ==
  \A n \in DOMAIN nodes :
    /\ nodes[n].parent < n
    /\ nodes[n].from < nodes[n].to
    /\ nodes[n].to <= Len(tails[nodes[n].prompt])
    /\ Reaches(tails, nodes, nodes[n].parent, nodes[n].prompt, nodes[n].from)

\* The tokens of the nodes, added up in their order.
LaidOut(nodes, tokens) ==
  \E r \in [0..Len(nodes) -> Nat] :
    /\ r[0] = 0
    /\ r[Len(nodes)] = tokens
    /\ \A n \in 1..Len(nodes) : r[n] = r[n - 1] + (nodes[n].to - nodes[n].from)

TodoInv(tails, nodes, todo) ==
  \A i \in DOMAIN todo :
    /\ todo[i].parent <= Len(nodes)
    /\ Kid(tails, todo[i])
    /\ \A m \in todo[i].group : Reaches(tails, nodes, todo[i].parent, m, todo[i].d)

\* No start is still to be read for two of the children.
TodoApart(tails, todo) ==
  \A i, j \in DOMAIN todo : i # j =>
    \A m \in todo[i].group, n \in todo[j].group :
      /\ m # n
      /\ \A l \in Nat : SharesStart(tails[m], tails[n], l) => l <= todo[i].d /\ l <= todo[j].d

\* A question is to be read yet, or has its leaf.
LeafInv(tails, nodes, todo, leaf) ==
  \A q \in DOMAIN tails :
    /\ leaf[q] = 0 <=> \E i \in DOMAIN todo : q \in todo[i].group
    /\ leaf[q] # 0 => /\ leaf[q] \in DOMAIN nodes
                      /\ nodes[leaf[q]].prompt = q
                      /\ nodes[leaf[q]].to = Len(tails[q])
                      /\ nodes[leaf[q]].from = Len(tails[q]) - 1

AllStarts(tails) == UNION {Starts(tails[m]) : m \in DOMAIN tails}

\* The starts still to be read.
Unread(tails, todo) ==
  {s \in AllStarts(tails) :
     \E i \in DOMAIN todo : \E m \in todo[i].group : \E l \in Nat :
       l > todo[i].d /\ l < Len(tails[m]) /\ s = SubSeq(tails[m], 1, l)}
Undone(tails, leaf) == {q \in DOMAIN tails : leaf[q] = 0}

CountInv(tails, t) ==
  t.tokens + Cardinality(Unread(tails, t.todo)) + Cardinality(Undone(tails, t.leaf))
    = TreeTokens(tails, DOMAIN tails)

TreeInv(tails, t) == /\ t \in TreeSet(tails)
                     /\ NodesInv(tails, t.nodes)
                     /\ LaidOut(t.nodes, t.tokens)
                     /\ TodoInv(tails, t.nodes, t.todo)
                     /\ TodoApart(tails, t.todo)
                     /\ LeafInv(tails, t.nodes, t.todo, t.leaf)
                     /\ CountInv(tails, t)

\* A node more changes nothing for those that are there.
LEMMA AddNode ==
  ASSUME NEW tails, QuestionTails(tails), NEW nodes \in Seq(NodeSet(tails)), NodesInv(tails, nodes),
         NEW tokens \in Nat, LaidOut(nodes, tokens),
         NEW v \in NodeSet(tails), v.parent <= Len(nodes), v.from < v.to,
         v.to <= Len(tails[v.prompt]), Reaches(tails, nodes, v.parent, v.prompt, v.from)
  PROVE  LET more == Append(nodes, v) IN
         /\ more \in Seq(NodeSet(tails)) /\ Len(more) = Len(nodes) + 1
         /\ more[Len(nodes) + 1] = v /\ \A n \in 1..Len(nodes) : more[n] = nodes[n]
         /\ NodesInv(tails, more)
         /\ LaidOut(more, tokens + v.to - v.from)
         /\ \A p \in 0..Len(nodes) : \A q, d :
              Reaches(tails, nodes, p, q, d) => Reaches(tails, more, p, q, d)
<1> DEFINE more == Append(nodes, v)
           N == Len(nodes)
<1>1. /\ more \in Seq(NodeSet(tails)) /\ Len(more) = N + 1 /\ N \in Nat
      /\ more[N + 1] = v /\ \A n \in 1..N : more[n] = nodes[n]
  BY AppendProperties, LenProperties
<1>2. DOMAIN more = 1..(N + 1) /\ DOMAIN nodes = 1..N
  BY <1>1
<1> HIDE DEF more
<1>3. \A p \in 0..N : \A q, d : Reaches(tails, nodes, p, q, d) => Reaches(tails, more, p, q, d)
  <2> SUFFICES ASSUME NEW p \in 0..N, NEW q, NEW d, Reaches(tails, nodes, p, q, d)
               PROVE  Reaches(tails, more, p, q, d)
    OBVIOUS
  <2>1. p = 0 \/ more[p] = nodes[p]
    BY <1>1
  <2> QED BY <2>1 DEF Reaches, NO_PARENT
<1>4. NodesInv(tails, more)
  <2> SUFFICES ASSUME NEW n \in 1..(N + 1)
               PROVE  /\ more[n].parent < n
                      /\ more[n].from < more[n].to
                      /\ more[n].to <= Len(tails[more[n].prompt])
                      /\ Reaches(tails, more, more[n].parent, more[n].prompt, more[n].from)
    BY <1>2 DEF NodesInv
  <2>1. CASE n = N + 1
    <3>1. v.parent \in 0..N /\ v.parent < n
      BY <1>1, <2>1 DEF NodeSet
    <3> QED BY <1>1, <1>3, <2>1, <3>1
  <2>2. CASE n \in 1..N
    <3>1. /\ nodes[n].parent < n
          /\ nodes[n].from < nodes[n].to
          /\ nodes[n].to <= Len(tails[nodes[n].prompt])
          /\ Reaches(tails, nodes, nodes[n].parent, nodes[n].prompt, nodes[n].from)
      BY <1>2, <2>2 DEF NodesInv
    <3>2. nodes[n].parent \in 0..N
      <4>1. nodes[n] \in NodeSet(tails)
        BY <1>2, <2>2
      <4>2. nodes[n].parent \in Nat
        BY <4>1 DEF NodeSet
      <4> QED BY <1>1, <2>2, <3>1, <4>2
    <3>3. Reaches(tails, more, nodes[n].parent, nodes[n].prompt, nodes[n].from)
      BY <1>3, <3>1, <3>2
    <3>4. more[n] = nodes[n]
      BY <1>1, <2>2
    <3> QED BY <3>1, <3>3, <3>4
  <2> QED BY <1>1, <2>1, <2>2
<1>5. LaidOut(more, tokens + v.to - v.from)
  <2>1. PICK r \in [0..N -> Nat] : /\ r[0] = 0 /\ r[N] = tokens
                                   /\ \A n \in 1..N : r[n] = r[n - 1] + (nodes[n].to - nodes[n].from)
    BY DEF LaidOut
  <2> DEFINE w == tokens + v.to - v.from
             s == [n \in 0..(N + 1) |-> IF n = N + 1 THEN w ELSE r[n]]
  <2>2. v.to \in Nat /\ v.from \in Nat /\ w \in Nat /\ w = tokens + (v.to - v.from)
    BY DEF NodeSet
  <2> HIDE DEF w
  <2>3. s \in [0..(N + 1) -> Nat] /\ s[0] = 0 /\ s[N + 1] = w
    BY <1>1, <2>1, <2>2
  <2>4. ASSUME NEW n \in 1..(N + 1) PROVE s[n] = s[n - 1] + (more[n].to - more[n].from)
    <3>1. CASE n = N + 1
      <4>1. s[n] = w /\ s[n - 1] = tokens /\ more[n] = v
        BY <1>1, <2>1, <3>1
      <4> QED BY <2>2, <4>1
    <3>2. CASE n \in 1..N
      <4>1. s[n] = r[n] /\ s[n - 1] = r[n - 1] /\ more[n] = nodes[n]
        BY <1>1, <3>2
      <4> QED BY <2>1, <3>2, <4>1
    <3> QED BY <1>1, <3>1, <3>2
  <2> HIDE DEF s
  <2>5. LaidOut(more, w)
    BY <1>1, <2>3, <2>4 DEF LaidOut
  <2> QED BY <2>5 DEF w
<1> QED BY <1>1, <1>3, <1>4, <1>5 DEF more

-----------------------------------------------------------------------------
(* A leaf, a run *)

\* The starts of a question are as many as its tokens before the last.
LEMMA SameSub ==
  ASSUME NEW a \in Seq(Int), NEW b \in Seq(Int), NEW m \in 0..Len(a), NEW n \in 0..Len(b)
  PROVE  SubSeq(a, 1, m) = SubSeq(b, 1, n) <=> m = n /\ \A i \in 1..m : a[i] = b[i]
<1>1. /\ SubSeq(a, 1, m) \in Seq(Int) /\ Len(SubSeq(a, 1, m)) = m
      /\ \A i \in 1..m : SubSeq(a, 1, m)[i] = a[i]
  BY SubSeqIsStart
<1>2. /\ SubSeq(b, 1, n) \in Seq(Int) /\ Len(SubSeq(b, 1, n)) = n
      /\ \A i \in 1..n : SubSeq(b, 1, n)[i] = b[i]
  BY SubSeqIsStart
<1> DEFINE s == SubSeq(a, 1, m)
           t == SubSeq(b, 1, n)
<1> HIDE DEF s, t
<1>3. s = t => m = n /\ \A i \in 1..m : a[i] = b[i]
  BY <1>1, <1>2 DEF s, t
<1>4. ASSUME m = n, \A i \in 1..m : a[i] = b[i] PROVE s = t
  BY <1>1, <1>2, <1>4, SeqEqual DEF s, t
<1> QED BY <1>3, <1>4 DEF s, t

\* What the tree's measures count is finite.
LEMMA CountType ==
  ASSUME NEW tails, QuestionTails(tails), NEW todo, NEW leaf
  PROVE  /\ IsFiniteSet(AllStarts(tails)) /\ IsFiniteSet(Unread(tails, todo))
         /\ Cardinality(Unread(tails, todo)) \in Nat
         /\ IsFiniteSet(Undone(tails, leaf)) /\ Cardinality(Undone(tails, leaf)) \in Nat
         /\ TreeTokens(tails, DOMAIN tails) = Cardinality(AllStarts(tails)) + Cardinality(DOMAIN tails)
         /\ TreeTokens(tails, DOMAIN tails) \in Nat
<1> DEFINE Q == DOMAIN tails
           F == {Starts(tails[m]) : m \in Q}
           f == [m \in Q |-> Starts(tails[m])]
<1>1. IsFiniteSet(Q) /\ \A m \in Q : tails[m] \in Seq(Int)
  BY QuestionsFinite
<1>2. IsFiniteSet(F)
  <2>1. f \in Surjection(Q, F)
    BY DEF Surjection
  <2> HIDE DEF f, F
  <2> QED BY <2>1, <1>1, FS_Surjection
<1>3. \A T \in F : IsFiniteSet(T)
  BY <1>1, StartsAreFinite
<1>4. IsFiniteSet(AllStarts(tails))
  BY <1>2, <1>3, FS_UNION DEF AllStarts
<1>5. IsFiniteSet(Unread(tails, todo))
  BY <1>4, FS_Subset DEF Unread
<1>6. IsFiniteSet(Undone(tails, leaf))
  BY <1>1, FS_Subset DEF Undone
<1>7. TreeTokens(tails, Q) = Cardinality(AllStarts(tails)) + Cardinality(Q)
  BY DEF TreeTokens, AllStarts
<1> QED BY <1>1, <1>4, <1>5, <1>6, <1>7, FS_CardinalityType

\* The child a worker takes next, and the ones left after it.
LEMMA HeadOfTodo ==
  ASSUME NEW tails, NEW todo \in Seq(ChildSet(tails)), todo # <<>>
  PROVE  /\ Head(todo) = todo[1] /\ 1 \in DOMAIN todo /\ Head(todo) \in ChildSet(tails)
         /\ Tail(todo) \in Seq(ChildSet(tails)) /\ DOMAIN Tail(todo) = 1..(Len(todo) - 1)
         /\ Len(todo) \in Nat /\ DOMAIN todo = 1..Len(todo)
         /\ \A i \in 1..(Len(todo) - 1) : i + 1 \in DOMAIN todo /\ Tail(todo)[i] = todo[i + 1]
         /\ \A j \in DOMAIN todo : j # 1 => j - 1 \in 1..(Len(todo) - 1) /\ Tail(todo)[j - 1] = todo[j]
<1>1. /\ Len(todo) \in Nat /\ DOMAIN todo = 1..Len(todo) /\ Len(todo) >= 1
      /\ Head(todo) = todo[1] /\ Tail(todo) \in Seq(ChildSet(tails)) /\ Len(Tail(todo)) = Len(todo) - 1
      /\ \A i \in 1..(Len(todo) - 1) : Tail(todo)[i] = todo[i + 1]
  BY HeadTailProperties, EmptySeq, LenProperties
<1>2. Head(todo) \in ChildSet(tails) /\ 1 \in DOMAIN todo
  BY <1>1
<1>3. DOMAIN Tail(todo) = 1..(Len(todo) - 1)
  BY <1>1
<1>4. \A i \in 1..(Len(todo) - 1) : i + 1 \in DOMAIN todo
  BY <1>1
<1>5. ASSUME NEW j \in DOMAIN todo, j # 1
      PROVE  j - 1 \in 1..(Len(todo) - 1) /\ Tail(todo)[j - 1] = todo[j]
  <2>1. j - 1 \in 1..(Len(todo) - 1) /\ (j - 1) + 1 = j
    BY <1>1, <1>5
  <2> QED BY <1>1, <2>1
<1> QED BY <1>1, <1>2, <1>3, <1>4, <1>5

\* The walk past a leaf (a question's end) keeps the tree's invariant and reads a token
\* more.
LEMMA GrowLeafStep ==
  ASSUME NEW tails, QuestionTails(tails), NEW t, TreeInv(tails, t), t.todo # <<>>, Head(t.todo).leaf
  PROVE  TreeInv(tails, GrowLeaf(tails, t)) /\ GrowLeaf(tails, t).tokens >= t.tokens + 1
<1> DEFINE u == GrowLeaf(tails, t)
           c == Head(t.todo)
           N == Len(t.nodes)
           d == c.d
           rest == Tail(t.todo)
<1>1. /\ t \in TreeSet(tails) /\ t.nodes \in Seq(NodeSet(tails)) /\ t.leaf \in [DOMAIN tails -> Nat]
      /\ t.tokens \in Nat /\ t.todo \in Seq(ChildSet(tails)) /\ N \in Nat
  BY DEF TreeInv, TreeSet
<1>2. /\ c = t.todo[1] /\ 1 \in DOMAIN t.todo /\ c \in ChildSet(tails)
      /\ rest \in Seq(ChildSet(tails)) /\ DOMAIN rest = 1..(Len(t.todo) - 1)
      /\ Len(t.todo) \in Nat /\ DOMAIN t.todo = 1..Len(t.todo)
  BY <1>1, HeadOfTodo
<1>3. /\ \A i \in DOMAIN rest : i + 1 \in DOMAIN t.todo /\ i + 1 # 1 /\ rest[i] = t.todo[i + 1]
      /\ \A j \in DOMAIN t.todo : j # 1 => j - 1 \in DOMAIN rest /\ rest[j - 1] = t.todo[j]
  BY <1>1, <1>2, HeadOfTodo
<1>4. c.parent <= N /\ Kid(tails, c) /\ \A m \in c.group : Reaches(tails, t.nodes, c.parent, m, d)
  BY <1>2 DEF TreeInv, TodoInv
<1>5. PICK q \in DOMAIN tails : c.group = {q} /\ Len(tails[q]) <= d + 1
  BY <1>4 DEF Kid
<1>6. First(c.group) = q
  BY <1>5, QuestionsFinite DEF First
<1>7. Len(tails[q]) = d + 1 /\ d \in Nat /\ Len(tails[q]) - 1 = d
  <2>1. d < Len(tails[q]) /\ d \in Nat
    BY <1>2, <1>4, <1>5 DEF Reaches, ChildSet
  <2> QED BY <1>5, <2>1, QuestionsFinite
<1> DEFINE v == Node(c.parent, q, d, d + 1)
<1>8. /\ v \in NodeSet(tails) /\ v.parent = c.parent /\ v.prompt = q /\ v.from = d /\ v.to = d + 1
  <2>1. c.parent \in Nat
    BY <1>2 DEF ChildSet
  <2> QED BY <1>7, <2>1 DEF Node, NodeSet
<1>9. /\ u.nodes = Append(t.nodes, v) /\ u.leaf = [t.leaf EXCEPT ![q] = N + 1]
      /\ u.tokens = t.tokens + v.to - v.from /\ u.todo = rest
      /\ u = [nodes |-> u.nodes, leaf |-> u.leaf, tokens |-> u.tokens, todo |-> u.todo]
  <2>1. u = Plus(t, v, [t.leaf EXCEPT ![q] = N + 1], rest)
    BY <1>6, <1>7 DEF GrowLeaf
  <2> HIDE DEF u, v, rest, N
  <2> QED BY <2>1 DEF Plus
<1> HIDE DEF u, c, d, rest, v, N
<1>10. Reaches(tails, t.nodes, c.parent, q, d)
  BY <1>4, <1>5
<1>11. /\ u.nodes \in Seq(NodeSet(tails)) /\ Len(u.nodes) = N + 1
       /\ u.nodes[N + 1] = v /\ \A n \in 1..N : u.nodes[n] = t.nodes[n]
       /\ NodesInv(tails, u.nodes)
       /\ LaidOut(u.nodes, u.tokens)
       /\ \A p \in 0..N : \A x, y : Reaches(tails, t.nodes, p, x, y) => Reaches(tails, u.nodes, p, x, y)
  <2>1. NodesInv(tails, t.nodes) /\ LaidOut(t.nodes, t.tokens)
    BY DEF TreeInv
  <2>2. v.parent <= N /\ v.from < v.to /\ v.to <= Len(tails[v.prompt])
    BY <1>4, <1>7, <1>8
  <2>3. Reaches(tails, t.nodes, v.parent, v.prompt, v.from)
    BY <1>8, <1>10
  <2>4. LET more == Append(t.nodes, v) IN
        /\ more \in Seq(NodeSet(tails)) /\ Len(more) = Len(t.nodes) + 1
        /\ more[Len(t.nodes) + 1] = v /\ \A n \in 1..Len(t.nodes) : more[n] = t.nodes[n]
        /\ NodesInv(tails, more)
        /\ LaidOut(more, t.tokens + v.to - v.from)
        /\ \A p \in 0..Len(t.nodes) : \A x, y :
             Reaches(tails, t.nodes, p, x, y) => Reaches(tails, more, p, x, y)
    BY <1>1, <1>8, <2>1, <2>2, <2>3, AddNode DEF N
  <2>5. u.nodes = Append(t.nodes, v) /\ u.tokens = t.tokens + v.to - v.from /\ N = Len(t.nodes)
    BY <1>9 DEF N
  <2> QED BY <2>4, <2>5
<1>12. u.tokens = t.tokens + 1 /\ u.tokens \in Nat
  <2>1. u.tokens = t.tokens + v.to - v.from /\ v.to = d + 1 /\ v.from = d /\ d \in Nat /\ t.tokens \in Nat
    BY <1>1, <1>7, <1>8, <1>9
  <2> QED BY <2>1
<1>13. u \in TreeSet(tails)
  <2>1. u.leaf \in [DOMAIN tails -> Nat]
    BY <1>1, <1>9
  <2> QED BY <1>2, <1>9, <1>11, <1>12, <2>1 DEF TreeSet
<1>14. TodoInv(tails, u.nodes, rest)
  <2> SUFFICES ASSUME NEW i \in DOMAIN rest
               PROVE  /\ rest[i].parent <= Len(u.nodes)
                      /\ Kid(tails, rest[i])
                      /\ \A m \in rest[i].group : Reaches(tails, u.nodes, rest[i].parent, m, rest[i].d)
    BY DEF TodoInv
  <2>1. i + 1 \in DOMAIN t.todo /\ rest[i] = t.todo[i + 1]
    BY <1>3
  <2>2. /\ rest[i].parent <= N /\ Kid(tails, rest[i])
        /\ \A m \in rest[i].group : Reaches(tails, t.nodes, rest[i].parent, m, rest[i].d)
    BY <2>1 DEF TreeInv, TodoInv, N
  <2>3. rest[i].parent \in Nat
    <3>1. rest[i] \in ChildSet(tails)
      BY <1>2
    <3> QED BY <3>1 DEF ChildSet
  <2>4. rest[i].parent \in 0..N /\ rest[i].parent <= N + 1
    BY <1>1, <2>2, <2>3
  <2> QED BY <1>11, <2>2, <2>4
<1>15. TodoApart(tails, rest)
  <2> SUFFICES ASSUME NEW i \in DOMAIN rest, NEW j \in DOMAIN rest, i # j,
                      NEW m \in rest[i].group, NEW n \in rest[j].group
               PROVE  /\ m # n
                      /\ \A l \in Nat : SharesStart(tails[m], tails[n], l) => l <= rest[i].d /\ l <= rest[j].d
    BY DEF TodoApart
  <2>1. i + 1 \in DOMAIN t.todo /\ rest[i] = t.todo[i + 1] /\ j + 1 \in DOMAIN t.todo /\ rest[j] = t.todo[j + 1]
    BY <1>3
  <2>2. i + 1 # j + 1
    BY <1>2
  <2> QED BY <2>1, <2>2 DEF TreeInv, TodoApart
<1>16. \A i \in DOMAIN rest : q \notin rest[i].group
  <2> SUFFICES ASSUME NEW i \in DOMAIN rest, q \in rest[i].group PROVE FALSE
    OBVIOUS
  <2>1. i + 1 \in DOMAIN t.todo /\ rest[i] = t.todo[i + 1] /\ i + 1 # 1
    BY <1>3
  <2>2. q \in t.todo[1].group
    BY <1>2, <1>5
  <2> QED BY <1>2, <2>1, <2>2 DEF TreeInv, TodoApart
<1>17. LeafInv(tails, u.nodes, rest, u.leaf)
  <2> SUFFICES ASSUME NEW x \in DOMAIN tails
               PROVE  /\ u.leaf[x] = 0 <=> \E i \in DOMAIN rest : x \in rest[i].group
                      /\ u.leaf[x] # 0 => /\ u.leaf[x] \in DOMAIN u.nodes
                                          /\ u.nodes[u.leaf[x]].prompt = x
                                          /\ u.nodes[u.leaf[x]].to = Len(tails[x])
                                          /\ u.nodes[u.leaf[x]].from = Len(tails[x]) - 1
    BY DEF LeafInv
  <2>0. DOMAIN u.nodes = 1..(N + 1) /\ DOMAIN t.nodes = 1..N
    BY <1>1, <1>11 DEF N
  <2>1. CASE x = q
    <3>1. u.leaf[x] = N + 1 /\ N + 1 # 0 /\ N + 1 \in DOMAIN u.nodes
      BY <1>1, <1>9, <2>0, <2>1
    <3> QED BY <1>7, <1>8, <1>11, <1>16, <2>1, <3>1
  <2>2. CASE x # q
    <3>1. u.leaf[x] = t.leaf[x]
      BY <1>1, <1>9, <2>2
    <3>2. /\ t.leaf[x] = 0 <=> \E i \in DOMAIN t.todo : x \in t.todo[i].group
          /\ t.leaf[x] # 0 => /\ t.leaf[x] \in DOMAIN t.nodes
                              /\ t.nodes[t.leaf[x]].prompt = x
                              /\ t.nodes[t.leaf[x]].to = Len(tails[x])
                              /\ t.nodes[t.leaf[x]].from = Len(tails[x]) - 1
      BY DEF TreeInv, LeafInv
    <3>3. (\E i \in DOMAIN t.todo : x \in t.todo[i].group) <=> \E i \in DOMAIN rest : x \in rest[i].group
      <4>1. x \notin t.todo[1].group
        BY <1>2, <1>5, <2>2
      <4> QED BY <1>3, <4>1
    <3>4. t.leaf[x] # 0 => t.leaf[x] \in DOMAIN u.nodes /\ u.nodes[t.leaf[x]] = t.nodes[t.leaf[x]]
      BY <1>1, <1>11, <2>0, <3>2
    <3> QED BY <3>1, <3>2, <3>3, <3>4
  <2> QED BY <2>1, <2>2
<1>18. Unread(tails, rest) = Unread(tails, t.todo)
  <2>1. ~(\E m \in t.todo[1].group : \E l \in Nat : l > t.todo[1].d /\ l < Len(tails[m]))
    BY <1>2, <1>5, <1>7 DEF d
  <2>2. ASSUME NEW s, NEW i \in DOMAIN t.todo, NEW m \in t.todo[i].group, NEW l \in Nat,
               l > t.todo[i].d, l < Len(tails[m]), s = SubSeq(tails[m], 1, l)
        PROVE  \E j \in DOMAIN rest : \E n \in rest[j].group : \E k \in Nat :
                 k > rest[j].d /\ k < Len(tails[n]) /\ s = SubSeq(tails[n], 1, k)
    <3>1. i # 1
      BY <2>1, <2>2
    <3>2. i - 1 \in DOMAIN rest /\ rest[i - 1] = t.todo[i]
      BY <1>3, <3>1
    <3> QED BY <2>2, <3>2
  <2>3. ASSUME NEW s, NEW i \in DOMAIN rest, NEW m \in rest[i].group, NEW l \in Nat,
               l > rest[i].d, l < Len(tails[m]), s = SubSeq(tails[m], 1, l)
        PROVE  \E j \in DOMAIN t.todo : \E n \in t.todo[j].group : \E k \in Nat :
                 k > t.todo[j].d /\ k < Len(tails[n]) /\ s = SubSeq(tails[n], 1, k)
    <3>1. i + 1 \in DOMAIN t.todo /\ rest[i] = t.todo[i + 1]
      BY <1>3
    <3> QED BY <2>3, <3>1
  <2> QED BY <2>2, <2>3 DEF Unread
<1>19. Undone(tails, u.leaf) = Undone(tails, t.leaf) \ {q} /\ q \in Undone(tails, t.leaf)
  <2>1. \A x \in DOMAIN tails : u.leaf[x] = IF x = q THEN N + 1 ELSE t.leaf[x]
    BY <1>1, <1>9
  <2>2. t.leaf[q] = 0
    BY <1>2, <1>5 DEF TreeInv, LeafInv
  <2>3. N + 1 # 0
    BY <1>1
  <2> QED BY <2>1, <2>2, <2>3 DEF Undone
<1>20. CountInv(tails, u)
  <2>1. t.tokens + Cardinality(Unread(tails, t.todo)) + Cardinality(Undone(tails, t.leaf))
          = TreeTokens(tails, DOMAIN tails)
    BY DEF TreeInv, CountInv
  <2>2. /\ IsFiniteSet(Undone(tails, t.leaf)) /\ Cardinality(Undone(tails, t.leaf)) \in Nat
        /\ Cardinality(Unread(tails, t.todo)) \in Nat
    BY CountType
  <2>3. Cardinality(Undone(tails, u.leaf)) = Cardinality(Undone(tails, t.leaf)) - 1
    BY <1>19, <2>2, FS_RemoveElement
  <2>4. u.todo = rest /\ t.tokens \in Nat
    BY <1>1, <1>9
  <2>5. u.tokens + Cardinality(Unread(tails, rest)) + Cardinality(Undone(tails, u.leaf))
          = TreeTokens(tails, DOMAIN tails)
    BY <1>12, <1>18, <2>1, <2>2, <2>3, <2>4
  <2> QED BY <2>4, <2>5 DEF CountInv
<1>21. TreeInv(tails, u)
  BY <1>9, <1>11, <1>13, <1>14, <1>15, <1>17, <1>20 DEF TreeInv
<1> QED BY <1>1, <1>12, <1>21 DEF u

\* List todo is `old` with s in the place of its head.
Replaces(tails, old, s, todo) ==
  /\ todo \in Seq(ChildSet(tails))
  /\ \A i \in DOMAIN s : i \in DOMAIN todo /\ todo[i] = s[i]
  /\ \A j \in DOMAIN old : j # 1 => \E i \in DOMAIN todo : todo[i] = old[j]
  /\ \A i \in DOMAIN todo :
       \/ i \in DOMAIN s /\ todo[i] = s[i]
       \/ i \notin DOMAIN s /\ i - Len(s) + 1 \in DOMAIN old /\ i - Len(s) + 1 # 1
          /\ todo[i] = old[i - Len(s) + 1]

\* A list put in the place of the head of another.
LEMMA InPlaceOfHead ==
  ASSUME NEW tails, NEW old \in Seq(ChildSet(tails)), old # <<>>, NEW s \in Seq(ChildSet(tails)),
         NEW todo, todo = s \o Tail(old)
  PROVE  Replaces(tails, old, s, todo)
<1> DEFINE rest == Tail(old)
           L == Len(s)
           K == Len(old)
<1>1. /\ rest \in Seq(ChildSet(tails)) /\ DOMAIN rest = 1..(K - 1) /\ K \in Nat
      /\ DOMAIN old = 1..K
      /\ \A i \in 1..(K - 1) : i + 1 \in DOMAIN old /\ rest[i] = old[i + 1]
      /\ \A j \in DOMAIN old : j # 1 => j - 1 \in 1..(K - 1) /\ rest[j - 1] = old[j]
  BY HeadOfTodo
<1>2. K >= 1
  BY EmptySeq, LenProperties
<1>3. Len(rest) = K - 1 /\ L \in Nat /\ DOMAIN s = 1..L
  BY <1>1, <1>2, LenProperties
<1> HIDE DEF rest, L, K
<1>4. /\ todo \in Seq(ChildSet(tails)) /\ Len(todo) = L + (K - 1)
      /\ \A i \in 1..(L + (K - 1)) : todo[i] = IF i <= L THEN s[i] ELSE rest[i - L]
  <2>1. /\ s \o rest \in Seq(ChildSet(tails)) /\ Len(s \o rest) = L + Len(rest)
        /\ \A i \in 1..(L + Len(rest)) : (s \o rest)[i] = IF i <= L THEN s[i] ELSE rest[i - L]
    BY <1>1, ConcatProperties DEF L
  <2> QED BY <1>3, <2>1 DEF rest
<1>5. DOMAIN todo = 1..(L + (K - 1))
  BY <1>4, LenProperties
<1>6. \A i \in DOMAIN s : i \in DOMAIN todo /\ todo[i] = s[i]
  BY <1>1, <1>2, <1>3, <1>4, <1>5
<1>7. ASSUME NEW j \in DOMAIN old, j # 1 PROVE \E i \in DOMAIN todo : todo[i] = old[j]
  <2>1. j - 1 \in 1..(K - 1) /\ rest[j - 1] = old[j] /\ j \in Nat
    BY <1>1, <1>7
  <2>2. L + (j - 1) \in 1..(L + (K - 1)) /\ ~(L + (j - 1) <= L) /\ (L + (j - 1)) - L = j - 1
    BY <1>1, <1>3, <2>1
  <2>3. todo[L + (j - 1)] = old[j]
    BY <1>4, <2>1, <2>2
  <2> QED BY <1>5, <2>2, <2>3
<1>8. ASSUME NEW i \in DOMAIN todo, i \notin DOMAIN s
      PROVE  /\ i - L + 1 \in DOMAIN old /\ i - L + 1 # 1
             /\ todo[i] = old[i - L + 1]
  <2>1. i - L \in 1..(K - 1) /\ todo[i] = rest[i - L]
    BY <1>1, <1>3, <1>4, <1>5, <1>8
  <2> QED BY <1>1, <2>1
<1> QED BY <1>4, <1>6, <1>7, <1>8 DEF L, Replaces

\* The walk into a run of shared tokens keeps the tree's invariant and reads a token more.
LEMMA GrowRunStep ==
  ASSUME NEW tails, QuestionTails(tails), NEW t, TreeInv(tails, t), t.todo # <<>>, ~Head(t.todo).leaf
  PROVE  TreeInv(tails, GrowRun(tails, t)) /\ GrowRun(tails, t).tokens >= t.tokens + 1
<1> DEFINE u == GrowRun(tails, t)
           c == Head(t.todo)
           N == Len(t.nodes)
           d == c.d
           G == c.group
           f == First(G)
           e == RunEnd(tails, G, d)
           s == Children(tails, G, e, N + 1)
           todo == s \o Tail(t.todo)
           L == Len(s)
           v == Node(c.parent, f, d, e)
<1>1. /\ t \in TreeSet(tails) /\ t.nodes \in Seq(NodeSet(tails)) /\ t.leaf \in [DOMAIN tails -> Nat]
      /\ t.tokens \in Nat /\ t.todo \in Seq(ChildSet(tails)) /\ N \in Nat
  BY DEF TreeInv, TreeSet
<1>2. c = t.todo[1] /\ 1 \in DOMAIN t.todo /\ c \in ChildSet(tails)
  BY <1>1, HeadOfTodo
<1>3. c.parent <= N /\ Kid(tails, c) /\ \A m \in G : Reaches(tails, t.nodes, c.parent, m, d)
  BY <1>2 DEF TreeInv, TodoInv
<1>4. G \in SUBSET DOMAIN tails /\ G # {} /\ d \in Nat /\ c.parent \in Nat
  BY <1>2, <1>3 DEF ChildSet, Kid
<1>5. /\ \A m \in G : Len(tails[m]) > d + 1
      /\ \A m, n \in G : tails[m][d + 1] = tails[n][d + 1]
  BY <1>3 DEF Kid
<1>6. /\ f \in G /\ e \in Nat /\ e > d
      /\ \A m \in G : e < Len(tails[m])
      /\ \A m, n \in G : \A i \in (d + 1)..e : tails[m][i] = tails[n][i]
  <2>1. e = RunEnd(tails, G, d) /\ f = First(G)
    OBVIOUS
  <2> HIDE DEF u, c, N, d, G, f, e, s, todo, L, v
  <2>2. SharedRun(tails, G, d, e)
    BY <1>4, <1>5, <2>1, RunEndIs
  <2> QED BY <2>1, <2>2 DEF SharedRun
<1>7. \A m \in G : tails[m] \in Seq(Int) /\ Len(tails[m]) \in Nat /\ m \in DOMAIN tails
  BY <1>4, QuestionsFinite
<1>8. /\ v \in NodeSet(tails) /\ v.parent = c.parent /\ v.prompt = f /\ v.from = d /\ v.to = e
  <2> HIDE DEF f, e, G
  <2> QED BY <1>4, <1>6 DEF Node, NodeSet
<1>9. /\ u.nodes = Append(t.nodes, v) /\ u.leaf = t.leaf
      /\ u.tokens = t.tokens + v.to - v.from /\ u.todo = todo
      /\ u = [nodes |-> u.nodes, leaf |-> u.leaf, tokens |-> u.tokens, todo |-> u.todo]
  <2>1. u = Plus(t, v, t.leaf, todo)
    BY DEF GrowRun
  <2> HIDE DEF u, v, todo
  <2> QED BY <2>1 DEF Plus
<1>10. /\ s \in Seq(ChildSet(tails))
       /\ \A i \in DOMAIN s : /\ s[i].d = e /\ s[i].parent = N + 1
                              /\ s[i].group \subseteq G
                              /\ Kid(tails, s[i])
       /\ \A m \in G : \E i \in DOMAIN s : m \in s[i].group
       /\ \A i, j \in DOMAIN s : i # j =>
            \A m \in s[i].group, n \in s[j].group :
              /\ m # n
              /\ Len(tails[m]) > e + 1 /\ Len(tails[n]) > e + 1 =>
                   tails[m][e + 1] # tails[n][e + 1]
  <2>1. s = Children(tails, G, e, N + 1) /\ N + 1 \in Nat
    BY <1>1
  <2>2. G \in SUBSET DOMAIN tails /\ e \in Nat
    BY <1>4, <1>6
  <2> HIDE DEF u, c, N, d, G, f, e, s, todo, L, v
  <2>3. Splits(tails, G, e, N + 1, s)
    BY <2>1, <2>2, ChildrenIs
  <2> QED BY <2>3 DEF Splits
<1>11. /\ todo \in Seq(ChildSet(tails))
       /\ \A i \in DOMAIN s : i \in DOMAIN todo /\ todo[i] = s[i]
       /\ \A j \in DOMAIN t.todo : j # 1 => \E i \in DOMAIN todo : todo[i] = t.todo[j]
       /\ \A i \in DOMAIN todo :
            \/ i \in DOMAIN s /\ todo[i] = s[i]
            \/ i \notin DOMAIN s /\ i - L + 1 \in DOMAIN t.todo /\ i - L + 1 # 1
               /\ todo[i] = t.todo[i - L + 1]
  <2>1. todo = s \o Tail(t.todo) /\ L = Len(s)
    OBVIOUS
  <2>2. t.todo \in Seq(ChildSet(tails)) /\ s \in Seq(ChildSet(tails))
    BY <1>1, <1>10
  <2> HIDE DEF u, c, N, d, G, f, e, s, todo, L, v
  <2>3. Replaces(tails, t.todo, s, todo)
    BY <2>1, <2>2, InPlaceOfHead
  <2> QED BY <2>1, <2>3 DEF Replaces
<1>12. L \in Nat /\ \A i \in DOMAIN todo : i \in Nat
  <2> HIDE DEF s, todo
  <2> QED BY <1>10, <1>11, LenProperties
<1> HIDE DEF u, c, N, d, G, f, e, s, todo, L, v
<1>13. Reaches(tails, t.nodes, c.parent, f, d)
  BY <1>3, <1>6
<1>14. /\ u.nodes \in Seq(NodeSet(tails)) /\ Len(u.nodes) = N + 1
       /\ u.nodes[N + 1] = v /\ \A n \in 1..N : u.nodes[n] = t.nodes[n]
       /\ NodesInv(tails, u.nodes)
       /\ LaidOut(u.nodes, u.tokens)
       /\ \A p \in 0..N : \A x, y : Reaches(tails, t.nodes, p, x, y) => Reaches(tails, u.nodes, p, x, y)
  <2>1. NodesInv(tails, t.nodes) /\ LaidOut(t.nodes, t.tokens)
    BY DEF TreeInv
  <2>2. v.parent <= N /\ v.from < v.to /\ v.to <= Len(tails[v.prompt])
    BY <1>3, <1>6, <1>7, <1>8
  <2>3. Reaches(tails, t.nodes, v.parent, v.prompt, v.from)
    BY <1>8, <1>13
  <2>4. LET more == Append(t.nodes, v) IN
        /\ more \in Seq(NodeSet(tails)) /\ Len(more) = Len(t.nodes) + 1
        /\ more[Len(t.nodes) + 1] = v /\ \A n \in 1..Len(t.nodes) : more[n] = t.nodes[n]
        /\ NodesInv(tails, more)
        /\ LaidOut(more, t.tokens + v.to - v.from)
        /\ \A p \in 0..Len(t.nodes) : \A x, y :
             Reaches(tails, t.nodes, p, x, y) => Reaches(tails, more, p, x, y)
    BY <1>1, <1>8, <2>1, <2>2, <2>3, AddNode DEF N
  <2>5. u.nodes = Append(t.nodes, v) /\ u.tokens = t.tokens + v.to - v.from /\ N = Len(t.nodes)
    BY <1>9 DEF N
  <2> QED BY <2>4, <2>5
<1>15. u.tokens = t.tokens + (e - d) /\ u.tokens \in Nat /\ u.tokens >= t.tokens + 1
  <2>1. u.tokens = t.tokens + v.to - v.from /\ v.to = e /\ v.from = d
    BY <1>8, <1>9
  <2> QED BY <1>1, <1>4, <1>6, <2>1
<1>16. u \in TreeSet(tails)
  BY <1>1, <1>9, <1>11, <1>14, <1>15 DEF TreeSet
<1>17. \A m, n \in G : \A i \in 1..e : tails[m][i] = tails[n][i]
  <2> SUFFICES ASSUME NEW m \in G, NEW n \in G, NEW i \in 1..e PROVE tails[m][i] = tails[n][i]
    OBVIOUS
  <2>1. CASE i \in (d + 1)..e
    BY <1>6, <2>1
  <2>2. CASE i \in 1..d
    <3>1. Reaches(tails, t.nodes, c.parent, m, d) /\ Reaches(tails, t.nodes, c.parent, n, d)
      BY <1>3
    <3> QED BY <1>4, <2>2, <3>1 DEF Reaches
  <2> QED BY <1>4, <1>6, <2>1, <2>2
<1>18. TodoInv(tails, u.nodes, todo)
  <2> SUFFICES ASSUME NEW i \in DOMAIN todo
               PROVE  /\ todo[i].parent <= Len(u.nodes)
                      /\ Kid(tails, todo[i])
                      /\ \A m \in todo[i].group : Reaches(tails, u.nodes, todo[i].parent, m, todo[i].d)
    BY DEF TodoInv
  <2>1. CASE i \in DOMAIN s /\ todo[i] = s[i]
    <3>1. /\ todo[i].d = e /\ todo[i].parent = N + 1 /\ todo[i].group \subseteq G
          /\ Kid(tails, todo[i])
      BY <1>10, <2>1
    <3>2. ASSUME NEW m \in todo[i].group PROVE Reaches(tails, u.nodes, N + 1, m, e)
      <4>1. m \in G /\ e < Len(tails[m])
        BY <1>6, <3>1
      <4>2. u.nodes[N + 1].to = e /\ u.nodes[N + 1].prompt = f
        BY <1>8, <1>14
      <4>3. \A x \in 1..e : tails[u.nodes[N + 1].prompt][x] = tails[m][x]
        BY <1>6, <1>17, <4>1, <4>2
      <4>4. N + 1 # 0
        BY <1>1
      <4> QED BY <4>1, <4>2, <4>3, <4>4 DEF Reaches, NO_PARENT
    <3> QED BY <1>1, <1>14, <3>1, <3>2
  <2>2. CASE i - L + 1 \in DOMAIN t.todo /\ todo[i] = t.todo[i - L + 1]
    <3>1. /\ todo[i].parent <= N /\ Kid(tails, todo[i])
          /\ \A m \in todo[i].group : Reaches(tails, t.nodes, todo[i].parent, m, todo[i].d)
      BY <2>2 DEF TreeInv, TodoInv, N
    <3>2. todo[i].parent \in Nat
      <4>1. todo[i] \in ChildSet(tails)
        BY <1>11
      <4> QED BY <4>1 DEF ChildSet
    <3>3. todo[i].parent \in 0..N /\ todo[i].parent <= N + 1
      BY <1>1, <3>1, <3>2
    <3> QED BY <1>14, <3>1, <3>3
  <2> QED BY <1>11, <2>1, <2>2
<1>19. ASSUME NEW i \in DOMAIN s, NEW m \in s[i].group, NEW j \in DOMAIN t.todo, j # 1,
              NEW n \in t.todo[j].group
       PROVE  /\ m # n
              /\ \A l \in Nat : SharesStart(tails[m], tails[n], l) => l <= e /\ l <= t.todo[j].d
              /\ \A l \in Nat : SharesStart(tails[n], tails[m], l) => l <= e /\ l <= t.todo[j].d
  <2>1. m \in t.todo[1].group
    BY <1>2, <1>10 DEF G
  <2>2. /\ m # n
        /\ \A l \in Nat : SharesStart(tails[m], tails[n], l) => l <= t.todo[1].d /\ l <= t.todo[j].d
        /\ \A l \in Nat : SharesStart(tails[n], tails[m], l) => l <= t.todo[1].d /\ l <= t.todo[j].d
    BY <1>2, <1>19, <2>1 DEF TreeInv, TodoApart
  <2>3. t.todo[1].d = d
    BY <1>2 DEF d
  <2>4. \A l \in Nat : l <= d => l <= e
    BY <1>4, <1>6
  <2> QED BY <2>2, <2>3, <2>4
<1>20. TodoApart(tails, todo)
  <2> SUFFICES ASSUME NEW i \in DOMAIN todo, NEW j \in DOMAIN todo, i # j,
                      NEW m \in todo[i].group, NEW n \in todo[j].group
               PROVE  /\ m # n
                      /\ \A l \in Nat : SharesStart(tails[m], tails[n], l) => l <= todo[i].d /\ l <= todo[j].d
    BY DEF TodoApart
  <2> DEFINE New(x) == x \in DOMAIN s /\ todo[x] = s[x]
             Old(x) == x - L + 1 \in DOMAIN t.todo /\ x - L + 1 # 1 /\ todo[x] = t.todo[x - L + 1]
  <2>1. CASE New(i) /\ New(j)
    <3>1. /\ todo[i].d = e /\ todo[j].d = e /\ m \in G /\ n \in G
          /\ m # n
          /\ Len(tails[m]) > e + 1 /\ Len(tails[n]) > e + 1 => tails[m][e + 1] # tails[n][e + 1]
      BY <1>10, <2>1
    <3>2. ASSUME NEW l \in Nat, SharesStart(tails[m], tails[n], l) PROVE l <= e
      <4> SUFFICES ASSUME ~(l <= e) PROVE FALSE
        OBVIOUS
      <4>1. e + 1 \in 1..l /\ l < Len(tails[m]) /\ l < Len(tails[n])
        BY <1>6, <3>2 DEF SharesStart
      <4>2. tails[m][e + 1] = tails[n][e + 1]
        BY <3>2, <4>1 DEF SharesStart
      <4>3. Len(tails[m]) > e + 1 /\ Len(tails[n]) > e + 1
        BY <1>6, <1>7, <3>1, <4>1
      <4> QED BY <3>1, <4>2, <4>3
    <3> QED BY <3>1, <3>2
  <2>2. CASE New(i) /\ Old(j)
    <3>1. todo[i].d = e
      BY <1>10, <2>2
    <3> QED BY <1>19, <2>2, <3>1
  <2>3. CASE Old(i) /\ New(j)
    <3>1. todo[j].d = e
      BY <1>10, <2>3
    <3> QED BY <1>19, <2>3, <3>1
  <2>4. CASE Old(i) /\ Old(j)
    <3>1. i - L + 1 # j - L + 1
      BY <1>12
    <3> QED BY <2>4, <3>1 DEF TreeInv, TodoApart
  <2> QED BY <1>11, <2>1, <2>2, <2>3, <2>4
<1>21. \A x : (\E i \in DOMAIN t.todo : x \in t.todo[i].group) <=> \E i \in DOMAIN todo : x \in todo[i].group
  <2>1. ASSUME NEW i \in DOMAIN t.todo, NEW x \in t.todo[i].group
        PROVE  \E j \in DOMAIN todo : x \in todo[j].group
    <3>1. CASE i = 1
      <4>1. x \in G
        BY <1>2, <3>1 DEF G
      <4> QED BY <1>10, <1>11, <4>1
    <3>2. CASE i # 1
      BY <1>11, <3>2
    <3> QED BY <3>1, <3>2
  <2>2. ASSUME NEW i \in DOMAIN todo, NEW x \in todo[i].group
        PROVE  \E j \in DOMAIN t.todo : x \in t.todo[j].group
    <3>1. CASE i \in DOMAIN s /\ todo[i] = s[i]
      <4>1. x \in t.todo[1].group
        BY <1>2, <1>10, <3>1 DEF G
      <4> QED BY <1>2, <4>1
    <3>2. CASE i - L + 1 \in DOMAIN t.todo /\ todo[i] = t.todo[i - L + 1]
      BY <3>2
    <3> QED BY <1>11, <3>1, <3>2
  <2> QED BY <2>1, <2>2
<1>22. LeafInv(tails, u.nodes, todo, u.leaf)
  <2> SUFFICES ASSUME NEW x \in DOMAIN tails
               PROVE  /\ u.leaf[x] = 0 <=> \E i \in DOMAIN todo : x \in todo[i].group
                      /\ u.leaf[x] # 0 => /\ u.leaf[x] \in DOMAIN u.nodes
                                          /\ u.nodes[u.leaf[x]].prompt = x
                                          /\ u.nodes[u.leaf[x]].to = Len(tails[x])
                                          /\ u.nodes[u.leaf[x]].from = Len(tails[x]) - 1
    BY DEF LeafInv
  <2>1. DOMAIN u.nodes = 1..(N + 1) /\ DOMAIN t.nodes = 1..N
    BY <1>1, <1>14 DEF N
  <2>2. /\ t.leaf[x] = 0 <=> \E i \in DOMAIN t.todo : x \in t.todo[i].group
        /\ t.leaf[x] # 0 => /\ t.leaf[x] \in DOMAIN t.nodes
                            /\ t.nodes[t.leaf[x]].prompt = x
                            /\ t.nodes[t.leaf[x]].to = Len(tails[x])
                            /\ t.nodes[t.leaf[x]].from = Len(tails[x]) - 1
    BY DEF TreeInv, LeafInv
  <2>3. t.leaf[x] # 0 => t.leaf[x] \in DOMAIN u.nodes /\ u.nodes[t.leaf[x]] = t.nodes[t.leaf[x]]
    BY <1>1, <1>14, <2>1, <2>2
  <2>4. u.leaf = t.leaf
    BY <1>9
  <2> QED BY <1>21, <2>2, <2>3, <2>4
<1> DEFINE R == {SubSeq(tails[f], 1, l) : l \in (d + 1)..e}
<1>23. R \cap Unread(tails, todo) = {}
  <2> SUFFICES ASSUME NEW l \in (d + 1)..e, NEW i \in DOMAIN todo, NEW m \in todo[i].group,
                      NEW k \in Nat, k > todo[i].d, k < Len(tails[m]),
                      SubSeq(tails[f], 1, l) = SubSeq(tails[m], 1, k)
               PROVE  FALSE
    BY DEF Unread
  <2>1. m \in DOMAIN tails /\ tails[m] \in Seq(Int) /\ Len(tails[m]) \in Nat
    <3>1. todo[i] \in ChildSet(tails)
      BY <1>11
    <3>2. m \in DOMAIN tails
      BY <3>1 DEF ChildSet
    <3> QED BY <3>2, QuestionsFinite
  <2>2. tails[f] \in Seq(Int) /\ l \in 0..Len(tails[f]) /\ k \in 0..Len(tails[m]) /\ l \in Nat
        /\ l < Len(tails[f]) /\ f \in G
    BY <1>4, <1>6, <1>7, <2>1
  <2>3. l = k /\ \A x \in 1..l : tails[f][x] = tails[m][x]
    BY <2>1, <2>2, SameSub
  <2>4. SharesStart(tails[f], tails[m], l)
    BY <2>2, <2>3 DEF SharesStart
  <2>5. CASE i \in DOMAIN s /\ todo[i] = s[i]
    <3>1. todo[i].d = e
      BY <1>10, <2>5
    <3> QED BY <1>4, <1>6, <2>3, <3>1
  <2>6. CASE i - L + 1 \in DOMAIN t.todo /\ i - L + 1 # 1 /\ todo[i] = t.todo[i - L + 1]
    <3>1. f \in t.todo[1].group /\ m \in t.todo[i - L + 1].group
      BY <1>2, <1>6, <2>6 DEF G
    <3>2. l <= t.todo[i - L + 1].d
      BY <1>2, <2>2, <2>4, <2>6, <3>1 DEF TreeInv, TodoApart
    <3>3. todo[i].d \in Nat
      <4>1. todo[i] \in ChildSet(tails)
        BY <1>11
      <4> QED BY <4>1 DEF ChildSet
    <3> QED BY <2>2, <2>3, <2>6, <3>2, <3>3
  <2> QED BY <1>11, <2>5, <2>6
<1>24. Unread(tails, t.todo) = R \union Unread(tails, todo)
  <2>1. ASSUME NEW i \in DOMAIN t.todo, NEW m \in t.todo[i].group, NEW l \in Nat,
               l > t.todo[i].d, l < Len(tails[m])
        PROVE  SubSeq(tails[m], 1, l) \in R \/
               \E j \in DOMAIN todo : \E n \in todo[j].group : \E k \in Nat :
                 k > todo[j].d /\ k < Len(tails[n]) /\ SubSeq(tails[m], 1, l) = SubSeq(tails[n], 1, k)
    <3>1. CASE i # 1
      BY <1>11, <2>1, <3>1
    <3>2. CASE i = 1 /\ l <= e
      <4>1. m \in G /\ l > d
        BY <1>2, <2>1, <3>2 DEF G, d
      <4>2. /\ tails[m] \in Seq(Int) /\ tails[f] \in Seq(Int) /\ l \in 0..Len(tails[m])
            /\ l \in 0..Len(tails[f]) /\ l \in (d + 1)..e
        BY <1>4, <1>6, <1>7, <3>2, <4>1
      <4>3. \A x \in 1..l : tails[m][x] = tails[f][x]
        BY <1>6, <1>17, <3>2, <4>1
      <4>4. SubSeq(tails[m], 1, l) = SubSeq(tails[f], 1, l)
        BY <4>2, <4>3, SameSub
      <4> QED BY <4>2, <4>4
    <3>3. CASE i = 1 /\ ~(l <= e)
      <4>1. m \in G
        BY <1>2, <2>1, <3>3 DEF G
      <4>2. PICK j \in DOMAIN s : m \in s[j].group
        BY <1>10, <4>1
      <4>3. j \in DOMAIN todo /\ todo[j] = s[j] /\ todo[j].d = e
        BY <1>10, <1>11
      <4>4. l > e
        BY <1>6, <3>3
      <4> QED BY <2>1, <4>2, <4>3, <4>4
    <3> QED BY <3>1, <3>2, <3>3
  <2>2. ASSUME NEW i \in DOMAIN todo, NEW m \in todo[i].group, NEW l \in Nat,
               l > todo[i].d, l < Len(tails[m])
        PROVE  \E j \in DOMAIN t.todo : \E n \in t.todo[j].group : \E k \in Nat :
                 k > t.todo[j].d /\ k < Len(tails[n]) /\ SubSeq(tails[m], 1, l) = SubSeq(tails[n], 1, k)
    <3>1. CASE i \in DOMAIN s /\ todo[i] = s[i]
      <4>1. todo[i].d = e /\ m \in G
        BY <1>10, <3>1
      <4>2. m \in t.todo[1].group /\ l > t.todo[1].d
        BY <1>2, <1>4, <1>6, <2>2, <4>1 DEF G, d
      <4> QED BY <1>2, <2>2, <4>2
    <3>2. CASE i - L + 1 \in DOMAIN t.todo /\ todo[i] = t.todo[i - L + 1]
      BY <2>2, <3>2
    <3> QED BY <1>11, <3>1, <3>2
  <2>3. ASSUME NEW l \in (d + 1)..e
        PROVE  /\ SubSeq(tails[f], 1, l) \in AllStarts(tails)
               /\ \E j \in DOMAIN t.todo : \E n \in t.todo[j].group : \E k \in Nat :
                    k > t.todo[j].d /\ k < Len(tails[n]) /\ SubSeq(tails[f], 1, l) = SubSeq(tails[n], 1, k)
    <3>1. l \in Nat /\ l > d /\ l < Len(tails[f]) /\ l \in 1..(Len(tails[f]) - 1) /\ f \in DOMAIN tails
      <4>1. d \in Nat /\ e \in Nat /\ f \in DOMAIN tails
        BY <1>4, <1>6, <1>7
      <4>2. e < Len(tails[f]) /\ Len(tails[f]) \in Nat
        BY <1>4, <1>6, <1>7
      <4>3. \A x, y, z \in Nat : y < z =>
              \A q \in (x + 1)..y : q \in Nat /\ q > x /\ q < z /\ q \in 1..(z - 1)
        OBVIOUS
      <4> HIDE DEF d, e, f
      <4> QED BY <2>3, <4>1, <4>2, <4>3
    <3>2. f \in t.todo[1].group /\ t.todo[1].d = d
      BY <1>2, <1>6 DEF G, d
    <3> QED BY <1>2, <3>1, <3>2 DEF AllStarts, Starts
  <2>4. \A x : x \in R <=> \E l \in (d + 1)..e : x = SubSeq(tails[f], 1, l)
    OBVIOUS
  <2> HIDE DEF R
  <2>5. ASSUME NEW x \in Unread(tails, t.todo) PROVE x \in R \union Unread(tails, todo)
    <3>1. x \in AllStarts(tails)
      BY DEF Unread
    <3>2. PICK i \in DOMAIN t.todo : \E m \in t.todo[i].group : \E l \in Nat :
            l > t.todo[i].d /\ l < Len(tails[m]) /\ x = SubSeq(tails[m], 1, l)
      BY DEF Unread
    <3>3. x \in R \/
          \E j \in DOMAIN todo : \E n \in todo[j].group : \E k \in Nat :
                 k > todo[j].d /\ k < Len(tails[n]) /\ x = SubSeq(tails[n], 1, k)
      BY <2>1, <3>2
    <3> QED BY <3>1, <3>3 DEF Unread
  <2>6. ASSUME NEW x \in Unread(tails, todo) PROVE x \in Unread(tails, t.todo)
    <3>1. x \in AllStarts(tails)
      BY DEF Unread
    <3>2. PICK i \in DOMAIN todo : \E m \in todo[i].group : \E l \in Nat :
            l > todo[i].d /\ l < Len(tails[m]) /\ x = SubSeq(tails[m], 1, l)
      BY DEF Unread
    <3>3. \E j \in DOMAIN t.todo : \E n \in t.todo[j].group : \E k \in Nat :
                 k > t.todo[j].d /\ k < Len(tails[n]) /\ x = SubSeq(tails[n], 1, k)
      BY <2>2, <3>2
    <3> QED BY <3>1, <3>3 DEF Unread
  <2>7. ASSUME NEW x \in R PROVE x \in Unread(tails, t.todo)
    <3>1. PICK l \in (d + 1)..e : x = SubSeq(tails[f], 1, l)
      BY <2>4
    <3> QED BY <2>3, <3>1 DEF Unread
  <2> QED BY <2>5, <2>6, <2>7
<1>25. IsFiniteSet(R) /\ Cardinality(R) = e - d
  <2> DEFINE M == (d + 1)..e
  <2>1. tails[f] \in Seq(Int) /\ M \in SUBSET (1..Len(tails[f]))
    BY <1>4, <1>6, <1>7
  <2>2. Cardinality(M) = e - d
    <3>1. d + 1 \in Int /\ e \in Int /\ ~(d + 1 > e) /\ e - (d + 1) + 1 = e - d
      BY <1>4, <1>6
    <3> QED BY <3>1, FS_Interval
  <2> HIDE DEF M
  <2>3. IsFiniteSet({SubSeq(tails[f], 1, l) : l \in M}) /\ Cardinality({SubSeq(tails[f], 1, l) : l \in M}) = Cardinality(M)
    BY <2>1, CountStarts
  <2> QED BY <2>2, <2>3 DEF M
<1> HIDE DEF R
<1>26. CountInv(tails, u)
  <2>1. t.tokens + Cardinality(Unread(tails, t.todo)) + Cardinality(Undone(tails, t.leaf))
          = TreeTokens(tails, DOMAIN tails)
    BY DEF TreeInv, CountInv
  <2>2. /\ IsFiniteSet(Unread(tails, todo)) /\ Cardinality(Unread(tails, todo)) \in Nat
        /\ Cardinality(Undone(tails, t.leaf)) \in Nat
    BY CountType
  <2>3. Cardinality(Unread(tails, t.todo)) = (e - d) + Cardinality(Unread(tails, todo))
    <3>1. Cardinality(R \union Unread(tails, todo))
            = Cardinality(R) + Cardinality(Unread(tails, todo)) - Cardinality(R \cap Unread(tails, todo))
      BY <1>25, <2>2, FS_Union
    <3>2. Cardinality(R \cap Unread(tails, todo)) = 0
      BY <1>23, FS_EmptySet
    <3> QED BY <1>4, <1>6, <1>24, <1>25, <2>2, <3>1, <3>2
  <2>4. u.todo = todo /\ u.leaf = t.leaf
    BY <1>9
  <2>5. u.tokens + Cardinality(Unread(tails, todo)) + Cardinality(Undone(tails, t.leaf))
          = TreeTokens(tails, DOMAIN tails)
    BY <1>1, <1>4, <1>6, <1>15, <2>1, <2>2, <2>3
  <2> QED BY <2>4, <2>5 DEF CountInv
<1>27. TreeInv(tails, u)
  BY <1>9, <1>14, <1>16, <1>18, <1>20, <1>22, <1>26 DEF TreeInv
<1> QED BY <1>15, <1>27 DEF u

-----------------------------------------------------------------------------
(* The whole tree *)

\* The walk's first tree, the root alone, meets the invariant.
LEMMA SeedIsTree ==
  ASSUME NEW tails, QuestionTails(tails)
  PROVE  TreeInv(tails, Seed(tails))
<1> DEFINE Q == DOMAIN tails
           t == Seed(tails)
           s == Children(tails, Q, 0, 0)
           z == [q \in Q |-> 0]
<1>1. t = [nodes |-> <<>>, leaf |-> z, tokens |-> 0, todo |-> s]
  BY DEF Seed, NO_PARENT
<1>2. Splits(tails, Q, 0, 0, s)
  <2>1. Q \in SUBSET DOMAIN tails /\ 0 \in Nat
    OBVIOUS
  <2> HIDE DEF Q
  <2> QED BY <2>1, ChildrenIs
<1> HIDE DEF t, s
<1>3. t.nodes = <<>> /\ t.leaf = z /\ t.tokens = 0 /\ t.todo = s
  BY <1>1
<1>4. /\ s \in Seq(ChildSet(tails))
      /\ \A i \in DOMAIN s : s[i].d = 0 /\ s[i].parent = 0 /\ s[i].group \subseteq Q /\ Kid(tails, s[i])
      /\ \A m \in Q : \E i \in DOMAIN s : m \in s[i].group
  BY <1>2 DEF Splits
<1>5. \A m \in Q : tails[m] \in Seq(Int) /\ Len(tails[m]) \in Nat /\ Len(tails[m]) >= 1
  BY QuestionsFinite
<1>6. t \in TreeSet(tails)
  <2>1. z \in [Q -> Nat] /\ <<>> \in Seq(NodeSet(tails))
    BY EmptySeq
  <2> QED BY <1>1, <1>4, <2>1 DEF TreeSet
<1>7. NodesInv(tails, t.nodes)
  BY <1>3 DEF NodesInv
<1>8. LaidOut(t.nodes, t.tokens)
  <2> DEFINE r == [n \in 0..0 |-> 0]
  <2>1. r \in [0..0 -> Nat] /\ r[0] = 0
    OBVIOUS
  <2>2. Len(t.nodes) = 0 /\ t.tokens = 0 /\ ~ \E n \in 1..0 : TRUE
    BY <1>3
  <2> HIDE DEF r
  <2>3. r \in [0..Len(t.nodes) -> Nat] /\ r[0] = 0 /\ r[Len(t.nodes)] = t.tokens
        /\ \A n \in 1..Len(t.nodes) : r[n] = r[n - 1] + (t.nodes[n].to - t.nodes[n].from)
    BY <2>1, <2>2
  <2> QED BY <2>3 DEF LaidOut
<1>9. TodoInv(tails, t.nodes, s)
  <2> SUFFICES ASSUME NEW i \in DOMAIN s
               PROVE  /\ s[i].parent <= Len(t.nodes)
                      /\ Kid(tails, s[i])
                      /\ \A m \in s[i].group : Reaches(tails, t.nodes, s[i].parent, m, s[i].d)
    BY DEF TodoInv
  <2>1. Len(t.nodes) = 0
    BY <1>3
  <2>2. \A m \in Q : Reaches(tails, t.nodes, 0, m, 0)
    BY <1>5 DEF Reaches, NO_PARENT
  <2> QED BY <1>4, <2>1, <2>2
<1>10. TodoApart(tails, s)
  <2> SUFFICES ASSUME NEW i \in DOMAIN s, NEW j \in DOMAIN s, i # j,
                      NEW m \in s[i].group, NEW n \in s[j].group
               PROVE  /\ m # n
                      /\ \A l \in Nat : SharesStart(tails[m], tails[n], l) => l <= s[i].d /\ l <= s[j].d
    BY DEF TodoApart
  <2>1. /\ m # n
        /\ Len(tails[m]) > 0 + 1 /\ Len(tails[n]) > 0 + 1 => tails[m][0 + 1] # tails[n][0 + 1]
    BY <1>2 DEF Splits
  <2>2. s[i].d = 0 /\ s[j].d = 0 /\ Len(tails[m]) \in Nat /\ Len(tails[n]) \in Nat
    BY <1>4, <1>5
  <2>3. ASSUME NEW l \in Nat, SharesStart(tails[m], tails[n], l), l # 0 PROVE FALSE
    <3>1. 1 \in 1..l /\ l < Len(tails[m]) /\ l < Len(tails[n])
      BY <2>3 DEF SharesStart
    <3>2. tails[m][1] = tails[n][1]
      BY <2>3, <3>1 DEF SharesStart
    <3> QED BY <2>1, <2>2, <3>1, <3>2
  <2> QED BY <2>1, <2>2, <2>3
<1>11. LeafInv(tails, t.nodes, s, z)
  BY <1>4 DEF LeafInv
<1>12. CountInv(tails, t)
  <2>1. Undone(tails, z) = Q
    BY DEF Undone
  <2>2. Unread(tails, s) = AllStarts(tails)
    <3> SUFFICES ASSUME NEW x \in AllStarts(tails) PROVE x \in Unread(tails, s)
      BY DEF Unread
    <3>1. PICK m \in Q : \E l \in 1..(Len(tails[m]) - 1) : x = SubSeq(tails[m], 1, l)
      BY DEF AllStarts, Starts
    <3>2. PICK l \in 1..(Len(tails[m]) - 1) : x = SubSeq(tails[m], 1, l)
      BY <3>1
    <3>3. PICK i \in DOMAIN s : m \in s[i].group
      BY <1>4
    <3>4. l \in Nat /\ l > s[i].d /\ l < Len(tails[m])
      BY <1>4, <1>5
    <3> QED BY <3>2, <3>3, <3>4 DEF Unread
  <2>3. /\ TreeTokens(tails, Q) = Cardinality(AllStarts(tails)) + Cardinality(Q)
        /\ Cardinality(Unread(tails, s)) \in Nat /\ Cardinality(Undone(tails, z)) \in Nat
    BY CountType
  <2> QED BY <1>3, <2>1, <2>2, <2>3 DEF CountInv
<1> QED BY <1>3, <1>6, <1>7, <1>8, <1>9, <1>10, <1>11, <1>12 DEF TreeInv, t

\* One step of the walk keeps the invariant; it stands still only when nothing is left to
\* do.
LEMMA GrowKeepsTree ==
  ASSUME NEW tails, QuestionTails(tails), NEW t, TreeInv(tails, t)
  PROVE  /\ TreeInv(tails, Grow(tails, t))
         /\ t.todo = <<>> => Grow(tails, t) = t
         /\ t.todo # <<>> => Grow(tails, t).tokens >= t.tokens + 1
  BY GrowLeafStep, GrowRunStep DEF Grow

\* As long as children are to be added, a token is to be counted.
LEMMA TreeUnfinished ==
  ASSUME NEW tails, QuestionTails(tails), NEW t, TreeInv(tails, t)
  PROVE  /\ t.todo # <<>> => t.tokens < TreeTokens(tails, DOMAIN tails)
         /\ t.todo = <<>> => /\ t.tokens = TreeTokens(tails, DOMAIN tails)
                             /\ \A q \in DOMAIN tails : t.leaf[q] # 0
<1>1. t.tokens \in Nat /\ t.todo \in Seq(ChildSet(tails))
  BY DEF TreeInv, TreeSet
<1>2. /\ t.tokens + Cardinality(Unread(tails, t.todo)) + Cardinality(Undone(tails, t.leaf))
           = TreeTokens(tails, DOMAIN tails)
      /\ Cardinality(Unread(tails, t.todo)) \in Nat /\ Cardinality(Undone(tails, t.leaf)) \in Nat
      /\ IsFiniteSet(Undone(tails, t.leaf))
  BY CountType DEF TreeInv, CountInv
<1>3. ASSUME t.todo # <<>> PROVE Undone(tails, t.leaf) # {}
  <2>1. 1 \in DOMAIN t.todo /\ t.todo[1] \in ChildSet(tails)
    BY <1>1, <1>3, HeadOfTodo
  <2>2. PICK m : m \in t.todo[1].group
    BY <2>1 DEF TreeInv, TodoInv, Kid
  <2>3. m \in DOMAIN tails
    BY <2>1, <2>2 DEF ChildSet
  <2>4. t.leaf[m] = 0
    BY <2>1, <2>2, <2>3 DEF TreeInv, LeafInv
  <2> QED BY <2>3, <2>4 DEF Undone
<1>4. ASSUME t.todo # <<>> PROVE t.tokens < TreeTokens(tails, DOMAIN tails)
  <2>1. Cardinality(Undone(tails, t.leaf)) # 0
    BY <1>2, <1>3, <1>4, FS_EmptySet
  <2> QED BY <1>1, <1>2, <2>1
<1>5. ASSUME t.todo = <<>> PROVE \A q \in DOMAIN tails : t.leaf[q] # 0
  BY <1>5 DEF TreeInv, LeafInv
<1>6. ASSUME t.todo = <<>> PROVE t.tokens = TreeTokens(tails, DOMAIN tails)
  <2>1. Unread(tails, t.todo) = {} /\ Undone(tails, t.leaf) = {}
    BY <1>5, <1>6 DEF Unread, Undone
  <2>2. Cardinality(Unread(tails, t.todo)) = 0 /\ Cardinality(Undone(tails, t.leaf)) = 0
    BY <2>1, FS_EmptySet
  <2> QED BY <1>1, <1>2, <2>2
<1> QED BY <1>4, <1>5, <1>6

\* prompt_tree adds all children: its tree has a leaf of each question.
THEOREM PromptTreeIsComplete ==
  ASSUME NEW tails, QuestionTails(tails), NEW t, t = prompt_tree(tails)
  PROVE  /\ TreeInv(tails, t) /\ t.todo = <<>>
         /\ t.tokens = TreeTokens(tails, DOMAIN tails)
         /\ \A q \in DOMAIN tails : t.leaf[q] # 0
<1> DEFINE U == {x \in TreeSet(tails) : TreeInv(tails, x)}
           b == Seed(tails)
           F == [n \in Nat |-> [x \in U |-> Grow(tails, x)]]
           K == TreeTokens(tails, DOMAIN tails)
           Unfolds(g) == g = [n \in Nat |-> IF n = 0 THEN Seed(tails) ELSE Grow(tails, g[n - 1])]
           grown == CHOOSE g : Unfolds(g)
<1>1. \A x : x \in U <=> TreeInv(tails, x)
  BY DEF TreeInv
<1>2. b \in U /\ \A x \in U : Grow(tails, x) \in U
  BY <1>1, SeedIsTree, GrowKeepsTree
<1>3. F \in [Nat -> [U -> U]]
  BY <1>2
<1>4. \A n \in Nat, x \in U : F[n][x] = Grow(tails, x)
  OBVIOUS
<1> HIDE DEF U, F
<1>5. PICK f \in [Nat -> U] : \A n \in Nat : Makes(f, n, b, F)
  BY <1>2, <1>3, Recursion
<1>6. f[0] = b /\ \A n \in Nat : f[n] \in U /\ f[n + 1] = Grow(tails, f[n])
  <2>1. f[0] = b
    BY <1>5 DEF Makes
  <2>2. ASSUME NEW n \in Nat PROVE f[n] \in U /\ f[n + 1] = Grow(tails, f[n])
    <3>1. n + 1 \in Nat /\ n < n + 1
      OBVIOUS
    <3>2. f[n + 1] = F[n][f[n]]
      BY <1>5, <3>1 DEF Makes
    <3> QED BY <1>4, <1>5, <3>2
  <2> QED BY <2>1, <2>2
<1>7. \E g : Unfolds(g)
  <2>1. ASSUME NEW n \in Nat PROVE f[n] = IF n = 0 THEN Seed(tails) ELSE Grow(tails, f[n - 1])
    <3>1. CASE n = 0
      BY <1>6, <3>1
    <3>2. CASE n # 0
      <4>1. n - 1 \in Nat /\ (n - 1) + 1 = n
        BY <3>2
      <4>2. f[(n - 1) + 1] = Grow(tails, f[n - 1])
        BY <1>6, <4>1
      <4> QED BY <3>2, <4>1, <4>2
    <3> QED BY <3>1, <3>2
  <2>2. f = [n \in Nat |-> f[n]]
    BY <1>5
  <2>3. Unfolds(f)
    BY <2>1, <2>2
  <2> QED BY <2>3
<1>8. Unfolds(grown)
  <2> HIDE DEF Unfolds
  <2> QED BY <1>7
<1>9. t = grown[K]
  BY DEF prompt_tree
<1> HIDE DEF grown, b
<1>10. grown[0] = b /\ \A n \in Nat : grown[n + 1] = Grow(tails, grown[n])
  <2>1. \A n \in Nat : grown[n] = IF n = 0 THEN Seed(tails) ELSE Grow(tails, grown[n - 1])
    BY <1>8
  <2>2. grown[0] = b
    BY <2>1 DEF b
  <2>3. ASSUME NEW n \in Nat PROVE grown[n + 1] = Grow(tails, grown[n])
    <3>1. n + 1 \in Nat /\ n + 1 # 0 /\ (n + 1) - 1 = n
      OBVIOUS
    <3> QED BY <2>1, <3>1
  <2> QED BY <2>2, <2>3
<1> HIDE DEF Unfolds
<1> DEFINE T == {n \in Nat : /\ TreeInv(tails, grown[n])
                             /\ grown[n].todo = <<>> \/ grown[n].tokens >= n}
<1>11. \A n \in Nat : n \in T
  <2>1. 0 \in T
    <3>1. TreeInv(tails, grown[0])
      BY <1>10, SeedIsTree DEF b
    <3>2. grown[0].tokens \in Nat
      BY <3>1 DEF TreeInv, TreeSet
    <3> QED BY <3>1, <3>2
  <2>2. ASSUME NEW n \in Nat, n \in T PROVE n + 1 \in T
    <3> DEFINE x == grown[n]
               y == grown[n + 1]
    <3>1. y = Grow(tails, x) /\ TreeInv(tails, x) /\ (x.todo = <<>> \/ x.tokens >= n)
      BY <1>10, <2>2
    <3>2. /\ TreeInv(tails, y)
          /\ x.todo = <<>> => y = x
          /\ x.todo # <<>> => y.tokens >= x.tokens + 1
      <4> HIDE DEF x, y
      <4> QED BY <3>1, GrowKeepsTree
    <3>3. x.tokens \in Nat /\ y.tokens \in Nat
      <4> HIDE DEF x, y
      <4> QED BY <3>1, <3>2 DEF TreeInv, TreeSet
    <3>4. y.todo = <<>> \/ y.tokens >= n + 1
      BY <3>1, <3>2, <3>3
    <3> QED BY <3>2, <3>4
  <2> HIDE DEF T
  <2> QED BY <2>1, <2>2, Induct
<1>12. K \in Nat
  BY CountType
<1>13. TreeInv(tails, t) /\ (t.todo = <<>> \/ t.tokens >= K)
  <2> HIDE DEF K
  <2> QED BY <1>9, <1>11, <1>12
<1>14. t.tokens \in Nat
  BY <1>13 DEF TreeInv, TreeSet
<1>15. t.todo = <<>>
  BY <1>12, <1>13, <1>14, TreeUnfinished
<1> QED BY <1>13, <1>15, TreeUnfinished

=============================================================================
