----------------------------- MODULE RateProofs -----------------------------
(***************************************************************************)
(* Proofs about Rate and Choice, for every list of answers.                *)
(*                                                                         *)
(* PoolsInv says of every pool on the stack that it has the thresholds     *)
(* between two ends, that its sum and count are theirs, and that no start  *)
(* of it has a larger mean than the whole of it; and that the means do not *)
(* rise from pool to pool, except into the last one while it is merged.    *)
(* A merge keeps that, because the mean of two pools in the wrong order is *)
(* above that of the first and under that of the second.                   *)
(*                                                                         *)
(* When all is merged the sums of the pooled answers (PooledIs) are        *)
(* nowhere under the sums of the answers given, and agree with them at the *)
(* ends of every pool: the min-max formula, the score and the sum of the   *)
(* probabilities all follow from that.                                     *)
(***************************************************************************)
EXTENDS Choice, TreeProofs

-----------------------------------------------------------------------------
(* Numbers *)

\* A comparison survives a factor.
LEMMA Scaled == ASSUME NEW x \in Int, NEW y \in Int, NEW c \in Nat, x <= y PROVE x * c <= y * c
OBVIOUS

\* A positive factor may be cancelled from a comparison.
LEMMA Cancelled == ASSUME NEW x \in Int, NEW y \in Int, NEW c \in Nat, c > 0, x * c <= y * c PROVE x <= y
OBVIOUS

\* Division with remainder.
LEMMA Divided ==
  ASSUME NEW a \in Nat, NEW b \in Nat, b > 0
  PROVE  /\ a \div b \in Nat /\ a % b \in 0..(b - 1)
         /\ a = b * (a \div b) + (a % b)
OBVIOUS

\* A multiple divides back.
LEMMA DividesOnce ==
  ASSUME NEW q \in Nat, NEW b \in Nat, b > 0
  PROVE  (q * b) \div b = q
OBVIOUS

\* D/d <= s/c, and the denominators' products with q and r are the same.
LEMMA SameScale ==
  ASSUME NEW D \in Int, NEW d \in Nat, NEW s \in Int, NEW c \in Nat, NEW q \in Nat, NEW r \in Nat, NEW F \in Nat,
         q * d = F, r * c = F, F > 0, D * c <= s * d
  PROVE  D * q <= s * r
<1>1. (D * c) * (q * r) <= (s * d) * (q * r)
  <2>1. D * c \in Int /\ s * d \in Int /\ q * r \in Nat
    OBVIOUS
  <2> QED BY <2>1, Scaled
<1>2. (D * c) * (q * r) = (D * q) * F /\ (s * d) * (q * r) = (s * r) * F
  OBVIOUS
<1>3. D * q \in Int /\ s * r \in Int
  OBVIOUS
<1> QED BY <1>1, <1>2, <1>3, Cancelled

\* Two pools: x of the first, then of the second, under the line through both.
LEMMA FirstUnder ==
  ASSUME NEW s1 \in Nat, NEW c1 \in Nat, NEW s2 \in Nat, NEW c2 \in Nat, c1 > 0,
         s1 * c2 <= s2 * c1, NEW D \in Int, NEW d \in Nat, D * c1 <= s1 * d
  PROVE  D * (c1 + c2) <= (s1 + s2) * d
<1>1. (D * c1) * (c1 + c2) <= (s1 * d) * (c1 + c2)
  <2>1. D * c1 \in Int /\ s1 * d \in Int /\ c1 + c2 \in Nat
    OBVIOUS
  <2> QED BY <2>1, Scaled
<1>2. (s1 * c2) * d <= (s2 * c1) * d
  <2>1. s1 * c2 \in Int /\ s2 * c1 \in Int
    OBVIOUS
  <2> QED BY <2>1, Scaled
<1>3. (s1 * d) * (c1 + c2) = (s1 * d) * c1 + (s1 * c2) * d /\ ((s1 + s2) * d) * c1 = (s1 * d) * c1 + (s2 * c1) * d
  OBVIOUS
<1>4. (D * c1) * (c1 + c2) = (D * (c1 + c2)) * c1
  OBVIOUS
<1>5. (D * (c1 + c2)) * c1 <= ((s1 + s2) * d) * c1
  <2>1. (D * c1) * (c1 + c2) \in Int /\ (s1 * d) * c1 \in Int /\ (s1 * c2) * d \in Int /\ (s2 * c1) * d \in Int
    OBVIOUS
  <2> QED BY <1>1, <1>2, <1>3, <1>4, <2>1
<1>6. D * (c1 + c2) \in Int /\ (s1 + s2) * d \in Int
  OBVIOUS
<1> QED BY <1>5, <1>6, Cancelled

\* A start of the second pool, behind the first, lies under the mean of both.
LEMMA SecondUnder ==
  ASSUME NEW s1 \in Nat, NEW c1 \in Nat, NEW s2 \in Nat, NEW c2 \in Nat, c2 > 0,
         s1 * c2 <= s2 * c1, NEW D \in Int, NEW d \in 0..c2, D * c2 <= s2 * d
  PROVE  (s1 + D) * (c1 + c2) <= (s1 + s2) * (c1 + d)
<1> DEFINE e == c2 - d
           R == s2 - D
<1>1. e \in Nat /\ R \in Int /\ d = c2 - e /\ D = s2 - R
  OBVIOUS
<1> HIDE DEF e, R
<1>2. s2 * e <= R * c2
  <2>1. (s2 - R) * c2 <= s2 * (c2 - e)
    BY <1>1
  <2>2. (s2 - R) * c2 = s2 * c2 - R * c2 /\ s2 * (c2 - e) = s2 * c2 - s2 * e
    BY <1>1
  <2>3. s2 * c2 \in Int /\ R * c2 \in Int /\ s2 * e \in Int
    BY <1>1
  <2> QED BY <2>1, <2>2, <2>3
<1>3. (s2 * e) * (c1 + c2) <= (R * c2) * (c1 + c2)
  <2>1. s2 * e \in Int /\ R * c2 \in Int /\ c1 + c2 \in Nat
    BY <1>1
  <2> QED BY <1>2, <2>1, Scaled
<1>4. (s1 * c2) * e <= (s2 * c1) * e
  <2>1. s1 * c2 \in Int /\ s2 * c1 \in Int
    OBVIOUS
  <2> QED BY <1>1, <2>1, Scaled
<1>5. ((s1 + s2) * e) * c2 <= (R * (c1 + c2)) * c2
  <2>1. /\ (s2 * e) * (c1 + c2) = (s2 * c1) * e + (s2 * e) * c2
        /\ ((s1 + s2) * e) * c2 = (s1 * c2) * e + (s2 * e) * c2
        /\ (R * (c1 + c2)) * c2 = (R * c2) * (c1 + c2)
    BY <1>1
  <2>2. /\ (s2 * c1) * e \in Int /\ (s2 * e) * c2 \in Int /\ (s1 * c2) * e \in Int /\ (R * c2) * (c1 + c2) \in Int
    BY <1>1
  <2> QED BY <1>3, <1>4, <2>1, <2>2
<1>6. (s1 + s2) * e <= R * (c1 + c2)
  <2>1. (s1 + s2) * e \in Int /\ R * (c1 + c2) \in Int
    BY <1>1
  <2> QED BY <1>5, <2>1, Cancelled
<1>7. /\ (s1 + D) * (c1 + c2) = (s1 + s2) * (c1 + c2) - R * (c1 + c2)
      /\ (s1 + s2) * (c1 + d) = (s1 + s2) * (c1 + c2) - (s1 + s2) * e
  BY <1>1
<1>8. (s1 + s2) * (c1 + c2) \in Int /\ R * (c1 + c2) \in Int /\ (s1 + s2) * e \in Int
  BY <1>1
<1> QED BY <1>6, <1>7, <1>8

-----------------------------------------------------------------------------
(* The answers given *)

\* Sums of numbers that are at most b.
LEMMA SumsBounded ==
  ASSUME NEW n \in Nat, NEW s \in [1..n -> Nat], NEW b \in Nat, \A i \in 1..n : s[i] <= b
  PROVE  \A i \in 0..n : SumTo(s, i) <= i * b
<1> DEFINE T == {i \in Nat : i <= n => SumTo(s, i) <= i * b}
<1>1. /\ SumTo(s, 0) = 0 /\ \A i \in 0..n : SumTo(s, i) \in Nat
      /\ \A i \in 1..n : SumTo(s, i) = SumTo(s, i - 1) + s[i]
  BY Sums
<1>2. 0 \in T
  BY <1>1
<1>3. ASSUME NEW i \in Nat, i \in T PROVE i + 1 \in T
  <2> SUFFICES ASSUME i + 1 <= n PROVE SumTo(s, i + 1) <= (i + 1) * b
    OBVIOUS
  <2>1. i + 1 \in 1..n /\ (i + 1) - 1 = i /\ i \in 0..n /\ SumTo(s, i) <= i * b
    BY <1>3
  <2>2. SumTo(s, i + 1) = SumTo(s, i) + s[i + 1] /\ SumTo(s, i) \in Nat
    BY <1>1, <2>1
  <2>3. s[i + 1] <= b /\ s[i + 1] \in Nat
    BY <2>1
  <2>4. (i + 1) * b = i * b + b /\ i * b \in Nat
    OBVIOUS
  <2> QED BY <2>1, <2>2, <2>3, <2>4
<1> HIDE DEF T
<1>4. \A i \in Nat : i \in T
  BY <1>2, <1>3, Induct
<1> QED BY <1>4 DEF T

\* Answer i of list f is one of those given.
LEMMA PlaceOfAnswer ==
  ASSUME NEW n \in Nat, NEW m \in Nat, NEW f \in 1..n, NEW i \in 1..m
  PROVE  (f - 1) * m + i \in 1..(n * m)
<1>1. (f - 1) * m <= (n - 1) * m /\ (n - 1) * m = n * m - m /\ n * m \in Nat
  <2>1. f - 1 \in Int /\ n - 1 \in Int /\ f - 1 <= n - 1
    OBVIOUS
  <2> QED BY <2>1, Scaled
<1>2. (f - 1) * m \in Nat
  OBVIOUS
<1> QED BY <1>1, <1>2

\* The sizes of an input: t thresholds, each asked in every phrasing.
LEMMA InputIs ==
  ASSUME input \in Inputs
  PROVE  /\ Parts \in Nat \ {0} /\ input.n \in Nat /\ t \in Nat \ {0} /\ input.n = t + 1
         /\ input.ps \in Seq(0..Parts) /\ Len(input.ps) = phrasings * t
         /\ phrasings \in Nat \ {0}
<1>1. /\ Parts \in Nat \ {0} /\ input.n \in Nat \ {0, 1} /\ input.ps \in Seq(0..Parts)
      /\ Len(input.ps) >= t /\ Len(input.ps) % t = 0
  BY InputsAssumption DEF t
<1>2. t \in Nat \ {0} /\ input.n = t + 1
  BY <1>1 DEF t
<1>3. Len(input.ps) \in Nat
  BY <1>1
<1>4. phrasings \in Nat /\ Len(input.ps) = t * phrasings
  <2> DEFINE l == Len(input.ps)
  <2>1. l \in Nat /\ l % t = 0
    BY <1>1, <1>3
  <2>3. t \in Nat /\ t > 0
    BY <1>2
  <2> HIDE DEF l
  <2>2. l \div t \in Nat /\ l = t * (l \div t)
    BY <2>1, <2>3, Divided
  <2> QED BY <2>2 DEF l, phrasings
<1>5. t * phrasings = phrasings * t
  BY <1>2, <1>4
<1>6. phrasings # 0
  BY <1>1, <1>2, <1>4
<1> QED BY <1>1, <1>2, <1>4, <1>5, <1>6

\* The answers to one question, one for each phrasing.
LEMMA AnswersTo ==
  ASSUME input \in Inputs, NEW i \in 1..t,
         NEW s, s = [f \in 1..phrasings |-> input.ps[(f - 1) * t + i]]
  PROVE  /\ s \in [1..phrasings -> Nat]
         /\ \A f \in 1..phrasings : s[f] <= Parts
         /\ SumTo(s, phrasings) \in 0..(phrasings * Parts)
<1>1. /\ Parts \in Nat /\ t \in Nat /\ phrasings \in Nat
      /\ input.ps \in Seq(0..Parts) /\ Len(input.ps) = phrasings * t
  BY InputIs
<1>2. ASSUME NEW f \in 1..phrasings PROVE s[f] \in 0..Parts
  <2>1. (f - 1) * t + i \in 1..(phrasings * t)
    BY <1>1, PlaceOfAnswer
  <2>2. input.ps[(f - 1) * t + i] \in 0..Parts
    <3> DEFINE x == (f - 1) * t + i
    <3>1. x \in 1..Len(input.ps)
      BY <1>1, <2>1
    <3> HIDE DEF x
    <3>2. input.ps[x] \in 0..Parts
      BY <1>1, <3>1
    <3> QED BY <3>2 DEF x
  <2> QED BY <2>2
<1>3. s \in [1..phrasings -> Nat] /\ \A f \in 1..phrasings : s[f] <= Parts
  <2>1. \A f \in 1..phrasings : s[f] \in Nat /\ s[f] <= Parts
    BY <1>1, <1>2
  <2> QED BY <2>1
<1>4. phrasings \in 0..phrasings
  BY <1>1
<1>5. SumTo(s, phrasings) <= phrasings * Parts
  BY <1>1, <1>3, <1>4, SumsBounded
<1>6. SumTo(s, phrasings) \in Nat
  BY <1>1, <1>3, <1>4, Sums
<1>7. phrasings * Parts \in Nat
  BY <1>1
<1> QED BY <1>3, <1>5, <1>6, <1>7

\* The summed answers to a threshold are a number between none and all of them.
LEMMA GeIs ==
  ASSUME input \in Inputs
  PROVE  ge \in [1..t -> 0..(phrasings * Parts)]
<1>1. \A j \in 1..t : SumTo([f \in 1..phrasings |-> input.ps[(f - 1) * t + j]], phrasings)
                        \in 0..(phrasings * Parts)
  BY AnswersTo
<1> QED BY <1>1 DEF ge

\* All answers up to threshold x.
Cum(x) == SumTo(ge, x)

\* The sums of the answers from the first threshold on never fall.
LEMMA CumIs ==
  ASSUME input \in Inputs
  PROVE  /\ Cum(0) = 0
         /\ \A x \in 0..t : Cum(x) \in Nat
         /\ \A x \in 1..t : Cum(x) = Cum(x - 1) + ge[x] /\ ge[x] \in Nat /\ ge[x] <= phrasings * Parts
         /\ \A x, y \in 0..t : x <= y => Cum(x) <= Cum(y)
<1>1. t \in Nat /\ ge \in [1..t -> Nat] /\ \A x \in 1..t : ge[x] <= phrasings * Parts
  <2>1. t \in Nat /\ phrasings * Parts \in Nat
    BY InputIs
  <2>2. \A x \in 1..t : ge[x] \in 0..(phrasings * Parts)
    BY GeIs
  <2>3. \A x \in 1..t : ge[x] \in Nat /\ ge[x] <= phrasings * Parts
    BY <2>1, <2>2
  <2>4. ge \in [1..t -> Nat]
    BY <2>3 DEF ge
  <2> QED BY <2>1, <2>3, <2>4
<1>2. /\ SumTo(ge, 0) = 0 /\ \A x \in 0..t : SumTo(ge, x) \in Nat
      /\ \A x \in 1..t : SumTo(ge, x) = SumTo(ge, x - 1) + ge[x]
  BY <1>1, Sums
<1>3. \A x, y \in 0..t : x <= y => SumTo(ge, x) <= SumTo(ge, y)
  BY <1>1, SumsGrow
<1> QED BY <1>1, <1>2, <1>3 DEF Cum

-----------------------------------------------------------------------------
(* What a mean is scaled by *)

\* Every number of thresholds divides it.
LEMMA FactorialIs ==
  ASSUME t \in Nat
  PROVE  /\ Factorial \in Nat \ {0}
         /\ \A c \in 1..t : Factorial \div c \in Nat /\ (Factorial \div c) * c = Factorial
<1> DEFINE U == Nat \ {0}
           F == [i \in Nat |-> [x \in U |-> (i + 1) * x]]
<1>1. F \in [Nat -> [U -> U]] /\ 1 \in U
  <2>1. \A i \in Nat, x \in U : (i + 1) * x \in U
    OBVIOUS
  <2> QED BY <2>1
<1>2. PICK f \in [Nat -> U] : \A i \in Nat : Makes(f, i, 1, F)
  <2> HIDE DEF F, U
  <2> QED BY <1>1, Recursion
<1>3. f[0] = 1 /\ \A i \in Nat : f[i + 1] = (i + 1) * f[i]
  <2>1. f[0] = 1
    BY <1>2 DEF Makes
  <2>2. ASSUME NEW i \in Nat PROVE f[i + 1] = (i + 1) * f[i]
    <3>1. i + 1 \in Nat /\ i < i + 1
      OBVIOUS
    <3>2. f[i + 1] = F[i][f[i]]
      BY <1>2, <3>1 DEF Makes
    <3>3. f[i] \in U
      BY <1>2
    <3> QED BY <3>2, <3>3
  <2> QED BY <2>1, <2>2
<1> HIDE DEF F
<1>4. Factorial = f[t]
  <2> DEFINE Is(g) == g = [i \in 0..t |-> IF i = 0 THEN 1 ELSE i * g[i - 1]]
  <2>1. \E g : Is(g)
    <3> DEFINE h == [j \in 0..t |-> f[j]]
    <3>1. ASSUME NEW j \in 0..t PROVE h[j] = IF j = 0 THEN 1 ELSE j * h[j - 1]
      <4>1. CASE j = 0
        BY <1>3, <4>1
      <4>2. CASE j # 0
        <5>1. j - 1 \in Nat /\ (j - 1) + 1 = j /\ j - 1 \in 0..t
          BY <4>2
        <5>2. f[(j - 1) + 1] = ((j - 1) + 1) * f[j - 1]
          BY <1>3, <5>1
        <5> QED BY <4>2, <5>1, <5>2
      <4> QED BY <4>1, <4>2
    <3>2. h = [j \in 0..t |-> h[j]]
      OBVIOUS
    <3> HIDE DEF h
    <3>3. Is(h)
      BY <3>1, <3>2
    <3> QED BY <3>3
  <2>2. PICK g : Is(g) /\ Factorial = g[t]
    <3>1. Factorial = (CHOOSE g : Is(g))[t]
      BY DEF Factorial
    <3> HIDE DEF Is
    <3> QED BY <2>1, <3>1
  <2> DEFINE T == {j \in Nat : j <= t => g[j] = f[j]}
  <2>3. \A j \in 0..t : g[j] = IF j = 0 THEN 1 ELSE j * g[j - 1]
    BY <2>2
  <2>4. 0 \in T
    <3>1. 0 \in 0..t
      OBVIOUS
    <3>2. g[0] = 1
      BY <2>3, <3>1
    <3> QED BY <1>3, <3>2
  <2>5. ASSUME NEW j \in Nat, j \in T PROVE j + 1 \in T
    <3> SUFFICES ASSUME j + 1 <= t PROVE g[j + 1] = f[j + 1]
      OBVIOUS
    <3>1. j + 1 \in 0..t /\ j + 1 # 0 /\ (j + 1) - 1 = j /\ j <= t
      OBVIOUS
    <3>2. g[j + 1] = (j + 1) * g[j]
      BY <2>3, <3>1
    <3>3. g[j] = f[j]
      BY <2>5, <3>1
    <3> QED BY <1>3, <3>2, <3>3
  <2>6. \A j \in Nat : j \in T
    <3> HIDE DEF T
    <3> QED BY <2>4, <2>5, Induct
  <2>7. t \in T
    <3> HIDE DEF T
    <3> QED BY <2>6
  <2> QED BY <2>2, <2>7
<1>5. \A i \in Nat : \A c \in 1..i : \E q \in Nat : f[i] = q * c
  <2> DEFINE T == {i \in Nat : \A c \in 1..i : \E q \in Nat : f[i] = q * c}
  <2>1. 0 \in T
    OBVIOUS
  <2>2. ASSUME NEW i \in Nat, i \in T PROVE i + 1 \in T
    <3> SUFFICES ASSUME NEW c \in 1..(i + 1) PROVE \E q \in Nat : f[i + 1] = q * c
      OBVIOUS
    <3>1. f[i + 1] = (i + 1) * f[i] /\ f[i] \in Nat
      BY <1>2, <1>3
    <3>2. CASE c = i + 1
      <4>1. f[i + 1] = f[i] * c
        BY <3>1, <3>2
      <4> QED BY <3>1, <4>1
    <3>3. CASE c # i + 1
      <4>1. c \in 1..i /\ c \in Nat
        BY <3>3
      <4>2. PICK q \in Nat : f[i] = q * c
        BY <2>2, <4>1
      <4>3. f[i + 1] = ((i + 1) * q) * c /\ (i + 1) * q \in Nat
        BY <3>1, <4>1, <4>2
      <4> QED BY <4>3
    <3> QED BY <3>2, <3>3
  <2> HIDE DEF T
  <2>3. \A i \in Nat : i \in T
    BY <2>1, <2>2, Induct
  <2> QED BY <2>3 DEF T
<1>6. f[t] \in U
  BY <1>2
<1>7. ASSUME NEW c \in 1..t PROVE Factorial \div c \in Nat /\ (Factorial \div c) * c = Factorial
  <2>1. PICK q \in Nat : Factorial = q * c
    BY <1>4, <1>5
  <2>2. c \in Nat /\ c > 0
    OBVIOUS
  <2>3. (q * c) \div c = q
    BY <2>2, DividesOnce
  <2> QED BY <2>1, <2>3
<1> QED BY <1>4, <1>6, <1>7

-----------------------------------------------------------------------------
(* Pools *)

PoolSet == [sum : Nat, count : Nat \ {0}]

\* On the line of pool q's mean that goes through the answers up to threshold y, or under it.
Line(q, y, x) == (Cum(x) - Cum(y)) * q.count <= q.sum * (x - y)
\* Pool q has the thresholds from a + 1 to b, and no start of them has a larger mean.
Spans(q, a, b) == /\ q.count = b - a /\ q.sum = Cum(b) - Cum(a)
                  /\ \A x \in a..b : Line(q, a, x)
\* The pools qs end at v[1], v[2], ...
Ends(qs, v, n) == /\ v \in [0..Len(qs) -> 0..t] /\ v[0] = 0 /\ v[Len(qs)] = n
                  /\ \A i \in 1..Len(qs) : v[i - 1] < v[i] /\ Spans(qs[i], v[i - 1], v[i])
\* The mean of q is not below that of r.
Falls(q, r) == r.sum * q.count <= q.sum * r.count

PoolsInv ==
  /\ input \in Inputs /\ pc \in {"push", "merge", "done"}
  /\ k \in 1..(t + 1) /\ pools \in Seq(PoolSet)
  /\ \E v : Ends(pools, v, k - 1)
  /\ \A i \in 1..(Len(pools) - 1) :
       Falls(pools[i], pools[i + 1]) \/ (pc = "merge" /\ i + 1 = Len(pools))
  /\ pc = "merge" => Len(pools) > 0
  /\ pc = "done" => k = t + 1

\* A new pool spans the one threshold it is made of.
LEMMA SpansOne ==
  ASSUME input \in Inputs, NEW a \in Nat, a + 1 \in 1..t
  PROVE  Pool(ge[a + 1], 1) \in PoolSet /\ Spans(Pool(ge[a + 1], 1), a, a + 1)
<1> DEFINE q == Pool(ge[a + 1], 1)
<1>1. q.sum = ge[a + 1] /\ q.count = 1 /\ q = [sum |-> ge[a + 1], count |-> 1]
  BY DEF Pool
<1>2. t \in Nat /\ a \in 0..t /\ a + 1 \in 0..t /\ (a + 1) - 1 = a
  BY InputIs
<1>3. Cum(a + 1) = Cum(a) + ge[a + 1] /\ ge[a + 1] \in Nat /\ Cum(a) \in Nat
  BY <1>2, CumIs
<1>4. q \in PoolSet
  BY <1>1, <1>3 DEF PoolSet
<1> HIDE DEF q
<1>5. ASSUME NEW x \in a..(a + 1) PROVE Line(q, a, x)
  <2>1. x = a \/ x = a + 1
    OBVIOUS
  <2>2. CASE x = a
    BY <1>1, <1>3, <2>2 DEF Line
  <2>3. CASE x = a + 1
    BY <1>1, <1>3, <2>3 DEF Line
  <2> QED BY <2>1, <2>2, <2>3
<1>6. q.count = (a + 1) - a /\ q.sum = Cum(a + 1) - Cum(a)
  BY <1>1, <1>3
<1>7. Spans(q, a, a + 1)
  BY <1>5, <1>6 DEF Spans
<1> QED BY <1>4, <1>7 DEF q

\* Two neighbouring pools out of order make one that spans them both.
LEMMA SpansTwo ==
  ASSUME input \in Inputs, NEW q \in PoolSet, NEW r \in PoolSet,
         NEW a \in 0..t, NEW b \in 0..t, NEW c \in 0..t,
         Spans(q, a, b), Spans(r, b, c), Falls(r, q)
  PROVE  LET both == Pool(q.sum + r.sum, q.count + r.count)
         IN both \in PoolSet /\ Spans(both, a, c)
<1> DEFINE both == Pool(q.sum + r.sum, q.count + r.count)
<1>1. both.sum = q.sum + r.sum /\ both.count = q.count + r.count
      /\ both = [sum |-> q.sum + r.sum, count |-> q.count + r.count]
  BY DEF Pool
<1>2. q.sum \in Nat /\ q.count \in Nat /\ q.count > 0 /\ r.sum \in Nat /\ r.count \in Nat /\ r.count > 0
  BY DEF PoolSet
<1>3. both \in PoolSet
  BY <1>1, <1>2 DEF PoolSet
<1> HIDE DEF both
<1>4. t \in Nat /\ a \in Nat /\ b \in Nat /\ c \in Nat
  BY InputIs
<1>5. Cum(a) \in Nat /\ Cum(b) \in Nat /\ Cum(c) \in Nat
  BY CumIs
<1>6. /\ q.count = b - a /\ q.sum = Cum(b) - Cum(a) /\ r.count = c - b /\ r.sum = Cum(c) - Cum(b)
  BY DEF Spans
<1>7. both.count = c - a /\ both.sum = Cum(c) - Cum(a)
  BY <1>1, <1>4, <1>5, <1>6
<1>8. q.sum * r.count <= r.sum * q.count
  BY DEF Falls
<1>9. ASSUME NEW x \in a..c PROVE Line(both, a, x)
  <2>1. x \in 0..t /\ x \in Nat
    BY <1>4
  <2>2. Cum(x) \in Nat
    BY <2>1, CumIs
  <2>3. CASE x \in a..b
    <3>1. (Cum(x) - Cum(a)) * q.count <= q.sum * (x - a)
      BY <2>3 DEF Spans, Line
    <3>2. x - a \in Nat /\ Cum(x) - Cum(a) \in Int
      BY <1>4, <1>5, <2>1, <2>2
    <3>3. (Cum(x) - Cum(a)) * (q.count + r.count) <= (q.sum + r.sum) * (x - a)
      BY <1>2, <1>8, <3>1, <3>2, FirstUnder
    <3> QED BY <1>1, <3>3 DEF Line
  <2>4. CASE x \in b..c
    <3>1. (Cum(x) - Cum(b)) * r.count <= r.sum * (x - b)
      BY <2>4 DEF Spans, Line
    <3>2. x - b \in 0..r.count /\ Cum(x) - Cum(b) \in Int
      BY <1>4, <1>5, <1>6, <2>1, <2>2, <2>4
    <3>3. (q.sum + (Cum(x) - Cum(b))) * (q.count + r.count) <= (q.sum + r.sum) * (q.count + (x - b))
      BY <1>2, <1>8, <3>1, <3>2, SecondUnder
    <3>4. q.sum + (Cum(x) - Cum(b)) = Cum(x) - Cum(a) /\ q.count + (x - b) = x - a
      BY <1>4, <1>5, <1>6, <2>1, <2>2
    <3> QED BY <1>1, <3>3, <3>4 DEF Line
  <2> QED BY <1>4, <2>1, <2>3, <2>4
<1>10. Spans(both, a, c)
  BY <1>7, <1>9 DEF Spans
<1> QED BY <1>3, <1>10 DEF both

\* The loop begins without pools.
LEMMA InitPools == Init => PoolsInv
<1> SUFFICES ASSUME Init PROVE PoolsInv
  OBVIOUS
<1>1. input \in Inputs /\ pc = "push" /\ k = 1 /\ pools = <<>>
  BY DEF Init
<1>2. t \in Nat /\ t # 0
  BY <1>1, InputIs
<1>3. pools \in Seq(PoolSet) /\ Len(pools) = 0 /\ k \in 1..(t + 1)
  BY <1>1, <1>2
<1>4. Ends(pools, [i \in 0..0 |-> 0], k - 1)
  BY <1>1, <1>2, <1>3 DEF Ends
<1> QED BY <1>1, <1>3, <1>4 DEF PoolsInv

\* Pushing the next threshold's pool keeps the invariant.
LEMMA PushKeeps == PoolsInv /\ Push => PoolsInv'
<1> SUFFICES ASSUME PoolsInv, Push PROVE PoolsInv'
  OBVIOUS
<1>1. input' = input /\ k <= t /\ k' = k + 1 /\ pc' = "merge" /\ pools' = Append(pools, Pool(ge[k], 1))
  BY DEF Push
<1>2. input \in Inputs /\ k \in 1..(t + 1) /\ pools \in Seq(PoolSet)
  BY DEF PoolsInv
<1>3. PICK v : Ends(pools, v, k - 1)
  BY DEF PoolsInv
<1>4. t \in Nat /\ t' = t /\ k \in Nat /\ k - 1 \in Nat /\ (k - 1) + 1 = k /\ k \in 1..t
  BY <1>1, <1>2, InputIs DEF t
<1> DEFINE q == Pool(ge[k], 1)
           m == Len(pools)
           w == [i \in 0..(m + 1) |-> IF i <= m THEN v[i] ELSE k]
<1>5. q \in PoolSet /\ Spans(q, k - 1, k)
  BY <1>2, <1>4, SpansOne
<1> HIDE DEF q
<1>6. m \in Nat
  BY <1>2
<1>7. /\ pools' \in Seq(PoolSet) /\ Len(pools') = m + 1
      /\ \A i \in 1..m : pools'[i] = pools[i]
      /\ pools'[m + 1] = q
  BY <1>1, <1>2, <1>5 DEF q
<1>8. v \in [0..m -> 0..t] /\ v[0] = 0 /\ v[m] = k - 1
      /\ \A i \in 1..m : v[i - 1] < v[i] /\ Spans(pools[i], v[i - 1], v[i])
  BY <1>3 DEF Ends
<1>9. w \in [0..(m + 1) -> 0..t] /\ w[0] = 0 /\ w[m + 1] = k
  BY <1>4, <1>6, <1>8
<1>10. ASSUME NEW i \in 1..(m + 1) PROVE w[i - 1] < w[i] /\ Spans(pools'[i], w[i - 1], w[i])
  <2>1. CASE i \in 1..m
    <3>1. w[i - 1] = v[i - 1] /\ w[i] = v[i]
      BY <1>6, <2>1
    <3> QED BY <1>7, <1>8, <2>1, <3>1
  <2>2. CASE i = m + 1
    <3>1. w[i - 1] = k - 1 /\ w[i] = k
      BY <1>6, <1>8, <2>2
    <3> QED BY <1>4, <1>5, <1>7, <2>2, <3>1
  <2> QED BY <1>6, <2>1, <2>2
<1> HIDE DEF w
<1>11. Ends(pools', w, k)
  BY <1>7, <1>9, <1>10 DEF Ends
<1>12. ge' = ge
  BY <1>1, <1>4 DEF ge, phrasings, t
<1>14. (\E u : Ends(pools, u, k - 1))'
  <2>1. k' - 1 = k
    BY <1>1, <1>4
  <2>2. \A u : Ends(pools, u, k - 1)' <=> Ends(pools', u, k)
    BY <1>4, <1>12, <2>1 DEF Ends, Spans, Line, Cum
  <2> QED BY <1>11, <2>2
<1>15. ASSUME NEW i \in 1..(Len(pools') - 1)
       PROVE  Falls(pools'[i], pools'[i + 1]) \/ i + 1 = Len(pools')
  <2>1. CASE i + 1 = m + 1
    BY <1>7, <2>1
  <2>2. CASE i + 1 # m + 1
    <3>1. i \in 1..(m - 1) /\ i \in 1..m /\ i + 1 \in 1..m
      BY <1>6, <1>7, <2>2
    <3>2. Falls(pools[i], pools[i + 1])
      BY <3>1 DEF PoolsInv, Push
    <3> QED BY <1>7, <3>1, <3>2
  <2> QED BY <2>1, <2>2
<1>16. k' \in 1..(t' + 1) /\ Len(pools') > 0
  BY <1>1, <1>4, <1>6, <1>7
<1> QED BY <1>1, <1>2, <1>7, <1>14, <1>15, <1>16 DEF PoolsInv, Falls

\* Merging the last two pools keeps the invariant.
LEMMA MergeKeeps == PoolsInv /\ Merge => PoolsInv'
<1> SUFFICES ASSUME PoolsInv, Merge PROVE PoolsInv'
  OBVIOUS
<1> DEFINE m == Len(pools)
           q == pools[m - 1]
           r == pools[m]
           both == Pool(q.sum + r.sum, q.count + r.count)
<1>1. /\ input' = input /\ k' = k /\ pc' = pc /\ pc = "merge"
      /\ m > 1 /\ q.sum * r.count < r.sum * q.count
      /\ pools' = Append(SubSeq(pools, 1, m - 2), both)
  BY DEF Merge, OutOfOrder, LastPool, Below
<1>2. input \in Inputs /\ k \in 1..(t + 1) /\ pools \in Seq(PoolSet)
  BY DEF PoolsInv
<1>3. PICK v : Ends(pools, v, k - 1)
  BY DEF PoolsInv
<1>4. t \in Nat /\ t' = t /\ ge' = ge
  BY <1>1, <1>2, InputIs DEF t, ge, phrasings
<1>5. m \in Nat /\ m - 1 \in 1..m /\ m \in 1..m /\ m - 2 \in 0..m
  BY <1>1, <1>2
<1>6. q \in PoolSet /\ r \in PoolSet
  BY <1>2, <1>5
<1>7. v \in [0..m -> 0..t] /\ v[0] = 0 /\ v[m] = k - 1
      /\ \A i \in 1..m : v[i - 1] < v[i] /\ Spans(pools[i], v[i - 1], v[i])
  BY <1>3 DEF Ends
<1>8. v[m - 2] \in 0..t /\ v[m - 1] \in 0..t /\ v[m] \in 0..t
  <2> HIDE DEF m
  <2>1. m - 2 \in 0..m /\ m - 1 \in 0..m /\ m \in 0..m
    BY <1>5
  <2>2. \A x \in 0..m : v[x] \in 0..t
    BY <1>7
  <2> QED BY <2>1, <2>2
<1>9. Spans(q, v[m - 2], v[m - 1]) /\ Spans(r, v[m - 1], v[m]) /\ v[m - 2] < v[m - 1] /\ v[m - 1] < v[m]
  <2>1. (m - 1) - 1 = m - 2
    BY <1>5
  <2> QED BY <1>5, <1>7, <2>1
<1>10. Falls(r, q)
  <2>1. q.sum \in Nat /\ r.count \in Nat /\ r.sum \in Nat /\ q.count \in Nat
    BY <1>6 DEF PoolSet
  <2>2. q.sum * r.count \in Int /\ r.sum * q.count \in Int
    BY <2>1
  <2> QED BY <1>1, <2>2 DEF Falls
<1> HIDE DEF q, r
<1>11. both \in PoolSet /\ Spans(both, v[m - 2], v[m])
  BY <1>2, <1>6, <1>8, <1>9, <1>10, SpansTwo
<1> HIDE DEF both
<1>12. /\ SubSeq(pools, 1, m - 2) \in Seq(PoolSet) /\ Len(SubSeq(pools, 1, m - 2)) = m - 2
       /\ \A i \in 1..(m - 2) : SubSeq(pools, 1, m - 2)[i] = pools[i]
  BY <1>2, <1>5, SubSeqIsStart
<1>13. /\ pools' \in Seq(PoolSet) /\ Len(pools') = m - 1
       /\ \A i \in 1..(m - 2) : pools'[i] = pools[i]
       /\ pools'[m - 1] = both
  <2> DEFINE s == SubSeq(pools, 1, m - 2)
  <2>1. s \in Seq(PoolSet) /\ Len(s) = m - 2 /\ pools' = Append(s, both)
        /\ \A i \in 1..(m - 2) : s[i] = pools[i]
    BY <1>1, <1>12
  <2> HIDE DEF s, m
  <2>2. (m - 2) + 1 = m - 1
    BY <1>5
  <2>3. Len(pools') = m - 1 /\ pools' \in Seq(PoolSet) /\ pools'[m - 1] = both /\ \A i \in 1..(m - 2) : pools'[i] = s[i]
    BY <1>5, <1>11, <2>1, <2>2
  <2> QED BY <2>1, <2>3
<1> DEFINE w == [i \in 0..(m - 1) |-> IF i = m - 1 THEN v[m] ELSE v[i]]
<1>14. w \in [0..(m - 1) -> 0..t] /\ w[0] = 0 /\ w[m - 1] = k - 1
  <2>1. m \in Nat /\ m > 1
    BY <1>1, <1>5
  <2>2. v[m] \in 0..t /\ v[m] = k - 1 /\ v[0] = 0 /\ \A x \in 0..m : v[x] \in 0..t
    BY <1>7, <1>8
  <2> HIDE DEF m
  <2>3. 0 # m - 1 /\ 0 \in 0..(m - 1) /\ m - 1 \in 0..(m - 1) /\ \A i \in 0..(m - 1) : i \in 0..m
    BY <2>1
  <2> QED BY <2>2, <2>3
<1>15. ASSUME NEW i \in 1..(m - 1) PROVE w[i - 1] < w[i] /\ Spans(pools'[i], w[i - 1], w[i])
  <2>1. CASE i \in 1..(m - 2)
    <3>1. w[i - 1] = v[i - 1] /\ w[i] = v[i] /\ i \in 1..m
      BY <1>5, <2>1
    <3> QED BY <1>7, <1>13, <2>1, <3>1
  <2>2. CASE i = m - 1
    <3>1. w[i - 1] = v[m - 2] /\ w[i] = v[m]
      BY <1>5, <2>2
    <3>2. v[m - 2] < v[m]
      BY <1>4, <1>8, <1>9
    <3> QED BY <1>11, <1>13, <2>2, <3>1, <3>2
  <2> QED BY <1>5, <2>1, <2>2
<1> HIDE DEF w
<1>16. Ends(pools', w, k - 1)
  BY <1>13, <1>14, <1>15 DEF Ends
<1>17. (\E u : Ends(pools, u, k - 1))'
  <2>1. \A u : Ends(pools, u, k - 1)' <=> Ends(pools', u, k - 1)
    BY <1>1, <1>4 DEF Ends, Spans, Line, Cum
  <2> QED BY <1>16, <2>1
<1>18. ASSUME NEW i \in 1..(Len(pools') - 1)
       PROVE  Falls(pools'[i], pools'[i + 1]) \/ i + 1 = Len(pools')
  <2>1. CASE i + 1 = m - 1
    BY <1>13, <2>1
  <2>2. CASE i + 1 # m - 1
    <3>1. i \in 1..(m - 1) /\ i \in 1..(m - 2) /\ i + 1 \in 1..(m - 2) /\ i + 1 # m
      BY <1>5, <1>13, <2>2
    <3>2. Falls(pools[i], pools[i + 1])
      BY <3>1 DEF PoolsInv
    <3> QED BY <1>13, <3>1, <3>2
  <2> QED BY <2>1, <2>2
<1>19. Len(pools') > 0
  BY <1>1, <1>5, <1>13
<1> QED BY <1>1, <1>2, <1>4, <1>13, <1>17, <1>18, <1>19 DEF PoolsInv, Falls

\* Every step of rate's loop keeps the invariant.
LEMMA RateStep == PoolsInv /\ [Next]_vars => PoolsInv'
<1> SUFFICES ASSUME PoolsInv, [Next]_vars PROVE PoolsInv'
  OBVIOUS
<1>1. CASE Push
  BY <1>1, PushKeeps
<1>2. CASE Merge
  BY <1>2, MergeKeeps
<1>3. CASE StopMerging \/ Finish \/ UNCHANGED vars
  <2>1. input' = input /\ k' = k /\ pools' = pools
    BY <1>3 DEF StopMerging, Finish, vars
  <2>2. input \in Inputs /\ k \in 1..(t + 1) /\ pools \in Seq(PoolSet) /\ t' = t /\ ge' = ge
    BY <2>1 DEF PoolsInv, t, ge, phrasings
  <2>3. (\E u : Ends(pools, u, k - 1))'
    <3>1. PICK v : Ends(pools, v, k - 1)
      BY DEF PoolsInv
    <3>2. Ends(pools, v, k - 1)' <=> Ends(pools, v, k - 1)
      BY <2>1, <2>2 DEF Ends, Spans, Line, Cum
    <3> QED BY <3>1, <3>2
  <2>4. pc' \in {"push", "merge", "done"} /\ (pc' = "merge" => pc = "merge") /\ (pc' = "done" => k = t + 1)
    <3>1. t \in Nat
      BY <2>2, InputIs
    <3>2. CASE StopMerging
      BY <3>2 DEF StopMerging
    <3>3. CASE Finish
      BY <2>2, <3>1, <3>3 DEF Finish
    <3>4. CASE UNCHANGED vars
      BY <3>4 DEF vars, PoolsInv
    <3> QED BY <1>3, <3>2, <3>3, <3>4
  <2>5. ASSUME NEW i \in 1..(Len(pools) - 1)
        PROVE  Falls(pools[i], pools[i + 1]) \/ (pc' = "merge" /\ i + 1 = Len(pools))
    <3>1. Falls(pools[i], pools[i + 1]) \/ (pc = "merge" /\ i + 1 = Len(pools))
      BY DEF PoolsInv
    <3>2. CASE pc' # "merge" /\ pc = "merge" /\ i + 1 = Len(pools)
      <4>1. ~OutOfOrder
        BY <1>3, <3>2 DEF StopMerging, Finish, vars
      <4>2. Len(pools) \in Nat /\ i = Len(pools) - 1 /\ Len(pools) > 1
        BY <2>2, <3>2
      <4>3. ~(pools[i].sum * pools[i + 1].count < pools[i + 1].sum * pools[i].count)
        BY <3>2, <4>1, <4>2 DEF OutOfOrder, LastPool, Below
      <4>4. pools[i] \in PoolSet /\ pools[i + 1] \in PoolSet
        BY <2>2, <4>2
      <4>5. /\ pools[i].sum \in Nat /\ pools[i + 1].count \in Nat
            /\ pools[i + 1].sum \in Nat /\ pools[i].count \in Nat
        BY <4>4 DEF PoolSet
      <4>6. pools[i].sum * pools[i + 1].count \in Int /\ pools[i + 1].sum * pools[i].count \in Int
        BY <4>5
      <4> QED BY <4>3, <4>6 DEF Falls
    <3> QED BY <3>1, <3>2
  <2>6. pc' = "merge" => Len(pools) > 0
    BY <2>4 DEF PoolsInv
  <2> QED BY <2>1, <2>2, <2>3, <2>4, <2>5, <2>6 DEF PoolsInv, Falls
<1> QED BY <1>1, <1>2, <1>3 DEF Next

\* The pools' invariant holds of every state.
LEMMA PoolsAlways == Spec => []PoolsInv
<1> QED BY InitPools, RateStep, PTL DEF Spec

-----------------------------------------------------------------------------
(* Sums between two places, and the largest of a few numbers *)

\* A sum of terms between two bounds is between as many times the bounds.
LEMMA SumsBetween ==
  ASSUME NEW n \in Nat, NEW s \in [1..n -> Nat], NEW a \in 0..n, NEW b \in 0..n, a <= b,
         NEW low \in Int, NEW high \in Int, \A i \in (a + 1)..b : low <= s[i] /\ s[i] <= high
  PROVE  (b - a) * low <= SumTo(s, b) - SumTo(s, a) /\ SumTo(s, b) - SumTo(s, a) <= (b - a) * high
<1> DEFINE T == {l \in Nat : a + l <= b => /\ l * low <= SumTo(s, a + l) - SumTo(s, a)
                                           /\ SumTo(s, a + l) - SumTo(s, a) <= l * high}
<1>1. /\ \A i \in 0..n : SumTo(s, i) \in Nat
      /\ \A i \in 1..n : SumTo(s, i) = SumTo(s, i - 1) + s[i]
  BY Sums
<1>2. 0 \in T
  BY <1>1
<1>3. ASSUME NEW l \in Nat, l \in T PROVE l + 1 \in T
  <2> SUFFICES ASSUME a + (l + 1) <= b
               PROVE  /\ (l + 1) * low <= SumTo(s, a + (l + 1)) - SumTo(s, a)
                      /\ SumTo(s, a + (l + 1)) - SumTo(s, a) <= (l + 1) * high
    OBVIOUS
  <2> DEFINE x == a + (l + 1)
  <2>1. x \in 1..n /\ x - 1 = a + l /\ x \in (a + 1)..b /\ a + l <= b /\ a + l \in 0..n
    OBVIOUS
  <2>2. l * low <= SumTo(s, a + l) - SumTo(s, a) /\ SumTo(s, a + l) - SumTo(s, a) <= l * high
    BY <1>3, <2>1
  <2> HIDE DEF x
  <2>3. SumTo(s, x) = SumTo(s, a + l) + s[x] /\ low <= s[x] /\ s[x] <= high /\ s[x] \in Nat
    BY <1>1, <2>1
  <2>4. (l + 1) * low = l * low + low /\ (l + 1) * high = l * high + high /\ l * low \in Int /\ l * high \in Int
    OBVIOUS
  <2>5. SumTo(s, a) \in Nat /\ SumTo(s, a + l) \in Nat
    BY <1>1, <2>1
  <2>6. low \in Int /\ high \in Int
    OBVIOUS
  <2>7. \A from, to, new \in Nat : \A u, v, g, h \in Int :
          u <= to - from /\ to - from <= v /\ g <= new /\ new <= h =>
            u + g <= (to + new) - from /\ (to + new) - from <= v + h
    OBVIOUS
  <2>8. /\ l * low + low <= (SumTo(s, a + l) + s[x]) - SumTo(s, a)
        /\ (SumTo(s, a + l) + s[x]) - SumTo(s, a) <= l * high + high
    BY ONLY <2>2, <2>3, <2>4, <2>5, <2>6, <2>7
  <2>9. SumTo(s, a + (l + 1)) = SumTo(s, x)
    BY DEF x
  <2> QED BY ONLY <2>3, <2>4, <2>8, <2>9
<1> HIDE DEF T
<1>4. b - a \in T
  <2>1. b - a \in Nat
    OBVIOUS
  <2> QED BY <1>2, <1>3, <2>1, Induct
<1> QED
  <2>1. a + (b - a) = b
    OBVIOUS
  <2> QED BY <1>4, <2>1 DEF T

\* A finite table has a largest value.
LEMMA LargestOf ==
  ASSUME NEW a \in Nat, NEW b \in Nat, a <= b, NEW f \in [a..b -> Int]
  PROVE  \E m \in a..b : \A l \in a..b : f[l] <= f[m]
<1> DEFINE T == {l \in Nat : a + l <= b => \E m \in a..(a + l) : \A x \in a..(a + l) : f[x] <= f[m]}
<1>1. 0 \in T
  OBVIOUS
<1>2. ASSUME NEW l \in Nat, l \in T PROVE l + 1 \in T
  <2> SUFFICES ASSUME a + (l + 1) <= b
               PROVE  \E m \in a..(a + (l + 1)) : \A x \in a..(a + (l + 1)) : f[x] <= f[m]
    OBVIOUS
  <2>1. PICK m \in a..(a + l) : \A x \in a..(a + l) : f[x] <= f[m]
    BY <1>2
  <2>2. f[m] \in Int /\ f[a + (l + 1)] \in Int /\ \A x \in a..(a + l) : f[x] \in Int
    OBVIOUS
  <2>3. \A x \in a..(a + (l + 1)) : x \in a..(a + l) \/ x = a + (l + 1)
    OBVIOUS
  <2>4. m \in a..(a + (l + 1)) /\ a + (l + 1) \in a..(a + (l + 1))
    OBVIOUS
  <2>5. CASE f[a + (l + 1)] <= f[m]
    BY <2>1, <2>3, <2>4, <2>5
  <2>6. CASE f[m] <= f[a + (l + 1)]
    <3>1. \A x \in a..(a + l) : f[x] <= f[a + (l + 1)]
      BY <2>1, <2>2, <2>6
    <3>2. f[a + (l + 1)] <= f[a + (l + 1)]
      BY <2>2
    <3>3. \A x \in a..(a + (l + 1)) : f[x] <= f[a + (l + 1)]
      BY <2>3, <3>1, <3>2
    <3> QED BY <2>4, <3>3
  <2> QED BY <2>2, <2>5, <2>6
<1> HIDE DEF T
<1>3. b - a \in T
  <2>1. b - a \in Nat
    OBVIOUS
  <2> QED BY <1>1, <1>2, <2>1, Induct
<1> QED
  <2>1. a + (b - a) = b
    OBVIOUS
  <2> QED BY <1>3, <2>1 DEF T

-----------------------------------------------------------------------------
(* The pools when all is merged *)

\* The mean of a pool, over the common denominator.
Level(q) == q.sum * (Factorial \div q.count)

\* Falling from pool to pool is transitive.
LEMMA FallsOn ==
  ASSUME NEW q \in PoolSet, NEW r \in PoolSet, NEW u \in PoolSet, Falls(q, r), Falls(r, u)
  PROVE  Falls(q, u)
<1>1. /\ q.sum \in Nat /\ q.count \in Nat /\ r.sum \in Nat /\ r.count \in Nat /\ r.count > 0
      /\ u.sum \in Nat /\ u.count \in Nat
  BY DEF PoolSet
<1>2. (r.sum * q.count) * u.count <= (q.sum * r.count) * u.count
  <2>1. r.sum * q.count \in Int /\ q.sum * r.count \in Int /\ r.sum * q.count <= q.sum * r.count
    BY <1>1 DEF Falls
  <2> QED BY <1>1, <2>1, Scaled
<1>3. (u.sum * r.count) * q.count <= (r.sum * u.count) * q.count
  <2>1. u.sum * r.count \in Int /\ r.sum * u.count \in Int /\ u.sum * r.count <= r.sum * u.count
    BY <1>1 DEF Falls
  <2> QED BY <1>1, <2>1, Scaled
<1>4. (u.sum * q.count) * r.count <= (q.sum * u.count) * r.count
  <2>1. /\ (r.sum * q.count) * u.count = (r.sum * u.count) * q.count
        /\ (u.sum * r.count) * q.count = (u.sum * q.count) * r.count
        /\ (q.sum * r.count) * u.count = (q.sum * u.count) * r.count
    BY <1>1
  <2>2. /\ (r.sum * u.count) * q.count \in Int /\ (u.sum * q.count) * r.count \in Int
        /\ (q.sum * u.count) * r.count \in Int
    BY <1>1
  <2> QED BY <1>2, <1>3, <2>1, <2>2
<1>5. u.sum * q.count <= q.sum * u.count
  <2>1. u.sum * q.count \in Int /\ q.sum * u.count \in Int
    BY <1>1
  <2> QED BY <1>1, <1>4, <2>1, Cancelled
<1> QED BY <1>5 DEF Falls

\* A pool's level is no lower than that of one it falls to.
LEMMA LevelFalls ==
  ASSUME input \in Inputs, NEW q \in PoolSet, NEW r \in PoolSet, q.count <= t, r.count <= t, Falls(q, r)
  PROVE  Level(r) <= Level(q)
<1>1. t \in Nat
  BY InputIs
<1>2. /\ q.sum \in Nat /\ q.count \in Nat /\ r.sum \in Nat /\ r.count \in Nat
      /\ q.count \in 1..t /\ r.count \in 1..t
  BY <1>1 DEF PoolSet
<1>3. /\ Factorial \in Nat /\ Factorial > 0
      /\ Factorial \div q.count \in Nat /\ (Factorial \div q.count) * q.count = Factorial
      /\ Factorial \div r.count \in Nat /\ (Factorial \div r.count) * r.count = Factorial
  BY <1>1, <1>2, FactorialIs
<1>4. r.sum * q.count <= q.sum * r.count
  BY DEF Falls
<1>5. r.sum * (Factorial \div r.count) <= q.sum * (Factorial \div q.count)
  <2> DEFINE x == Factorial \div r.count
             y == Factorial \div q.count
  <2>1. x \in Nat /\ y \in Nat /\ x * r.count = Factorial /\ y * q.count = Factorial /\ r.sum \in Int /\ q.sum \in Int
    BY <1>2, <1>3
  <2> HIDE DEF x, y
  <2>2. r.sum * x <= q.sum * y
    BY <1>2, <1>3, <1>4, <2>1, SameScale
  <2> QED BY <2>2 DEF x, y
<1> QED BY <1>5 DEF Level

\* What is known of the pools when the last one is merged.
Merged(v, n) ==
  /\ n \in Nat \ {0} /\ Len(pools) = n /\ pools \in Seq(PoolSet)
  /\ v \in [0..n -> 0..t] /\ v[0] = 0 /\ v[n] = t
  /\ \A i \in 1..n : v[i - 1] < v[i] /\ Spans(pools[i], v[i - 1], v[i])
  /\ \A i, j \in 1..n : i <= j => Falls(pools[i], pools[j])

\* Once the loop is done the pools are merged, over all thresholds.
LEMMA DoneIsMerged ==
  ASSUME PoolsInv, pc = "done"
  PROVE  \E v : Merged(v, Len(pools))
<1> DEFINE n == Len(pools)
<1>1. input \in Inputs /\ pools \in Seq(PoolSet) /\ k = t + 1
  BY DEF PoolsInv
<1>2. t \in Nat /\ t # 0 /\ k - 1 = t
  BY <1>1, InputIs
<1>3. PICK v : Ends(pools, v, k - 1)
  BY DEF PoolsInv
<1>4. /\ v \in [0..n -> 0..t] /\ v[0] = 0 /\ v[n] = t
      /\ \A i \in 1..n : v[i - 1] < v[i] /\ Spans(pools[i], v[i - 1], v[i])
  BY <1>2, <1>3 DEF Ends
<1>5. n \in Nat /\ n # 0
  <2>1. n \in Nat
    BY <1>1
  <2>2. n = 0 => t = 0
    BY <1>4
  <2> QED BY <1>2, <2>1, <2>2
<1>6. \A i \in 1..(n - 1) : Falls(pools[i], pools[i + 1])
  BY DEF PoolsInv
<1>7. \A i \in 1..n : pools[i] \in PoolSet
  BY <1>1
<1> HIDE DEF n
<1>8. \A i, j \in 1..n : i <= j => Falls(pools[i], pools[j])
  <2> SUFFICES ASSUME NEW i \in 1..n, NEW j \in 1..n, i <= j PROVE Falls(pools[i], pools[j])
    OBVIOUS
  <2> DEFINE T == {l \in Nat : i + l <= n => Falls(pools[i], pools[i + l])}
  <2>1. 0 \in T
    <3>1. pools[i] \in PoolSet /\ i + 0 = i
      BY <1>7
    <3>2. pools[i].sum * pools[i].count \in Int
      BY <3>1 DEF PoolSet
    <3> QED BY <3>1, <3>2 DEF Falls
  <2>2. ASSUME NEW l \in Nat, l \in T PROVE l + 1 \in T
    <3> SUFFICES ASSUME i + (l + 1) <= n PROVE Falls(pools[i], pools[i + (l + 1)])
      OBVIOUS
    <3>1. i + l \in 1..(n - 1) /\ i + l \in 1..n /\ i + (l + 1) = (i + l) + 1 /\ (i + l) + 1 \in 1..n /\ i + l <= n
      BY <1>5
    <3>2. Falls(pools[i], pools[i + l])
      BY <2>2, <3>1
    <3>3. Falls(pools[i + l], pools[(i + l) + 1])
      BY <1>6, <3>1
    <3>4. pools[i] \in PoolSet /\ pools[i + l] \in PoolSet /\ pools[(i + l) + 1] \in PoolSet
      BY <1>7, <3>1
    <3>5. Falls(pools[i], pools[(i + l) + 1])
      BY <3>2, <3>3, <3>4, FallsOn
    <3> QED BY <3>1, <3>5
  <2> HIDE DEF T
  <2>3. j - i \in T
    <3>1. j - i \in Nat
      OBVIOUS
    <3> QED BY <2>1, <2>2, <3>1, Induct
  <2>4. i + (j - i) = j /\ j <= n
    BY <1>5
  <2> QED BY <2>3, <2>4 DEF T
<1>9. Merged(v, n)
  BY <1>1, <1>4, <1>5, <1>8 DEF Merged, n
<1> QED BY <1>9 DEF n

\* The ends never fall, and every threshold is in a pool.
LEMMA EndsRise ==
  ASSUME input \in Inputs, NEW n, NEW v, Merged(v, n)
  PROVE  /\ \A i, j \in 0..n : i <= j => v[i] <= v[j]
         /\ \A x \in 1..t : \E i \in 1..n : v[i - 1] < x /\ x <= v[i]
<1>1. /\ n \in Nat /\ n > 0 /\ t \in Nat /\ v \in [0..n -> 0..t] /\ v[0] = 0 /\ v[n] = t
      /\ \A i \in 1..n : v[i - 1] < v[i]
  BY InputIs DEF Merged
<1>2. \A x \in 0..n : v[x] \in Nat
  BY <1>1
<1>3. ASSUME NEW i \in 0..n, NEW j \in 0..n, i <= j PROVE v[i] <= v[j]
  <2> DEFINE T == {l \in Nat : i + l <= n => v[i] <= v[i + l]}
  <2>1. 0 \in T
    BY <1>2
  <2>2. ASSUME NEW l \in Nat, l \in T PROVE l + 1 \in T
    <3> SUFFICES ASSUME i + (l + 1) <= n PROVE v[i] <= v[i + (l + 1)]
      OBVIOUS
    <3>1. i + (l + 1) \in 1..n /\ (i + (l + 1)) - 1 = i + l /\ i + l \in 0..n /\ i + l <= n
      BY <1>1
    <3>2. v[i + l] < v[i + (l + 1)] /\ v[i] <= v[i + l]
      BY <1>1, <2>2, <3>1
    <3>3. v[i] \in Nat /\ v[i + l] \in Nat /\ v[i + (l + 1)] \in Nat
      BY <1>2, <3>1
    <3> QED BY <3>2, <3>3
  <2> HIDE DEF T
  <2>3. j - i \in T
    <3>1. i \in Nat /\ j \in Nat
      BY <1>1
    <3>2. j - i \in Nat
      BY <1>3, <3>1
    <3> QED BY <2>1, <2>2, <3>2, Induct
  <2>4. i + (j - i) = j /\ j <= n
    BY <1>1
  <2> QED BY <2>3, <2>4 DEF T
<1>4. ASSUME NEW x \in 1..t PROVE \E i \in 1..n : v[i - 1] < x /\ x <= v[i]
  <2> DEFINE T == {i \in 0..n : x <= v[i]}
  <2>1. n \in T /\ T \in SUBSET Nat /\ T # {}
    <3>1. n \in 0..n /\ x <= v[n] /\ \A i \in 0..n : i \in Nat
      BY <1>1
    <3> QED BY <3>1
  <2>2. PICK i \in T : \A y \in T : ~(y < i)
    <3> HIDE DEF T
    <3> QED BY <2>1, Least
  <2>3. i # 0
    BY <1>1
  <2>4. i \in 1..n /\ i - 1 \in 0..n /\ i - 1 < i /\ i - 1 \notin T
    <3>1. i \in 0..n /\ n \in Nat
      BY <1>1
    <3>2. i \in 1..n /\ i - 1 \in 0..n /\ i - 1 < i
      BY <2>3, <3>1
    <3> HIDE DEF T
    <3> QED BY <2>2, <3>2
  <2>5. ~(x <= v[i - 1]) /\ v[i - 1] \in Nat
    BY <1>2, <2>4
  <2> QED BY <2>4, <2>5
<1> QED BY <1>3, <1>4

-----------------------------------------------------------------------------
(* The pooled answers *)

\* The most that threshold x can be answered.
Most == phrasings * Parts

\* A pool's level is the mean of its thresholds' answers, which none of its starts exceeds.
LEMMA MeanOfPool ==
  ASSUME input \in Inputs, NEW n, NEW v, Merged(v, n), NEW i \in 1..n
  PROVE  /\ v[i - 1] \in Nat /\ v[i] \in Nat /\ v[i - 1] < v[i] /\ v[i] <= t
         /\ Level(pools[i]) \in 0..Scale
         /\ (Cum(v[i]) - Cum(v[i - 1])) * Factorial = Level(pools[i]) * (v[i] - v[i - 1])
         /\ \A x \in v[i - 1]..v[i] :
              (Cum(x) - Cum(v[i - 1])) * Factorial <= Level(pools[i]) * (x - v[i - 1])
<1> DEFINE a == v[i - 1]
           b == v[i]
           s == pools[i].sum
           c == pools[i].count
           r == Factorial \div c
<1>1. t \in Nat /\ phrasings \in Nat /\ Parts \in Nat /\ Factorial \in Nat /\ Factorial > 0
  BY InputIs, FactorialIs
<1>2. n \in Nat /\ v \in [0..n -> 0..t] /\ i \in 0..n /\ i - 1 \in 0..n
  BY DEF Merged
<1>3. a \in 0..t /\ b \in 0..t /\ a < b
  BY <1>2 DEF Merged
<1>4. Spans(pools[i], a, b)
  BY DEF Merged
<1>5. c = b - a /\ s = Cum(b) - Cum(a) /\ \A x \in a..b : (Cum(x) - Cum(a)) * c <= s * (x - a)
  BY <1>4 DEF Spans, Line
<1>6. Level(pools[i]) = s * r
  BY DEF Level
<1> HIDE DEF a, b, s, c
<1>7. a \in Nat /\ b \in Nat /\ c \in 1..t /\ c \in Nat /\ c > 0
  BY <1>1, <1>3, <1>5
<1>8. r \in Nat /\ r * c = Factorial
  BY <1>1, <1>7, FactorialIs
<1> HIDE DEF r
<1>9. Cum(a) \in Nat /\ Cum(b) \in Nat /\ Cum(a) <= Cum(b)
  BY <1>1, <1>3, CumIs
<1>10. s \in Nat
  BY <1>5, <1>9
<1>11. s <= c * Most
  <2>1. Most \in Nat
    BY <1>1 DEF Most
  <2>2. ge \in [1..t -> Nat] /\ \A x \in 1..t : 0 <= ge[x] /\ ge[x] <= Most
    <3>1. \A x \in 1..t : ge[x] \in Nat /\ ge[x] <= Most
      BY CumIs DEF Most
    <3>2. ge \in [1..t -> Nat]
      BY <3>1 DEF ge
    <3> QED BY <3>1, <3>2
  <2>3. \A x \in (a + 1)..b : x \in 1..t
    BY <1>1, <1>3, <1>7
  <2>4. \A x \in (a + 1)..b : 0 <= ge[x] /\ ge[x] <= Most
    BY <2>2, <2>3
  <2>5. a <= b
    BY <1>3, <1>7
  <2>6. SumTo(ge, b) - SumTo(ge, a) <= (b - a) * Most
    <3>1. t \in Nat /\ ge \in [1..t -> Nat] /\ 0 \in Int /\ Most \in Int
      BY <1>1, <2>1, <2>2
    <3>2. (b - a) * 0 <= SumTo(ge, b) - SumTo(ge, a) /\ SumTo(ge, b) - SumTo(ge, a) <= (b - a) * Most
      BY ONLY <1>3, <2>4, <2>5, <3>1, SumsBetween
    <3> QED BY <3>2
  <2> QED BY <1>5, <2>6 DEF Cum
<1>12. s * r <= Scale
  <2>1. s * r <= (c * Most) * r
    <3>1. c * Most \in Int
      BY <1>1, <1>7 DEF Most
    <3> QED BY <1>8, <1>10, <1>11, <3>1, Scaled
  <2>2. (c * Most) * r = Most * (r * c)
    BY <1>1, <1>7, <1>8 DEF Most
  <2>3. Scale = Most * Factorial
    BY <1>1 DEF Scale, Most
  <2> QED BY <1>8, <2>1, <2>2, <2>3
<1>13. s * r \in 0..Scale
  <2>1. s * r \in Nat /\ Scale \in Nat
    BY <1>1, <1>8, <1>10 DEF Scale
  <2> QED BY <1>12, <2>1
<1>14. (Cum(b) - Cum(a)) * Factorial = (s * r) * (b - a)
  <2>1. s * (r * c) = (s * r) * c
    BY <1>7, <1>8, <1>10
  <2> QED BY <1>5, <1>8, <2>1
<1>15. ASSUME NEW x \in a..b PROVE (Cum(x) - Cum(a)) * Factorial <= (s * r) * (x - a)
  <2> DEFINE D == Cum(x) - Cum(a)
             y == x - a
  <2>1. x \in 0..t
    BY <1>1, <1>3, <1>7
  <2>2. Cum(x) \in Nat
    BY <2>1, CumIs
  <2>3. D \in Int /\ y \in Int /\ D * c <= s * y
    BY <1>5, <1>7, <1>9, <2>2
  <2> HIDE DEF D, y
  <2>4. (D * c) * r <= (s * y) * r
    <3>1. D * c \in Int /\ s * y \in Int
      BY <1>7, <1>10, <2>3
    <3> QED BY <1>8, <2>3, <3>1, Scaled
  <2>5. (D * c) * r = D * (r * c) /\ (s * y) * r = (s * r) * y
    BY <1>7, <1>8, <1>10, <2>3
  <2>6. D * Factorial <= (s * r) * y
    BY <1>8, <2>4, <2>5
  <2> QED BY <2>6 DEF D, y
<1>16. b <= t
  BY <1>1, <1>3
<1> QED BY <1>3, <1>6, <1>7, <1>13, <1>14, <1>15, <1>16 DEF a, b

\* The pools' counts add up to where each of them ends.
LEMMA CountsAre ==
  ASSUME input \in Inputs, NEW n, NEW v, Merged(v, n),
         NEW w, w = [i \in DOMAIN pools |-> pools[i].count]
  PROVE  \A i \in 0..n : SumTo(w, i) = v[i]
<1>1. /\ n \in Nat /\ DOMAIN pools = 1..n /\ pools \in Seq(PoolSet) /\ v \in [0..n -> 0..t] /\ v[0] = 0
      /\ \A i \in 1..n : v[i - 1] < v[i] /\ pools[i].count = v[i] - v[i - 1] /\ pools[i] \in PoolSet
  <2>1. n \in Nat /\ Len(pools) = n /\ pools \in Seq(PoolSet) /\ v \in [0..n -> 0..t] /\ v[0] = 0
    BY DEF Merged
  <2>2. \A i \in 1..n : v[i - 1] < v[i] /\ pools[i].count = v[i] - v[i - 1]
    BY DEF Merged, Spans
  <2> QED BY <2>1, <2>2
<1>2. \A i \in 0..n : v[i] \in Nat
  <2>1. t \in Nat
    BY InputIs
  <2> QED BY <1>1, <2>1
<1>3. w \in [1..n -> Nat] /\ \A i \in 1..n : w[i] = v[i] - v[i - 1]
  <2>1. \A i \in 1..n : pools[i].count \in Nat
    BY <1>1 DEF PoolSet
  <2> QED BY <1>1, <2>1
<1>4. /\ SumTo(w, 0) = 0
      /\ \A i \in 1..n : SumTo(w, i) = SumTo(w, i - 1) + w[i]
  BY <1>1, <1>3, Sums
<1> DEFINE T == {i \in Nat : i <= n => SumTo(w, i) = v[i]}
<1>5. 0 \in T
  BY <1>1, <1>4
<1>6. ASSUME NEW i \in Nat, i \in T PROVE i + 1 \in T
  <2> SUFFICES ASSUME i + 1 <= n PROVE SumTo(w, i + 1) = v[i + 1]
    OBVIOUS
  <2>1. i + 1 \in 1..n /\ (i + 1) - 1 = i /\ i \in 0..n /\ i + 1 \in 0..n /\ i <= n
    BY <1>1
  <2>2. SumTo(w, i + 1) = SumTo(w, i) + w[i + 1] /\ w[i + 1] = v[i + 1] - v[i] /\ SumTo(w, i) = v[i]
    BY <1>3, <1>4, <1>6, <2>1
  <2>3. v[i] \in Nat /\ v[i + 1] \in Nat
    BY <1>2, <2>1
  <2> QED BY <2>2, <2>3
<1> HIDE DEF T
<1>7. \A i \in Nat : i \in T
  BY <1>5, <1>6, Induct
<1> QED BY <1>1, <1>7 DEF T

\* Every threshold is given the level of the pool it lies in.
LEMMA PooledIsLevel ==
  ASSUME input \in Inputs, NEW n, NEW v, Merged(v, n), NEW i \in 1..n, NEW j \in 1..t, v[i - 1] < j, j <= v[i]
  PROVE  Pooled[j] = Level(pools[i])
<1> DEFINE w == [l \in DOMAIN pools |-> pools[l].count]
           of(x) == CHOOSE l \in DOMAIN pools : SumTo(w, l - 1) < x /\ x <= SumTo(w, l)
<1>1. Pooled[j] = Clamped(pools[of(j)].sum * (Factorial \div pools[of(j)].count))
  BY DEF Pooled
<1>2. n \in Nat /\ DOMAIN pools = 1..n /\ t \in Nat /\ v \in [0..n -> 0..t]
  <2>1. t \in Nat
    BY InputIs
  <2>2. n \in Nat /\ pools \in Seq(PoolSet) /\ Len(pools) = n /\ v \in [0..n -> 0..t]
    BY DEF Merged
  <2>3. DOMAIN pools = 1..n
    BY <2>2
  <2> QED BY <2>1, <2>2, <2>3
<1>3. \A l \in 0..n : SumTo(w, l) = v[l]
  BY CountsAre
<1> HIDE DEF w
<1>4. \A l \in 1..n : (SumTo(w, l - 1) < j /\ j <= SumTo(w, l)) <=> (v[l - 1] < j /\ j <= v[l])
  <2>1. \A l \in 1..n : l - 1 \in 0..n /\ l \in 0..n
    BY <1>2
  <2> QED BY <1>3, <2>1
<1>5. of(j) \in 1..n /\ v[of(j) - 1] < j /\ j <= v[of(j)]
  <2>1. \E l \in DOMAIN pools : SumTo(w, l - 1) < j /\ j <= SumTo(w, l)
    BY <1>2, <1>4
  <2>2. of(j) \in DOMAIN pools /\ SumTo(w, of(j) - 1) < j /\ j <= SumTo(w, of(j))
    BY <2>1
  <2> HIDE DEF of
  <2> QED BY <1>2, <1>4, <2>2
<1> DEFINE z == of(j)
<1>6. z \in 1..n /\ v[z - 1] < j /\ j <= v[z]
  BY <1>5
<1>7. Pooled[j] = Clamped(Level(pools[z]))
  BY <1>1 DEF Level
<1> HIDE DEF z
<1>8. z = i
  <2>1. \A p1, p2 \in 0..n : p1 <= p2 => v[p1] <= v[p2]
    BY EndsRise
  <2>2. i \in Nat /\ z \in Nat /\ i - 1 \in 0..n /\ i \in 0..n /\ z - 1 \in 0..n /\ z \in 0..n
    BY <1>2, <1>6
  <2>3. v[i] \in Nat /\ v[i - 1] \in Nat /\ v[z] \in Nat /\ v[z - 1] \in Nat
    BY <1>2, <2>2
  <2>4. CASE i < z
    <3>1. v[i] <= v[z - 1]
      BY <2>1, <2>2, <2>4
    <3> QED BY <1>6, <2>3, <3>1
  <2>5. CASE z < i
    <3>1. v[z] <= v[i - 1]
      BY <2>1, <2>2, <2>5
    <3> QED BY <1>6, <2>3, <3>1
  <2> QED BY <2>2, <2>4, <2>5
<1>9. Level(pools[i]) \in 0..Scale
  BY MeanOfPool
<1>10. Scale \in Nat
  BY InputIs, FactorialIs DEF Scale
<1> QED BY <1>7, <1>8, <1>9, <1>10 DEF Clamped

\* The pooled answers never rise, are nowhere under the answers' sum, and give
\* back that sum at the ends of every run of equal ones.
LEMMA PooledIs ==
  ASSUME PoolsInv, pc = "done"
  PROVE  /\ Pooled \in [1..t -> Nat] /\ \A j \in 1..t : Pooled[j] <= Scale
         /\ \A i, j \in 1..t : i <= j => Pooled[j] <= Pooled[i]
         /\ \A x \in 0..t : Cum(x) * Factorial <= SumTo(Pooled, x)
         /\ \A j \in 1..t : \E a, b \in 0..t :
              /\ a < j /\ j <= b
              /\ Cum(a) * Factorial = SumTo(Pooled, a) /\ Cum(b) * Factorial = SumTo(Pooled, b)
              /\ \A y \in (a + 1)..b : Pooled[y] = Pooled[j]
<1> DEFINE n == Len(pools)
           L(i) == Level(pools[i])
           F == Factorial
           g == Pooled
<1>1. PICK v : Merged(v, n)
  BY DoneIsMerged
<1>2. input \in Inputs /\ t \in Nat /\ F \in Nat /\ F > 0 /\ Scale \in Nat
  BY InputIs, FactorialIs DEF PoolsInv, Scale
<1>3. /\ n \in Nat /\ v \in [0..n -> 0..t] /\ v[0] = 0 /\ v[n] = t /\ pools \in Seq(PoolSet)
      /\ \A i, j \in 1..n : i <= j => Falls(pools[i], pools[j])
  BY <1>1 DEF Merged
<1> HIDE DEF n
<1>4. ASSUME NEW i \in 1..n
      PROVE  /\ v[i - 1] \in Nat /\ v[i] \in Nat /\ v[i - 1] < v[i] /\ v[i] <= t
             /\ L(i) \in Nat /\ L(i) <= Scale
             /\ (Cum(v[i]) - Cum(v[i - 1])) * F = L(i) * (v[i] - v[i - 1])
             /\ \A x \in v[i - 1]..v[i] : (Cum(x) - Cum(v[i - 1])) * F <= L(i) * (x - v[i - 1])
  <2>1. /\ v[i - 1] \in Nat /\ v[i] \in Nat /\ v[i - 1] < v[i] /\ v[i] <= t
        /\ L(i) \in 0..Scale
        /\ (Cum(v[i]) - Cum(v[i - 1])) * F = L(i) * (v[i] - v[i - 1])
        /\ \A x \in v[i - 1]..v[i] : (Cum(x) - Cum(v[i - 1])) * F <= L(i) * (x - v[i - 1])
    BY <1>1, <1>2, MeanOfPool
  <2> HIDE DEF F, L
  <2> QED BY <1>2, <2>1
<1>5. ASSUME NEW i \in 1..n, NEW j \in (v[i - 1] + 1)..v[i] PROVE j \in 1..t /\ g[j] = L(i)
  <2>1. j \in 1..t /\ v[i - 1] < j /\ j <= v[i]
    BY <1>2, <1>4
  <2> QED BY <1>1, <1>2, <2>1, PooledIsLevel
<1>6. ASSUME NEW j \in 1..t PROVE \E i \in 1..n : v[i - 1] < j /\ j <= v[i] /\ j \in (v[i - 1] + 1)..v[i] /\ g[j] = L(i)
  <2>1. PICK i \in 1..n : v[i - 1] < j /\ j <= v[i]
    BY <1>1, <1>2, EndsRise
  <2>2. j \in (v[i - 1] + 1)..v[i]
    BY <1>2, <1>4, <2>1
  <2> QED BY <1>5, <2>1, <2>2
<1>7. ASSUME NEW i \in 1..n, NEW j \in 1..n, i <= j PROVE L(j) <= L(i)
  <2>1. pools[i] \in PoolSet /\ pools[j] \in PoolSet /\ Falls(pools[i], pools[j])
    <3>1. n = Len(pools)
      BY DEF n
    <3> QED BY <1>3, <1>7, <3>1
  <2>2. pools[i].count <= t /\ pools[j].count <= t
    <3>1. pools[i].count = v[i] - v[i - 1] /\ pools[j].count = v[j] - v[j - 1]
      BY <1>1 DEF Merged, Spans
    <3>2. /\ v[i - 1] \in Nat /\ v[i] \in Nat /\ v[i] <= t
          /\ v[j - 1] \in Nat /\ v[j] \in Nat /\ v[j] <= t
      BY <1>4
    <3> QED BY <1>2, <3>1, <3>2
  <2> QED BY <1>2, <2>1, <2>2, LevelFalls
<1> HIDE DEF L, F
<1>8. g \in [1..t -> Nat] /\ \A j \in 1..t : g[j] <= Scale
  <2>1. \A j \in 1..t : g[j] \in Nat /\ g[j] <= Scale
    BY <1>4, <1>6
  <2>2. g = [j \in 1..t |-> g[j]]
    BY DEF Pooled
  <2> HIDE DEF g
  <2> QED BY <2>1, <2>2
<1>9. ASSUME NEW i \in 1..t, NEW j \in 1..t, i <= j PROVE g[j] <= g[i]
  <2>1. PICK p1 \in 1..n : v[p1 - 1] < i /\ i <= v[p1] /\ g[i] = L(p1)
    BY <1>6
  <2>2. PICK p2 \in 1..n : v[p2 - 1] < j /\ j <= v[p2] /\ g[j] = L(p2)
    BY <1>6
  <2>3. p1 <= p2
    <3> SUFFICES ASSUME p2 < p1 PROVE FALSE
      BY <1>3
    <3>1. p1 \in Nat /\ p2 \in Nat /\ p2 \in 0..n /\ p1 - 1 \in 0..n /\ p2 <= p1 - 1
      BY <1>3
    <3>2. v[p2] <= v[p1 - 1]
      BY <1>1, <1>2, <3>1, EndsRise
    <3>3. v[p2] \in Nat /\ v[p1 - 1] \in Nat
      BY <1>4
    <3> QED BY <1>2, <1>9, <2>1, <2>2, <3>2, <3>3
  <2> QED BY <1>7, <2>1, <2>2, <2>3
<1> DEFINE S(x) == SumTo(g, x)
<1> HIDE DEF g
<1>10. S(0) = 0 /\ \A x \in 0..t : S(x) \in Nat
  BY <1>2, <1>8, Sums
<1>11. ASSUME NEW i \in 1..n, NEW x \in v[i - 1]..v[i] PROVE S(x) = S(v[i - 1]) + L(i) * (x - v[i - 1])
  <2> DEFINE a == v[i - 1]
             l == L(i)
  <2>1. a \in 0..t /\ x \in 0..t /\ a <= x /\ l \in Int /\ x - a \in Nat
    BY <1>2, <1>4
  <2>2. \A y \in (a + 1)..x : l <= g[y] /\ g[y] <= l
    <3> SUFFICES ASSUME NEW y \in (a + 1)..x PROVE l <= g[y] /\ g[y] <= l
      OBVIOUS
    <3>1. y \in (v[i - 1] + 1)..v[i]
      BY <1>4
    <3>2. g[y] = l
      BY <1>5, <3>1
    <3> QED BY <2>1, <3>2
  <2> HIDE DEF a, l
  <2>3. (x - a) * l <= SumTo(g, x) - SumTo(g, a) /\ SumTo(g, x) - SumTo(g, a) <= (x - a) * l
    BY ONLY <1>2, <1>8, <2>1, <2>2, SumsBetween
  <2>4. S(x) \in Nat /\ S(a) \in Nat
    BY <1>10, <2>1
  <2>5. (x - a) * l = l * (x - a) /\ l * (x - a) \in Int
    BY <2>1
  <2>6. S(x) = S(a) + l * (x - a)
    BY <2>3, <2>4, <2>5
  <2> QED BY <2>6 DEF a, l
<1> HIDE DEF S
<1>12. \A x \in 0..t : Cum(x) \in Nat /\ Cum(0) = 0
  BY <1>2, CumIs
<1>13. \A i \in 0..n : Cum(v[i]) * F = S(v[i])
  <2> DEFINE T == {i \in Nat : i <= n => Cum(v[i]) * F = S(v[i])}
  <2>1. 0 \in T
    BY <1>2, <1>3, <1>10, <1>12
  <2>2. ASSUME NEW i \in Nat, i \in T PROVE i + 1 \in T
    <3> SUFFICES ASSUME i + 1 <= n PROVE Cum(v[i + 1]) * F = S(v[i + 1])
      OBVIOUS
    <3>1. i + 1 \in 1..n /\ (i + 1) - 1 = i /\ i <= n
      BY <1>3
    <3>2. Cum(v[i]) * F = S(v[i])
      BY <2>2, <3>1
    <3>3. /\ v[i] \in Nat /\ v[i + 1] \in Nat /\ v[i] < v[i + 1] /\ v[i + 1] <= t /\ L(i + 1) \in Nat
          /\ (Cum(v[i + 1]) - Cum(v[i])) * F = L(i + 1) * (v[i + 1] - v[i])
      BY <1>4, <3>1
    <3>4. S(v[i + 1]) = S(v[i]) + L(i + 1) * (v[i + 1] - v[i])
      <4>1. v[i + 1] \in v[i]..v[i + 1]
        BY <3>3
      <4> QED BY <1>11, <3>1, <4>1
    <3>5. Cum(v[i]) \in Nat /\ Cum(v[i + 1]) \in Nat
      BY <1>2, <1>12, <3>3
    <3>6. (Cum(v[i + 1]) - Cum(v[i])) * F = Cum(v[i + 1]) * F - Cum(v[i]) * F
          /\ Cum(v[i + 1]) * F \in Int /\ Cum(v[i]) * F \in Int
      BY <1>2, <3>5
    <3> QED BY <3>2, <3>3, <3>4, <3>6
  <2> HIDE DEF T
  <2>3. \A i \in Nat : i \in T
    BY <2>1, <2>2, Induct
  <2> QED BY <1>3, <2>3 DEF T
<1>14. ASSUME NEW x \in 0..t PROVE Cum(x) * F <= S(x)
  <2>1. CASE x = 0
    BY <1>2, <1>10, <1>12, <2>1
  <2>2. CASE x # 0
    <3>1. x \in 1..t /\ x \in Nat
      BY <1>2, <2>2
    <3>2. PICK i \in 1..n : v[i - 1] < x /\ x <= v[i]
      BY <1>6, <3>1
    <3>3. /\ v[i - 1] \in Nat /\ v[i] \in Nat /\ v[i] <= t /\ L(i) \in Nat /\ x \in v[i - 1]..v[i]
          /\ i - 1 \in 0..n /\ v[i - 1] \in 0..t
      BY <1>2, <1>3, <1>4, <3>1, <3>2
    <3>4. (Cum(x) - Cum(v[i - 1])) * F <= L(i) * (x - v[i - 1])
      BY <1>4, <3>3
    <3>5. S(x) = S(v[i - 1]) + L(i) * (x - v[i - 1])
      BY <1>11, <3>3
    <3>6. Cum(v[i - 1]) * F = S(v[i - 1])
      BY <1>13, <3>3
    <3>7. Cum(x) \in Nat /\ Cum(v[i - 1]) \in Nat
      BY <1>12, <3>3
    <3>8. (Cum(x) - Cum(v[i - 1])) * F = Cum(x) * F - Cum(v[i - 1]) * F
          /\ Cum(x) * F \in Int /\ Cum(v[i - 1]) * F \in Int /\ L(i) * (x - v[i - 1]) \in Int
      BY <1>2, <3>1, <3>3, <3>7
    <3> QED BY <3>4, <3>5, <3>6, <3>8
  <2> QED BY <2>1, <2>2
<1>15. ASSUME NEW j \in 1..t
       PROVE  \E a, b \in 0..t :
                /\ a < j /\ j <= b
                /\ Cum(a) * F = S(a) /\ Cum(b) * F = S(b)
                /\ \A y \in (a + 1)..b : g[y] = g[j]
  <2>1. PICK i \in 1..n : v[i - 1] < j /\ j <= v[i] /\ g[j] = L(i)
    BY <1>6
  <2>2. v[i - 1] \in 0..t /\ v[i] \in 0..t /\ i - 1 \in 0..n /\ i \in 0..n
    BY <1>3
  <2>3. Cum(v[i - 1]) * F = S(v[i - 1]) /\ Cum(v[i]) * F = S(v[i])
    BY <1>13, <2>2
  <2>4. \A y \in (v[i - 1] + 1)..v[i] : g[y] = g[j]
    BY <1>5, <2>1
  <2> QED BY <2>1, <2>2, <2>3, <2>4
<1> QED BY <1>8, <1>9, <1>14, <1>15 DEF F, g, S

-----------------------------------------------------------------------------
(* The nearest non-increasing sequence *)

\* The largest mean from i to some threshold not before j.
LargestMean(i, j) == CHOOSE m \in {Mean(i, l) : l \in j..t} : \A l \in j..t : Mean(i, l) <= m

\* The largest mean of the runs from i that reach j is one of them.
LEMMA LargestMeanIs ==
  ASSUME input \in Inputs, NEW j \in 1..t, NEW i \in 1..j
  PROVE  /\ \A l \in j..t : Mean(i, l) \in Int /\ Mean(i, l) <= LargestMean(i, j)
         /\ \E l \in j..t : LargestMean(i, j) = Mean(i, l)
<1>1. t \in Nat /\ j \in Nat /\ i \in Nat /\ j <= t /\ Factorial \in Nat
  <2>1. t \in Nat
    BY InputIs
  <2> QED BY <2>1, FactorialIs
<1>2. ASSUME NEW l \in j..t PROVE Mean(i, l) \in Int
  <2>1. l \in 0..t /\ i - 1 \in 0..t /\ l - i + 1 \in 1..t
    BY <1>1
  <2>2. Cum(l) \in Nat /\ Cum(i - 1) \in Nat /\ Factorial \div (l - i + 1) \in Nat
    BY <1>1, <2>1, CumIs, FactorialIs
  <2> DEFINE r == Factorial \div (l - i + 1)
  <2>3. Mean(i, l) = (Cum(l) - Cum(i - 1)) * r /\ r \in Nat
    BY <2>2 DEF Mean, Cum
  <2> HIDE DEF r
  <2> QED BY <2>2, <2>3
<1> DEFINE f == [l \in j..t |-> Mean(i, l)]
<1>3. f \in [j..t -> Int]
  BY <1>2
<1>4. \E m \in j..t : \A l \in j..t : f[l] <= f[m]
  <2> HIDE DEF f
  <2> QED BY <1>1, <1>3, LargestOf
<1>5. PICK m \in j..t : \A l \in j..t : Mean(i, l) <= Mean(i, m)
  BY <1>4
<1> DEFINE S == {Mean(i, l) : l \in j..t}
<1>6. Mean(i, m) \in S /\ \A x \in S : \E l \in j..t : x = Mean(i, l)
  BY <1>5
<1>7. LargestMean(i, j) \in S /\ \A l \in j..t : Mean(i, l) <= LargestMean(i, j)
  <2>1. LargestMean(i, j) = CHOOSE x \in S : \A l \in j..t : Mean(i, l) <= x
    BY DEF LargestMean
  <2> HIDE DEF S
  <2> QED BY <1>5, <1>6, <2>1
<1> QED BY <1>2, <1>6, <1>7

\* Means from a place where the sums agree, or to one, on the level of the run
\* between two such places.
LEMMA MeansOfRun ==
  ASSUME PoolsInv, pc = "done", NEW j \in 1..t, NEW a \in 0..t, NEW b \in 0..t, a < j, j <= b,
         Cum(a) * Factorial = SumTo(Pooled, a), Cum(b) * Factorial = SumTo(Pooled, b),
         \A y \in (a + 1)..b : Pooled[y] = Pooled[j]
  PROVE  /\ \A l \in j..t : Mean(a + 1, l) <= Pooled[j]
         /\ \A i \in 1..j : Pooled[j] <= Mean(i, b)
<1> DEFINE F == Factorial
           g == Pooled
<1>1. input \in Inputs /\ t \in Nat /\ F \in Nat /\ F > 0
      /\ \A c \in 1..t : F \div c \in Nat /\ (F \div c) * c = F
  BY InputIs, FactorialIs DEF PoolsInv
<1>2. /\ g \in [1..t -> Nat] /\ \A p1, p2 \in 1..t : p1 <= p2 => g[p2] <= g[p1]
      /\ \A x \in 0..t : Cum(x) * F <= SumTo(g, x)
  BY PooledIs
<1>3. Cum(a) * F = SumTo(g, a) /\ Cum(b) * F = SumTo(g, b)
  OBVIOUS
<1>4. \A x \in 0..t : Cum(x) \in Nat /\ SumTo(g, x) \in Nat
  BY <1>1, <1>2, CumIs, Sums
<1>5. g[a + 1] = g[j] /\ g[b] = g[j] /\ g[j] \in Nat
  <2>1. a + 1 \in (a + 1)..b /\ b \in (a + 1)..b
    BY <1>1
  <2> QED BY <1>2, <2>1
<1>6. a \in Nat /\ b \in Nat /\ j \in Nat /\ b <= t
  BY <1>1
<1> HIDE DEF F, g
<1>7. ASSUME NEW l \in j..t PROVE Mean(a + 1, l) <= g[j]
  <2> DEFINE d == l - a
             D == Cum(l) - Cum(a)
             r == F \div d
  <2>1. l \in 0..t /\ d \in 1..t /\ d \in Nat /\ d > 0 /\ l - (a + 1) + 1 = d /\ (a + 1) - 1 = a /\ a <= l
    BY <1>1, <1>6
  <2>2. D \in Int /\ r \in Nat /\ r * d = F
    <3>1. Cum(l) \in Nat /\ Cum(a) \in Nat
      BY <1>4, <2>1
    <3>2. D \in Int
      BY <3>1
    <3> HIDE DEF d
    <3>3. r \in Nat /\ r * d = F
      BY <1>1, <2>1
    <3> QED BY <3>2, <3>3
  <2>3. Mean(a + 1, l) = D * r
    BY <2>1 DEF Mean, Cum, F
  <2>4. \A y \in (a + 1)..l : 0 <= g[y] /\ g[y] <= g[j]
    <3> SUFFICES ASSUME NEW y \in (a + 1)..l PROVE 0 <= g[y] /\ g[y] <= g[j]
      OBVIOUS
    <3>1. y \in 1..t /\ a + 1 \in 1..t /\ a + 1 <= y
      BY <1>1, <1>6
    <3>2. g[y] <= g[a + 1] /\ g[y] \in Nat
      BY <1>2, <3>1
    <3> QED BY <1>5, <3>2
  <2>5. SumTo(g, l) - SumTo(g, a) <= d * g[j]
    <3>1. 0 \in Int /\ g[j] \in Int
      BY <1>5
    <3>2. (l - a) * 0 <= SumTo(g, l) - SumTo(g, a) /\ SumTo(g, l) - SumTo(g, a) <= (l - a) * g[j]
      BY ONLY <1>1, <1>2, <2>1, <2>4, <3>1, SumsBetween
    <3> QED BY <3>2
  <2>6. D * F <= d * g[j]
    <3>1. Cum(l) * F <= SumTo(g, l)
      BY <1>2, <2>1
    <3>2. Cum(l) \in Nat /\ Cum(a) \in Nat /\ SumTo(g, l) \in Nat /\ SumTo(g, a) \in Nat
      BY <1>4, <2>1
    <3>3. D * F = Cum(l) * F - Cum(a) * F /\ Cum(l) * F \in Int /\ Cum(a) * F \in Int
      BY <1>1, <3>2
    <3>4. d * g[j] \in Int
      BY <1>5, <2>1
    <3> HIDE DEF D, d
    <3> QED BY <1>3, <2>5, <3>1, <3>2, <3>3, <3>4
  <2> HIDE DEF d, D, r
  <2>7. (D * r) * d <= g[j] * d
    <3>1. (D * r) * d = D * (r * d) /\ d * g[j] = g[j] * d
      BY <1>5, <2>1, <2>2
    <3> QED BY <2>2, <2>6, <3>1
  <2>8. D * r <= g[j]
    <3>1. D * r \in Int /\ g[j] \in Int
      BY <1>5, <2>2
    <3> QED BY <2>1, <2>7, <3>1, Cancelled
  <2> QED BY <2>3, <2>8
<1>8. ASSUME NEW i \in 1..j PROVE g[j] <= Mean(i, b)
  <2> DEFINE d == b - i + 1
             c == i - 1
             D == Cum(b) - Cum(c)
             r == F \div d
  <2>1. /\ i \in Nat /\ c \in 0..t /\ c \in Nat /\ d \in 1..t /\ d \in Nat /\ d > 0
        /\ d = b - c /\ c <= b
    BY <1>1, <1>6
  <2>2. D \in Int /\ r \in Nat /\ r * d = F
    <3>1. Cum(b) \in Nat /\ Cum(c) \in Nat
      BY <1>4, <2>1
    <3>2. D \in Int
      BY <3>1
    <3> HIDE DEF d
    <3>3. r \in Nat /\ r * d = F
      BY <1>1, <2>1
    <3> QED BY <3>2, <3>3
  <2>3. Mean(i, b) = D * r
    BY DEF Mean, Cum, F
  <2>4. \A y \in (c + 1)..b : g[j] <= g[y] /\ g[y] <= g[1]
    <3> SUFFICES ASSUME NEW y \in (c + 1)..b PROVE g[j] <= g[y] /\ g[y] <= g[1]
      OBVIOUS
    <3>1. y \in 1..t /\ b \in 1..t /\ y <= b /\ 1 \in 1..t /\ 1 <= y
      BY <1>1, <1>6, <2>1
    <3>2. g[b] <= g[y] /\ g[y] <= g[1]
      BY <1>2, <3>1
    <3> QED BY <1>5, <3>2
  <2>5. d * g[j] <= SumTo(g, b) - SumTo(g, c)
    <3>1. g[1] \in Int /\ g[j] \in Int
      <4>1. 1 \in 1..t
        BY <1>1
      <4> QED BY <1>2, <1>5, <4>1
    <3>2. (b - c) * g[j] <= SumTo(g, b) - SumTo(g, c) /\ SumTo(g, b) - SumTo(g, c) <= (b - c) * g[1]
      <4> HIDE DEF c, d
      <4> QED BY ONLY <1>1, <1>2, <2>1, <2>4, <3>1, SumsBetween
    <3> HIDE DEF c, d
    <3> QED BY <2>1, <3>2
  <2>6. d * g[j] <= D * F
    <3>1. Cum(c) * F <= SumTo(g, c)
      BY <1>2, <2>1
    <3>2. Cum(b) \in Nat /\ Cum(c) \in Nat /\ SumTo(g, b) \in Nat /\ SumTo(g, c) \in Nat
      BY <1>4, <2>1
    <3>3. D * F = Cum(b) * F - Cum(c) * F /\ Cum(b) * F \in Int /\ Cum(c) * F \in Int
      BY <1>1, <3>2
    <3>4. d * g[j] \in Int
      BY <1>5, <2>1
    <3> HIDE DEF D, d, c
    <3> QED BY <1>3, <2>5, <3>1, <3>2, <3>3, <3>4
  <2> HIDE DEF d, D, r, c
  <2>7. g[j] * d <= (D * r) * d
    <3>1. (D * r) * d = D * (r * d) /\ d * g[j] = g[j] * d
      BY <1>5, <2>1, <2>2
    <3> QED BY <2>2, <2>6, <3>1
  <2>8. g[j] <= D * r
    <3>1. D * r \in Int /\ g[j] \in Int
      BY <1>5, <2>2
    <3> QED BY <2>1, <2>7, <3>1, Cancelled
  <2> QED BY <2>3, <2>8
<1> QED BY <1>7, <1>8 DEF g

\* The pools are the isotonic fit, by its definition with largest and least means.
LEMMA PoolsAreFit == PoolsInv => IsIsotonicFit
<1> SUFFICES ASSUME PoolsInv, pc = "done", NEW j \in 1..t
             PROVE  /\ \E i \in 1..j : Pooled[j] = LargestMean(i, j)
                    /\ \A i \in 1..j : Pooled[j] <= LargestMean(i, j)
  BY DEF IsIsotonicFit, LargestMean
<1>1. input \in Inputs /\ t \in Nat
  BY InputIs DEF PoolsInv
<1>2. PICK a \in 0..t, b \in 0..t :
        /\ a < j /\ j <= b
        /\ Cum(a) * Factorial = SumTo(Pooled, a) /\ Cum(b) * Factorial = SumTo(Pooled, b)
        /\ \A y \in (a + 1)..b : Pooled[y] = Pooled[j]
  <2>1. \E a, b \in 0..t :
              /\ a < j /\ j <= b
              /\ Cum(a) * Factorial = SumTo(Pooled, a) /\ Cum(b) * Factorial = SumTo(Pooled, b)
              /\ \A y \in (a + 1)..b : Pooled[y] = Pooled[j]
    BY PooledIs
  <2> QED BY <2>1
<1>3. /\ \A l \in j..t : Mean(a + 1, l) <= Pooled[j]
      /\ \A i \in 1..j : Pooled[j] <= Mean(i, b)
  BY <1>2, MeansOfRun
<1>4. Pooled[j] \in Nat /\ b \in j..t /\ a + 1 \in 1..j
  <2>1. Pooled[j] \in Nat
    BY PooledIs
  <2> QED BY <1>1, <1>2, <2>1
<1>5. ASSUME NEW i \in 1..j PROVE Pooled[j] <= LargestMean(i, j)
  <2>1. Pooled[j] <= Mean(i, b) /\ Mean(i, b) <= LargestMean(i, j) /\ Mean(i, b) \in Int
    BY <1>1, <1>3, <1>4, LargestMeanIs
  <2>2. LargestMean(i, j) \in Int
    <3>1. PICK l \in j..t : LargestMean(i, j) = Mean(i, l)
      BY <1>1, LargestMeanIs
    <3> QED BY <1>1, <3>1, LargestMeanIs
  <2> QED BY <1>4, <2>1, <2>2
<1>6. Pooled[j] = LargestMean(a + 1, j)
  <2>1. PICK l \in j..t : LargestMean(a + 1, j) = Mean(a + 1, l)
    BY <1>1, <1>4, LargestMeanIs
  <2>2. Mean(a + 1, l) \in Int
    BY <1>1, <1>4, LargestMeanIs
  <2>3. Mean(a + 1, l) <= Pooled[j]
    BY <1>3
  <2>4. Pooled[j] <= LargestMean(a + 1, j)
    BY <1>4, <1>5
  <2> QED BY <1>4, <2>1, <2>2, <2>3, <2>4
<1> QED BY <1>4, <1>5, <1>6

\* When all is merged the answers pooled are the non-increasing sequence
\* nearest to those given, as the min-max formula has it.
THEOREM PooledIsIsotonicFit == Spec => []IsIsotonicFit
<1>1. PoolsInv => IsIsotonicFit
  BY PoolsAreFit
<1> QED BY <1>1, PoolsAlways, PTL

-----------------------------------------------------------------------------
(* One or two numbers of a sum, and the first largest *)

\* One or two terms of a sum are no more than the sum.
LEMMA PartOfSum ==
  ASSUME NEW n \in Nat, NEW s \in [1..n -> Nat], NEW i \in 1..n
  PROVE  s[i] <= SumTo(s, n) /\ \A j \in 1..n : i # j => s[i] + s[j] <= SumTo(s, n)
<1>1. /\ \A x \in 0..n : SumTo(s, x) \in Nat
      /\ \A x \in 1..n : SumTo(s, x) = SumTo(s, x - 1) + s[x] /\ s[x] \in Nat
  BY Sums
<1>2. \A x, y \in 0..n : x <= y => SumTo(s, x) <= SumTo(s, y)
  BY SumsGrow
<1>3. ASSUME NEW x \in 1..n PROVE s[x] <= SumTo(s, x) /\ SumTo(s, x) <= SumTo(s, n)
  <2>1. x \in 0..n /\ x - 1 \in 0..n /\ n \in 0..n /\ x <= n
    OBVIOUS
  <2> QED BY <1>1, <1>2, <2>1
<1>4. ASSUME NEW x \in 1..n, NEW y \in 1..n, x < y PROVE s[x] + s[y] <= SumTo(s, n)
  <2>1. x \in 0..n /\ y \in 0..n /\ y - 1 \in 0..n /\ x <= y - 1
    BY <1>4
  <2>2. SumTo(s, x) <= SumTo(s, y - 1) /\ SumTo(s, y) = SumTo(s, y - 1) + s[y]
    BY <1>1, <1>2, <2>1
  <2>3. s[x] <= SumTo(s, x) /\ SumTo(s, y) <= SumTo(s, n)
    BY <1>3
  <2>4. /\ s[x] \in Nat /\ s[y] \in Nat /\ SumTo(s, x) \in Nat /\ SumTo(s, y) \in Nat
        /\ SumTo(s, y - 1) \in Nat /\ SumTo(s, n) \in Nat
    BY <1>1, <2>1
  <2> QED BY <2>2, <2>3, <2>4
<1>5. s[i] <= SumTo(s, n)
  <2>1. s[i] \in Nat /\ SumTo(s, i) \in Nat /\ SumTo(s, n) \in Nat
    BY <1>1
  <2> QED BY <1>3, <2>1
<1>6. ASSUME NEW j \in 1..n, i # j PROVE s[i] + s[j] <= SumTo(s, n)
  <2>1. CASE i < j
    BY <1>4, <2>1
  <2>2. CASE j < i
    <3>1. s[j] + s[i] <= SumTo(s, n) /\ s[j] \in Nat /\ s[i] \in Nat
      BY <1>1, <1>4, <2>2
    <3> QED BY <3>1
  <2> QED BY <1>6, <2>1, <2>2
<1> QED BY <1>5, <1>6

\* A sum with one term that is not zero is that term.
LEMMA OneOfSum ==
  ASSUME NEW n \in Nat, NEW s \in [1..n -> Nat], NEW i \in 1..n, \A j \in 1..n : j # i => s[j] = 0
  PROVE  SumTo(s, n) = s[i]
<1>1. i \in Nat /\ i - 1 \in 0..n /\ 0 \in 0..n /\ i \in 0..n /\ n \in 0..n /\ 0 <= i - 1 /\ i <= n
      /\ 0 \in Int
  OBVIOUS
<1>2. SumTo(s, i - 1) - SumTo(s, 0) = 0
  <2>1. \A x \in (0 + 1)..(i - 1) : 0 <= s[x] /\ s[x] <= 0
    OBVIOUS
  <2>2. /\ ((i - 1) - 0) * 0 <= SumTo(s, i - 1) - SumTo(s, 0)
        /\ SumTo(s, i - 1) - SumTo(s, 0) <= ((i - 1) - 0) * 0
    BY <1>1, <2>1, SumsBetween
  <2>3. SumTo(s, i - 1) \in Nat /\ SumTo(s, 0) \in Nat
    BY <1>1, Sums
  <2> QED BY <1>1, <2>2, <2>3
<1>3. SumTo(s, n) - SumTo(s, i) = 0
  <2>1. \A x \in (i + 1)..n : 0 <= s[x] /\ s[x] <= 0
    OBVIOUS
  <2>2. (n - i) * 0 <= SumTo(s, n) - SumTo(s, i) /\ SumTo(s, n) - SumTo(s, i) <= (n - i) * 0
    BY <1>1, <2>1, SumsBetween
  <2>3. SumTo(s, n) \in Nat /\ SumTo(s, i) \in Nat
    BY <1>1, Sums
  <2> QED BY <1>1, <2>2, <2>3
<1>4. /\ SumTo(s, 0) = 0 /\ SumTo(s, i) = SumTo(s, i - 1) + s[i] /\ s[i] \in Nat
      /\ SumTo(s, n) \in Nat /\ SumTo(s, i) \in Nat /\ SumTo(s, i - 1) \in Nat
  BY <1>1, Sums
<1> QED BY <1>2, <1>3, <1>4

\* A sum of zeros is zero.
LEMMA NothingSummed ==
  ASSUME NEW n \in Nat, NEW s \in [1..n -> Nat], \A i \in 1..n : s[i] = 0
  PROVE  SumTo(s, n) = 0
<1>1. 0 \in 0..n /\ n \in 0..n /\ 0 <= n /\ 0 \in Int /\ \A x \in (0 + 1)..n : 0 <= s[x] /\ s[x] <= 0
  OBVIOUS
<1>2. (n - 0) * 0 <= SumTo(s, n) - SumTo(s, 0) /\ SumTo(s, n) - SumTo(s, 0) <= (n - 0) * 0
  BY <1>1, SumsBetween
<1>3. SumTo(s, 0) = 0 /\ SumTo(s, n) \in Nat
  BY <1>1, Sums
<1> QED BY <1>2, <1>3

\* A table has a first largest value.
LEMMA FirstLargest ==
  ASSUME NEW n \in Nat, n > 0, NEW f \in [1..n -> Nat]
  PROVE  \E i \in 1..n : (\A j \in 1..n : f[j] <= f[i]) /\ (\A j \in 1..(i - 1) : f[j] < f[i])
<1> DEFINE T == {i \in 1..n : \A j \in 1..n : f[j] <= f[i]}
<1>1. \E m \in 1..n : \A j \in 1..n : f[j] <= f[m]
  <2>1. 1 \in Nat /\ 1 <= n /\ f \in [1..n -> Int]
    OBVIOUS
  <2> QED BY <2>1, LargestOf
<1>2. T \in SUBSET Nat /\ T # {}
  BY <1>1
<1>3. PICK i \in T : \A y \in T : ~(y < i)
  <2> HIDE DEF T
  <2> QED BY <1>2, Least
<1>4. i \in 1..n /\ \A j \in 1..n : f[j] <= f[i]
  OBVIOUS
<1>5. ASSUME NEW j \in 1..(i - 1) PROVE f[j] < f[i]
  <2>1. j \in 1..n /\ j < i /\ f[j] \in Nat /\ f[i] \in Nat
    BY <1>4
  <2>2. j \notin T
    BY <1>3, <2>1
  <2>3. PICK x \in 1..n : ~(f[x] <= f[j])
    BY <2>1, <2>2
  <2>4. f[x] <= f[i] /\ f[x] \in Nat
    BY <1>4
  <2> QED BY <2>1, <2>3, <2>4
<1> QED BY <1>4, <1>5

-----------------------------------------------------------------------------
(* The rating *)

\* What is left of the probability from level i on.
Left(i) == IF i = 0 THEN Scale ELSE IF i = input.n THEN 0 ELSE Pooled[i]

\* The probabilities of the levels are the falls between the fitted thresholds.
LEMMA LevelsAre ==
  ASSUME PoolsInv, pc = "done"
  PROVE  /\ input.n \in Nat /\ input.n = t + 1 /\ t \in Nat \ {0} /\ Scale \in Nat \ {0}
         /\ Left(0) = Scale /\ Left(input.n) = 0
         /\ \A i \in 0..input.n : Left(i) \in Nat
         /\ \A i \in 1..t : Left(i) = Pooled[i]
         /\ p \in [1..input.n -> Nat]
         /\ \A i \in 1..input.n : p[i] = Left(i - 1) - Left(i)
<1>1. /\ input \in Inputs /\ input.n \in Nat /\ input.n = t + 1 /\ t \in Nat \ {0}
      /\ Parts \in Nat \ {0} /\ phrasings \in Nat \ {0} /\ Factorial \in Nat \ {0}
  BY InputIs, FactorialIs DEF PoolsInv
<1>2. Scale \in Nat \ {0}
  <2>1. \A x, y, z \in Nat \ {0} : x * y * z \in Nat \ {0}
    <3>1. \A x, y \in Nat \ {0} : x * y \in Nat \ {0}
      OBVIOUS
    <3> QED BY <3>1
  <2> QED BY <1>1, <2>1 DEF Scale
<1>3. Pooled \in [1..t -> Nat] /\ \A i \in 1..t : Pooled[i] <= Scale
  BY PooledIs
<1>4. \A i, j \in 1..t : i <= j => Pooled[j] <= Pooled[i]
  BY PooledIs
<1>5. Left(0) = Scale /\ Left(input.n) = 0 /\ \A i \in 1..t : Left(i) = Pooled[i]
  BY <1>1 DEF Left
<1>6. ASSUME NEW i \in 0..input.n PROVE Left(i) \in Nat
  <2>1. i = 0 \/ i = input.n \/ i \in 1..t
    BY <1>1
  <2> QED BY <1>2, <1>3, <1>5, <2>1
<1>7. ASSUME NEW i \in 1..input.n PROVE Left(i) <= Left(i - 1) /\ p[i] = Left(i - 1) - Left(i)
  <2>1. i - 1 \in 0..input.n /\ i \in 0..input.n
    BY <1>1
  <2>2. Left(i) \in Nat /\ Left(i - 1) \in Nat
    BY <1>6, <2>1
  <2>3. Left(i) <= Left(i - 1)
    <3>1. CASE i = input.n
      BY <1>5, <2>2, <3>1
    <3>2. CASE i # input.n /\ i = 1
      <4>1. i \in 1..t /\ i - 1 = 0
        BY <1>1, <3>2
      <4> QED BY <1>3, <1>5, <4>1
    <3>3. CASE i # input.n /\ i # 1
      <4>1. i \in 1..t /\ i - 1 \in 1..t /\ i - 1 <= i
        BY <1>1, <3>3
      <4> QED BY <1>4, <1>5, <4>1
    <3> QED BY <3>1, <3>2, <3>3
  <2>4. p[i] = LevelAt(i, Pooled)
    BY DEF p
  <2>5. /\ Left(i - 1) = IF i = 1 THEN Scale ELSE Pooled[i - 1]
        /\ Left(i) = IF i = input.n THEN 0 ELSE Pooled[i]
    <3>1. i # 0 /\ i - 1 # input.n /\ (i - 1 = 0) = (i = 1)
      BY <1>1
    <3> QED BY <3>1 DEF Left
  <2>6. LevelAt(i, Pooled) = IF Left(i - 1) - Left(i) < 0 THEN 0 ELSE Left(i - 1) - Left(i)
    BY <2>5 DEF LevelAt
  <2> QED BY <2>2, <2>3, <2>4, <2>6
<1>8. p \in [1..input.n -> Nat]
  <2>1. \A i \in 1..input.n : p[i] \in Nat
    <3> SUFFICES ASSUME NEW i \in 1..input.n PROVE p[i] \in Nat
      OBVIOUS
    <3>1. i - 1 \in 0..input.n /\ i \in 0..input.n
      BY <1>1
    <3>2. Left(i - 1) \in Nat /\ Left(i) \in Nat
      BY <1>6, <3>1
    <3> QED BY <1>7, <3>2
  <2>2. p = [i \in 1..input.n |-> p[i]]
    BY DEF p
  <2> QED BY <2>1, <2>2
<1> QED BY <1>1, <1>2, <1>5, <1>6, <1>7, <1>8

\* The probabilities of the levels add up to one.
LEMMA LevelsSum ==
  ASSUME PoolsInv, pc = "done"
  PROVE  SumTo(p, input.n) = Scale
<1>1. /\ input.n \in Nat /\ Left(0) = Scale /\ Left(input.n) = 0
      /\ \A i \in 0..input.n : Left(i) \in Nat
      /\ p \in [1..input.n -> Nat] /\ \A i \in 1..input.n : p[i] = Left(i - 1) - Left(i)
  BY LevelsAre
<1>2. SumTo(p, 0) = 0 /\ \A i \in 1..input.n : SumTo(p, i) = SumTo(p, i - 1) + p[i]
  BY <1>1, Sums
<1> DEFINE T == {i \in Nat : i <= input.n => SumTo(p, i) = Scale - Left(i)}
<1>3. 0 \in T
  <2>1. Scale \in Nat
    BY LevelsAre
  <2> QED BY <1>1, <1>2, <2>1
<1>4. ASSUME NEW i \in Nat, i \in T PROVE i + 1 \in T
  <2> SUFFICES ASSUME i + 1 <= input.n PROVE SumTo(p, i + 1) = Scale - Left(i + 1)
    OBVIOUS
  <2>1. i + 1 \in 1..input.n /\ (i + 1) - 1 = i /\ i <= input.n /\ i \in 0..input.n /\ i + 1 \in 0..input.n
    BY <1>1
  <2>2. SumTo(p, i + 1) = SumTo(p, i) + p[i + 1] /\ p[i + 1] = Left(i) - Left(i + 1)
    BY <1>1, <1>2, <2>1
  <2>3. SumTo(p, i) = Scale - Left(i)
    BY <1>4, <2>1
  <2>4. Left(i) \in Nat /\ Left(i + 1) \in Nat /\ Scale \in Nat
    BY <1>1, <2>1, LevelsAre
  <2> QED BY <2>2, <2>3, <2>4
<1> HIDE DEF T
<1>5. input.n \in T
  BY <1>1, <1>3, <1>4, Induct
<1>6. SumTo(p, input.n) = Scale - Left(input.n)
  BY <1>1, <1>5 DEF T
<1> QED BY <1>1, <1>6, LevelsAre

\* The score is the sum of the answers: pooling leaves it as it was.
LEMMA ScoreIs ==
  ASSUME PoolsInv, pc = "done"
  PROVE  score = SumTo(ge, t) * Factorial
<1>1. /\ input.n \in Nat /\ input.n = t + 1 /\ t \in Nat \ {0} /\ Left(input.n) = 0
      /\ \A i \in 0..input.n : Left(i) \in Nat
      /\ \A i \in 1..t : Left(i) = Pooled[i]
      /\ p \in [1..input.n -> Nat] /\ \A i \in 1..input.n : p[i] = Left(i - 1) - Left(i)
  BY LevelsAre
<1> DEFINE w == [i \in 1..input.n |-> (i - 1) * p[i]]
<1>2. w \in [1..input.n -> Nat] /\ \A i \in 1..input.n : w[i] = (i - 1) * p[i]
  <2>1. \A i \in 1..input.n : (i - 1) * p[i] \in Nat
    <3> SUFFICES ASSUME NEW i \in 1..input.n PROVE (i - 1) * p[i] \in Nat
      OBVIOUS
    <3>1. i - 1 \in Nat /\ p[i] \in Nat
      BY <1>1
    <3> QED BY <3>1
  <2> QED BY <2>1
<1>3. score = SumTo(w, input.n)
  BY DEF score
<1> HIDE DEF w
<1>4. /\ SumTo(w, 0) = 0 /\ \A i \in 1..input.n : SumTo(w, i) = SumTo(w, i - 1) + w[i]
  BY <1>1, <1>2, Sums
<1>5. /\ SumTo(Pooled, 0) = 0 /\ \A x \in 0..t : SumTo(Pooled, x) \in Nat
      /\ \A x \in 1..t : SumTo(Pooled, x) = SumTo(Pooled, x - 1) + Pooled[x]
  <2>1. Pooled \in [1..t -> Nat]
    BY PooledIs
  <2> QED BY <1>1, <2>1, Sums
<1> DEFINE T == {i \in Nat : i + 1 <= input.n => SumTo(w, i + 1) = SumTo(Pooled, i) - i * Left(i + 1)}
<1>6. 0 \in T
  <2>1. 1 \in 1..input.n /\ 1 \in 0..input.n
    BY <1>1
  <2>2. SumTo(w, 1) = SumTo(w, 1 - 1) + w[1] /\ w[1] = (1 - 1) * p[1] /\ p[1] \in Nat /\ Left(1) \in Nat
    BY <1>1, <1>2, <1>4, <2>1
  <2>3. w[1] = 0
    <3>1. \A x \in Nat : (1 - 1) * x = 0
      OBVIOUS
    <3> QED BY <2>2, <3>1
  <2>4. SumTo(w, 1) = 0
    BY <1>4, <2>2, <2>3
  <2>5. SumTo(Pooled, 0) - 0 * Left(1) = 0
    BY <1>5, <2>2
  <2> QED BY <2>4, <2>5
<1>7. ASSUME NEW i \in Nat, i \in T PROVE i + 1 \in T
  <2> DEFINE j == i + 1
  <2> SUFFICES ASSUME j + 1 <= input.n PROVE SumTo(w, j + 1) = SumTo(Pooled, j) - j * Left(j + 1)
    OBVIOUS
  <2>1. /\ j \in 1..t /\ j + 1 \in 1..input.n /\ (j + 1) - 1 = j /\ j \in 0..input.n /\ j + 1 \in 0..input.n
        /\ j - 1 = i /\ i \in 0..t /\ j <= input.n /\ j = i + 1
    BY <1>1
  <2>2. SumTo(w, j) = SumTo(Pooled, i) - i * Left(j)
    BY <1>7, <2>1
  <2> HIDE DEF j
  <2>3. SumTo(w, j + 1) = SumTo(w, j) + w[j + 1]
    BY <1>4, <2>1
  <2>4. w[j + 1] = j * (Left(j) - Left(j + 1))
    <3>1. w[j + 1] = ((j + 1) - 1) * p[j + 1] /\ p[j + 1] = Left((j + 1) - 1) - Left(j + 1)
      BY <1>1, <1>2, <2>1
    <3> QED BY <2>1, <3>1
  <2>5. Left(j) \in Nat /\ Left(j + 1) \in Nat /\ Left(j) = Pooled[j]
    BY <1>1, <2>1
  <2>6. SumTo(Pooled, j) = SumTo(Pooled, i) + Left(j) /\ SumTo(Pooled, i) \in Nat
    BY <1>5, <2>1, <2>5
  <2>7. /\ j * (Left(j) - Left(j + 1)) = i * Left(j) + Left(j) - j * Left(j + 1)
        /\ i * Left(j) \in Int /\ j * Left(j + 1) \in Int
    <3>1. \A a, x, y \in Nat : /\ (a + 1) * (x - y) = a * x + x - (a + 1) * y
                              /\ a * x \in Int /\ (a + 1) * y \in Int
      OBVIOUS
    <3>2. /\ (i + 1) * (Left(j) - Left(j + 1)) = i * Left(j) + Left(j) - (i + 1) * Left(j + 1)
          /\ i * Left(j) \in Int /\ (i + 1) * Left(j + 1) \in Int
      BY <2>5, <3>1
    <3>3. j = i + 1
      BY <2>1
    <3> QED BY ONLY <3>2, <3>3
  <2> QED BY <2>2, <2>3, <2>4, <2>5, <2>6, <2>7
<1> HIDE DEF T
<1>8. t \in T
  BY <1>1, <1>6, <1>7, Induct
<1>9. SumTo(w, input.n) = SumTo(Pooled, t)
  <2>1. SumTo(w, t + 1) = SumTo(Pooled, t) - t * Left(t + 1)
    BY <1>1, <1>8 DEF T
  <2>2. SumTo(Pooled, t) \in Nat
    BY <1>1, <1>5
  <2> QED BY <1>1, <2>1, <2>2
<1>10. Cum(t) * Factorial = SumTo(Pooled, t)
  <2>1. t \in 1..t
    BY <1>1
  <2>2. PICK a \in 0..t, b \in 0..t : t <= b /\ Cum(b) * Factorial = SumTo(Pooled, b)
    BY <2>1, PooledIs
  <2>3. b = t
    BY <1>1, <2>2
  <2> QED BY <2>2, <2>3
<1> QED BY <1>3, <1>9, <1>10 DEF Cum

\* The mode is the first of the most probable levels.
LEMMA ModeIs ==
  ASSUME PoolsInv, pc = "done"
  PROVE  /\ mode \in 1..input.n /\ \A j \in 1..input.n : p[j] <= p[mode]
         /\ \A j \in 1..(mode - 1) : p[j] < p[mode]
<1>1. input.n \in Nat /\ input.n > 0 /\ p \in [1..input.n -> Nat]
  BY LevelsAre
<1>2. \E i \in 1..input.n : (\A j \in 1..input.n : p[j] <= p[i]) /\ (\A j \in 1..(i - 1) : p[j] < p[i])
  BY <1>1, FirstLargest
<1> QED BY <1>2 DEF mode

\* One level has all of it exactly when nothing is apart from the mode.
LEMMA SpreadIs ==
  ASSUME PoolsInv, pc = "done"
  PROVE  spread \in Nat /\ (spread = 0) = (\E i \in 1..input.n : p[i] = Scale)
<1> DEFINE n == input.n
           w == [i \in 1..n |-> p[i] * Apart(i, mode)]
<1>1. n \in Nat /\ Scale \in Nat /\ Scale > 0 /\ p \in [1..n -> Nat] /\ SumTo(p, n) = Scale
  BY LevelsAre, LevelsSum
<1>2. mode \in 1..n /\ mode \in Nat /\ \A j \in 1..n : p[j] <= p[mode]
  <2>1. mode \in 1..n /\ \A j \in 1..n : p[j] <= p[mode]
    BY ModeIs
  <2> QED BY <1>1, <2>1
<1>3. ASSUME NEW i \in 1..n
      PROVE  /\ p[i] \in Nat /\ Apart(i, mode) \in Nat /\ (Apart(i, mode) = 0 <=> i = mode)
             /\ p[i] * Apart(i, mode) \in Nat
             /\ (p[i] * Apart(i, mode) = 0 <=> p[i] = 0 \/ i = mode)
  <2>1. p[i] \in Nat /\ i \in Nat
    BY <1>1
  <2>2. Apart(i, mode) \in Nat /\ (Apart(i, mode) = 0 <=> i = mode)
    BY <1>2, <2>1 DEF Apart
  <2>3. \A x, y \in Nat : x * y \in Nat /\ (x * y = 0 <=> x = 0 \/ y = 0)
    OBVIOUS
  <2> QED BY <2>1, <2>2, <2>3
<1>4. w \in [1..n -> Nat] /\ \A i \in 1..n : w[i] = 0 <=> p[i] = 0 \/ i = mode
  BY <1>3
<1>5. spread = SumTo(w, n)
  BY DEF spread
<1> HIDE DEF w
<1>6. spread \in Nat
  <2>1. n \in 0..n
    BY <1>1
  <2> QED BY <1>1, <1>4, <1>5, <2>1, Sums
<1>7. ASSUME spread = 0 PROVE p[mode] = Scale
  <2>1. \A i \in 1..n : w[i] = 0
    <3> SUFFICES ASSUME NEW i \in 1..n PROVE w[i] = 0
      OBVIOUS
    <3>1. w[i] <= 0 /\ w[i] \in Nat
      BY <1>1, <1>4, <1>5, <1>7, PartOfSum
    <3> QED BY <3>1
  <2>2. \A i \in 1..n : i # mode => p[i] = 0
    BY <1>4, <2>1
  <2> QED BY <1>1, <1>2, <2>2, OneOfSum
<1>8. ASSUME NEW i \in 1..n, p[i] = Scale PROVE spread = 0
  <2>1. \A j \in 1..n : j # i => p[j] = 0
    <3> SUFFICES ASSUME NEW j \in 1..n, j # i PROVE p[j] = 0
      OBVIOUS
    <3>1. p[i] + p[j] <= Scale /\ p[j] \in Nat
      BY <1>1, PartOfSum
    <3> QED BY <1>1, <1>8, <3>1
  <2>2. mode = i
    <3>1. p[i] <= p[mode] /\ p[mode] \in Nat
      BY <1>1, <1>2
    <3>2. p[mode] # 0
      BY <1>1, <1>8, <3>1
    <3> QED BY <1>2, <2>1, <3>2
  <2>3. \A j \in 1..n : w[j] = 0
    BY <1>4, <2>1, <2>2
  <2> QED BY <1>1, <1>4, <1>5, <2>3, NothingSummed
<1> HIDE DEF n
<1>9. (spread = 0) <=> \E i \in 1..n : p[i] = Scale
  BY <1>2, <1>7, <1>8
<1> QED BY <1>6, <1>9 DEF n

\* The spread of even probabilities, which confidence divides by, is not zero.
LEMMA UniformIs ==
  ASSUME PoolsInv, pc = "done"
  PROVE  uniform2n \in Nat /\ uniform2n > 0
<1> DEFINE n == input.n
           w == [i \in 1..n |-> Apart(2 * i, n + 1)]
<1>1. n \in Nat /\ n > 1
  BY LevelsAre
<1>2. \A i \in 1..n : Apart(2 * i, n + 1) \in Nat
  BY <1>1 DEF Apart
<1>3. Apart(2 * 1, n + 1) > 0
  BY <1>1 DEF Apart
<1>4. 1 \in 1..n
  BY <1>1
<1>5. w \in [1..n -> Nat] /\ w[1] > 0
  BY <1>2, <1>3, <1>4
<1>6. uniform2n = SumTo(w, n)
  BY DEF uniform2n
<1> HIDE DEF w, n
<1>7. w[1] <= SumTo(w, n)
  BY <1>1, <1>4, <1>5, PartOfSum
<1>8. SumTo(w, n) \in Nat /\ w[1] \in Nat
  <2>1. n \in 0..n
    BY <1>1
  <2> QED BY <1>1, <1>4, <1>5, <2>1, Sums
<1> QED BY <1>5, <1>6, <1>7, <1>8

\* Confidence is full exactly if there is no spread.
LEMMA ConfidenceIs ==
  ASSUME PoolsInv, pc = "done"
  PROVE  (confidence.part = confidence.of) = (spread = 0)
<1> DEFINE u == Scale * uniform2n
           s == spread * 2 * input.n
           c == u - s
<1>1. confidence.part = (IF c < 0 THEN 0 ELSE c) /\ confidence.of = u
  BY DEF confidence
<1>2. Scale \in Nat /\ Scale > 0 /\ uniform2n \in Nat /\ uniform2n > 0
      /\ spread \in Nat /\ input.n \in Nat /\ input.n > 0
  BY LevelsAre, UniformIs, SpreadIs
<1>3. u \in Nat /\ u > 0
  BY <1>2
<1>4. s \in Nat /\ (s = 0 <=> spread = 0)
  <2>1. \A x, y \in Nat : y > 0 => x * 2 * y \in Nat /\ (x * 2 * y = 0 <=> x = 0)
    <3> SUFFICES ASSUME NEW x \in Nat, NEW y \in Nat, y > 0
                 PROVE  x * 2 * y \in Nat /\ (x * 2 * y = 0 <=> x = 0)
      OBVIOUS
    <3> DEFINE z == x * 2
    <3>1. z \in Nat /\ (z = 0 <=> x = 0)
      OBVIOUS
    <3> HIDE DEF z
    <3>2. z * y \in Nat /\ (z * y = 0 <=> z = 0)
      BY <3>1
    <3> QED BY <3>1, <3>2 DEF z
  <2> QED BY <1>2, <2>1
<1> HIDE DEF u, s
<1>5. (IF c < 0 THEN 0 ELSE c) = u <=> s = 0
  BY <1>3, <1>4
<1>6. (confidence.part = confidence.of) <=> (spread = 0)
  BY <1>1, <1>4, <1>5
<1> QED BY <1>6

\* The rating tells what was answered.
LEMMA PoolsTellAnswers == PoolsInv => RatingTellsAnswers
<1> SUFFICES ASSUME PoolsInv, pc = "done"
             PROVE  /\ score = SumTo(ge, t) * Factorial
                    /\ (confidence.part = confidence.of) = (\E i \in 1..input.n : p[i] = Scale)
  BY DEF RatingTellsAnswers
<1>1. score = SumTo(ge, t) * Factorial
  BY ScoreIs
<1>2. (confidence.part = confidence.of) = (spread = 0)
  BY ConfidenceIs
<1>3. (spread = 0) = (\E i \in 1..input.n : p[i] = Scale)
  BY SpreadIs
<1> QED BY <1>1, <1>2, <1>3

\* Pooling leaves the expected level where the answers put it, and a rating is
\* certain exactly when one level has all of the probability.
THEOREM RatingAlwaysTellsAnswers == Spec => []RatingTellsAnswers
<1>1. PoolsInv => RatingTellsAnswers
  BY PoolsTellAnswers
<1> QED BY <1>1, PoolsAlways, PTL

-----------------------------------------------------------------------------
(* The choice *)

\* The remainder of a multiple and a rest is the rest.
LEMMA Remains ==
  ASSUME NEW q \in Int, NEW m \in Nat, m > 0, NEW r \in 0..(m - 1)
  PROVE  (q * m + r) % m = r
<1> DEFINE a == q * m + r
           d == a \div m
           e == a % m
<1>1. a \in Int /\ a = q * m + r
  OBVIOUS
<1>2. d \in Int /\ e \in 0..(m - 1) /\ a = m * d + e
  <2> HIDE DEF a
  <2> QED BY <1>1
<1> HIDE DEF a, d, e
<1>3. (q - d) * m = e - r
  <2>1. (q - d) * m = q * m - m * d /\ q * m \in Int /\ m * d \in Int
    BY <1>2
  <2> QED BY <1>1, <1>2, <2>1
<1>4. q - d \in Int /\ e - r < m /\ r - e < m /\ e \in Int /\ r \in Int
  BY <1>2
<1>5. CASE q - d >= 1
  <2>1. 1 * m <= (q - d) * m
    BY <1>4, <1>5, Scaled
  <2> QED BY <1>3, <1>4, <2>1
<1>6. CASE q - d <= -1
  <2>1. (q - d) * m <= (-1) * m
    BY <1>4, <1>6, Scaled
  <2> QED BY <1>3, <1>4, <2>1
<1>7. CASE q - d = 0
  <2>1. 0 * m = 0
    OBVIOUS
  <2> QED BY <1>3, <1>4, <1>7, <2>1 DEF e, a
<1> QED BY <1>4, <1>5, <1>6, <1>7

\* Which answers are about option i.
LEMMA AboutOption ==
  ASSUME NEW f \in Nat, NEW m \in Nat, m > 0, NEW x \in 1..m, NEW i \in 1..m
  PROVE  ((f * m + x) - i) % m = 0 <=> x = i
<1>1. m \in Int /\ x \in Int /\ i \in Int /\ f * m \in Int
  OBVIOUS
<1>2. CASE x >= i
  <2> DEFINE r == x - i
  <2>1. r \in 0..(m - 1) /\ (f * m + x) - i = f * m + r /\ (r = 0 <=> x = i)
    BY <1>1, <1>2
  <2> HIDE DEF r
  <2>2. (f * m + r) % m = r
    BY <2>1, Remains
  <2> QED BY <2>1, <2>2
<1>3. CASE x < i
  <2> DEFINE r == m + x - i
  <2>1. r \in 0..(m - 1) /\ r # 0
    BY <1>1, <1>3
  <2>2. (f * m + x) - i = (f - 1) * m + r
    <3>1. (f - 1) * m = f * m - m
      OBVIOUS
    <3> QED BY <1>1, <3>1
  <2> HIDE DEF r
  <2>3. ((f - 1) * m + r) % m = r
    <3>1. f - 1 \in Int
      OBVIOUS
    <3> QED BY <2>1, <3>1, Remains
  <2> QED BY <1>3, <2>1, <2>2, <2>3
<1> QED BY <1>1, <1>2, <1>3

\* The answers about option i, each counted where it stands in the list.
About(i) == [q \in DOMAIN input.ps |-> IF (q - i) % options = 0 THEN input.ps[q] ELSE 0]

\* An option's sum is what its prompts, in every phrasing, were answered.
LEMMA YesIs ==
  ASSUME input \in Inputs
  PROVE  /\ yes \in [1..t -> Nat]
         /\ \A i \in 1..t : SumTo(About(i), Len(input.ps)) = yes[i]
<1>1. /\ Parts \in Nat /\ t \in Nat /\ t > 0 /\ phrasings \in Nat
      /\ input.ps \in Seq(0..Parts) /\ Len(input.ps) = phrasings * t /\ options = t
  BY InputIs DEF options
<1>2. ASSUME NEW i \in 1..t
      PROVE  /\ yes[i] = SumTo([f \in 1..phrasings |-> input.ps[(f - 1) * t + i]], phrasings)
             /\ yes[i] \in Nat
  <2> DEFINE s == [f \in 1..phrasings |-> input.ps[(f - 1) * t + i]]
  <2>1. yes[i] = SumTo(s, phrasings)
    BY <1>1 DEF yes
  <2>2. SumTo(s, phrasings) \in 0..(phrasings * Parts)
    BY AnswersTo
  <2> HIDE DEF s
  <2>3. SumTo(s, phrasings) \in Nat
    BY <2>2
  <2> QED BY <2>1, <2>3 DEF s
<1>3. yes \in [1..t -> Nat]
  <2> DEFINE Told(i) == SumTo([f \in 1..phrasings |-> input.ps[(f - 1) * t + i]], phrasings)
  <2>1. yes = [i \in 1..t |-> Told(i)]
    BY <1>1 DEF yes
  <2> HIDE DEF Told
  <2> QED BY <1>2, <2>1
<1>4. ASSUME NEW i \in 1..t PROVE SumTo(About(i), Len(input.ps)) = yes[i]
  <2> DEFINE n == Len(input.ps)
             W == About(i)
             s == [f \in 1..phrasings |-> input.ps[(f - 1) * t + i]]
             ps == input.ps
  <2>1. n \in Nat /\ n = phrasings * t /\ DOMAIN ps = 1..n /\ \A q \in 1..n : ps[q] \in Nat
    <3>1. ps \in Seq(0..Parts) /\ n = phrasings * t /\ Parts \in Nat
      BY <1>1
    <3>2. n \in Nat /\ DOMAIN ps = 1..n /\ \A q \in 1..n : ps[q] \in 0..Parts
      <4>1. n = Len(ps)
        OBVIOUS
      <4> HIDE DEF n, ps
      <4> QED BY ONLY <3>1, <4>1
    <3>3. \A q \in 0..Parts : q \in Nat
      OBVIOUS
    <3> HIDE DEF n, ps
    <3> QED BY ONLY <3>1, <3>2, <3>3
  <2>2. W \in [1..n -> Nat] /\ \A q \in 1..n : W[q] = IF (q - i) % t = 0 THEN ps[q] ELSE 0
    <3> HIDE DEF n, ps
    <3>1. W = [q \in 1..n |-> IF (q - i) % t = 0 THEN ps[q] ELSE 0]
      BY <1>1, <2>1 DEF About, ps
    <3> QED BY <2>1, <3>1
  <2>3. s \in [1..phrasings -> Nat] /\ \A f \in 1..phrasings : s[f] = ps[(f - 1) * t + i]
    <3>1. s \in [1..phrasings -> Nat]
      BY AnswersTo
    <3> QED BY <3>1
  <2>4. yes[i] = SumTo(s, phrasings)
    BY <1>2
  <2> HIDE DEF n, W, s, ps
  <2>5. SumTo(W, 0) = 0 /\ SumTo(s, 0) = 0
        /\ \A f \in 1..phrasings : SumTo(s, f) = SumTo(s, f - 1) + s[f]
    BY <1>1, <2>1, <2>2, <2>3, Sums
  <2> DEFINE T == {f \in Nat : f <= phrasings => SumTo(W, f * t) = SumTo(s, f)}
  <2>6. 0 \in T
    <3>1. 0 * t = 0
      BY <1>1
    <3> QED BY <2>5, <3>1
  <2>7. ASSUME NEW f \in Nat, f \in T PROVE f + 1 \in T
    <3> SUFFICES ASSUME f + 1 <= phrasings PROVE SumTo(W, (f + 1) * t) = SumTo(s, f + 1)
      OBVIOUS
    <3> DEFINE a == f * t
               P == [x \in 1..t |-> W[a + x]]
    <3>1. a \in Nat /\ a + t = (f + 1) * t
      BY <1>1
    <3>2. a + t <= n
      <4>1. (f + 1) * t <= phrasings * t
        BY <1>1, Scaled
      <4> QED BY <2>1, <3>1, <4>1
    <3>3. ASSUME NEW x \in 1..t PROVE W[a + x] = (IF x = i THEN ps[a + x] ELSE 0) /\ W[a + x] \in Nat
      <4>1. a + x \in 1..n
        <5> HIDE DEF a
        <5> QED BY <1>1, <2>1, <3>1, <3>2
      <4>2. ((f * t + x) - i) % t = 0 <=> x = i
        BY <1>1, AboutOption
      <4> QED BY <2>2, <4>1, <4>2
    <3> HIDE DEF a
    <3>4. P \in [1..t -> Nat] /\ \A x \in 1..t : P[x] = W[a + x]
      BY <3>3
    <3>5. \A x \in 1..t : x # i => P[x] = 0
      BY <3>3, <3>4
    <3> HIDE DEF P
    <3>6. SumTo(P, t) = P[i]
      BY <1>1, <3>4, <3>5, OneOfSum
    <3>7. SumTo(W, a + t) = SumTo(W, a) + SumTo(P, t)
      <4>1. t \in 0..t
        BY <1>1
      <4>2. t \in Nat /\ n \in Nat /\ W \in [1..n -> Nat]
        BY <1>1, <2>1, <2>2
      <4>3. \A x \in 1..t : P[x] = W[a + x]
        BY <3>4
      <4>4. P \in [1..t -> Nat]
        BY <3>4
      <4>5. \A x \in 0..t : SumTo(W, a + x) = SumTo(W, a) + SumTo(P, x)
        <5>1. a \in Nat
          BY <3>1
        <5> QED BY ONLY <5>1, <3>2, <4>2, <4>3, <4>4, SumsOfPart, ZenonT(30)
      <4> QED BY <4>1, <4>5
    <3>8. P[i] = s[f + 1]
      <4>1. f + 1 \in 1..phrasings /\ (f + 1) - 1 = f
        BY <1>1
      <4>2. s[f + 1] = ps[f * t + i]
        BY <2>3, <4>1
      <4> QED BY <3>3, <3>4, <4>2 DEF a
    <3>9. SumTo(W, a) = SumTo(s, f)
      BY <1>1, <2>7 DEF a
    <3>10. SumTo(s, f + 1) = SumTo(s, f) + s[f + 1]
      <4>1. f + 1 \in 1..phrasings /\ (f + 1) - 1 = f
        BY <1>1
      <4> QED BY <2>5, <4>1
    <3> QED BY <3>1, <3>6, <3>7, <3>8, <3>9, <3>10
  <2> HIDE DEF T
  <2>8. phrasings \in T
    BY <1>1, <2>6, <2>7, Induct
  <2> QED BY <1>1, <2>1, <2>4, <2>8 DEF T, n, W
<1> QED BY <1>3, <1>4

\* What a list of numbers falls short of its largest, summed.
LEMMA ShortOf ==
  ASSUME NEW n \in Nat, NEW s \in [1..n -> Nat], NEW m \in Nat, \A i \in 1..n : s[i] <= m
  PROVE  /\ n * m - SumTo(s, n) \in Nat
         /\ n * m - SumTo(s, n) = 0 <=> \A i \in 1..n : s[i] = m
<1> DEFINE d == [i \in 1..n |-> m - s[i]]
<1>1. d \in [1..n -> Nat] /\ \A i \in 1..n : d[i] = m - s[i] /\ s[i] \in Nat
  OBVIOUS
<1> HIDE DEF d
<1>2. /\ SumTo(s, 0) = 0 /\ SumTo(d, 0) = 0
      /\ \A i \in 0..n : SumTo(s, i) \in Nat /\ SumTo(d, i) \in Nat
      /\ \A i \in 1..n : SumTo(s, i) = SumTo(s, i - 1) + s[i] /\ SumTo(d, i) = SumTo(d, i - 1) + d[i]
  BY <1>1, Sums
<1> DEFINE T == {i \in Nat : i <= n => i * m - SumTo(s, i) = SumTo(d, i)}
<1>3. 0 \in T
  BY <1>2
<1>4. ASSUME NEW i \in Nat, i \in T PROVE i + 1 \in T
  <2> SUFFICES ASSUME i + 1 <= n PROVE (i + 1) * m - SumTo(s, i + 1) = SumTo(d, i + 1)
    OBVIOUS
  <2>1. i + 1 \in 1..n /\ (i + 1) - 1 = i /\ i <= n /\ i \in 0..n
    OBVIOUS
  <2>2. SumTo(s, i + 1) = SumTo(s, i) + s[i + 1] /\ SumTo(d, i + 1) = SumTo(d, i) + d[i + 1]
    BY <1>2, <2>1
  <2>3. d[i + 1] = m - s[i + 1] /\ s[i + 1] \in Nat /\ SumTo(s, i) \in Nat /\ SumTo(d, i) \in Nat
    BY <1>1, <1>2, <2>1
  <2>4. (i + 1) * m = i * m + m /\ i * m \in Nat
    OBVIOUS
  <2>5. i * m - SumTo(s, i) = SumTo(d, i)
    BY <1>4, <2>1
  <2> QED BY <2>2, <2>3, <2>4, <2>5
<1> HIDE DEF T
<1>5. n \in T
  BY <1>3, <1>4, Induct
<1>6. n * m - SumTo(s, n) = SumTo(d, n) /\ SumTo(d, n) \in Nat
  <2>1. n \in 0..n
    OBVIOUS
  <2> QED BY <1>2, <1>5, <2>1 DEF T
<1>7. ASSUME SumTo(d, n) = 0, NEW i \in 1..n PROVE s[i] = m
  <2>1. d[i] <= SumTo(d, n)
    BY <1>1, PartOfSum
  <2> QED BY <1>1, <1>7, <2>1
<1>8. ASSUME \A i \in 1..n : s[i] = m PROVE SumTo(d, n) = 0
  <2>1. \A i \in 1..n : d[i] = 0
    BY <1>1, <1>8
  <2> QED BY <1>1, <2>1, NothingSummed
<1> QED BY <1>6, <1>7, <1>8

\* The shares: the yeses, or 1 each when there are none.
LEMMA SharesAre ==
  ASSUME input \in Inputs
  PROVE  /\ options = t /\ t \in Nat /\ t > 0 /\ yes \in [1..t -> Nat] /\ sum \in Nat
         /\ share \in [1..t -> Nat] /\ whole \in Nat /\ whole > 0
         /\ SumTo(share, t) = whole
         /\ sum > 0 => share = yes
         /\ sum = 0 => \A i \in 1..t : share[i] = 1 /\ yes[i] = 0
<1>1. options = t /\ t \in Nat /\ t > 0 /\ yes \in [1..t -> Nat]
  BY InputIs, YesIs DEF options
<1>2. sum = SumTo(yes, t) /\ sum \in Nat
  <2>1. t \in 0..t
    BY <1>1
  <2>2. SumTo(yes, t) \in Nat
    BY <1>1, <2>1, Sums
  <2> QED BY <1>1, <2>2 DEF sum
<1>3. ASSUME sum > 0 PROVE share = yes
  <2>1. share = [i \in 1..t |-> yes[i]]
    BY <1>1, <1>3 DEF share
  <2> QED BY <1>1, <2>1
<1>4. ASSUME sum = 0 PROVE share = [i \in 1..t |-> 1] /\ \A i \in 1..t : yes[i] = 0
  <2>1. \A i \in 1..t : yes[i] <= 0 /\ yes[i] \in Nat
    BY <1>1, <1>2, <1>4, PartOfSum
  <2>2. share = [i \in 1..t |-> 1]
    BY <1>1, <1>4 DEF share
  <2> QED BY <2>1, <2>2
<1>5. share \in [1..t -> Nat]
  <2>1. CASE sum > 0
    BY <1>1, <1>3, <2>1
  <2>2. CASE sum = 0
    <3>1. [i \in 1..t |-> 1] \in [1..t -> Nat]
      OBVIOUS
    <3> QED BY <1>4, <2>2, <3>1
  <2> QED BY <1>2, <2>1, <2>2
<1>6. SumTo(share, t) = whole /\ whole \in Nat /\ whole > 0
  <2>1. CASE sum > 0
    BY <1>2, <1>3, <2>1 DEF whole
  <2>2. CASE sum = 0
    <3>1. \A i \in 1..t : share[i] = 1
      BY <1>4, <2>2
    <3>2. t \in 0..t
      BY <1>1
    <3>3. SumTo(share, t) = t
      BY <1>1, <1>5, <3>1, <3>2, SumOfOnes
    <3>4. whole = t
      BY <1>1, <2>2 DEF whole
    <3> QED BY <1>1, <3>3, <3>4
  <2> QED BY <1>2, <2>1, <2>2
<1>7. sum = 0 => \A i \in 1..t : share[i] = 1 /\ yes[i] = 0
  BY <1>4
<1> QED BY <1>1, <1>2, <1>3, <1>5, <1>6, <1>7

\* The best option has the largest share and is the first to have it.
LEMMA BestIs ==
  ASSUME input \in Inputs
  PROVE  /\ best \in 1..t /\ \A j \in 1..t : share[j] <= share[best]
         /\ \A j \in 1..(best - 1) : share[j] < share[best]
<1>1. options = t /\ t \in Nat /\ t > 0 /\ share \in [1..t -> Nat]
  BY SharesAre
<1>2. \E i \in 1..t : (\A j \in 1..t : share[j] <= share[i]) /\ (\A j \in 1..(i - 1) : share[j] < share[i])
  BY <1>1, FirstLargest
<1> QED BY <1>1, <1>2 DEF best

\* The options with the most yeses.
MostYes == {i \in 1..t : \A j \in 1..t : yes[j] <= yes[i]}

\* The best option is the first of those with most yes.
LEMMA BestIsFirst ==
  ASSUME input \in Inputs
  PROVE  best \in MostYes /\ \A i \in MostYes : best <= i
<1>1. /\ t \in Nat /\ yes \in [1..t -> Nat] /\ sum \in Nat /\ share \in [1..t -> Nat]
      /\ sum > 0 => share = yes
      /\ sum = 0 => \A i \in 1..t : share[i] = 1 /\ yes[i] = 0
  BY SharesAre
<1>2. /\ best \in 1..t /\ \A j \in 1..t : share[j] <= share[best]
      /\ \A j \in 1..(best - 1) : share[j] < share[best]
  BY BestIs
<1>3. \A i \in 1..t : share[best] <= share[i] => best <= i
  <2> SUFFICES ASSUME NEW i \in 1..t, share[best] <= share[i], i < best PROVE FALSE
    BY <1>1, <1>2
  <2>1. i \in 1..(best - 1)
    BY <1>1, <1>2
  <2>2. share[i] < share[best] /\ share[i] \in Nat /\ share[best] \in Nat
    BY <1>1, <1>2, <2>1
  <2> QED BY <2>2
<1>4. CASE sum > 0
  BY <1>1, <1>2, <1>3, <1>4 DEF MostYes
<1>5. CASE sum = 0
  <2>1. share[best] = 1 /\ yes[best] = 0
    BY <1>1, <1>2, <1>5
  <2>2. \A i \in 1..t : share[i] = 1 /\ yes[i] = 0
    BY <1>1, <1>5
  <2>3. best \in MostYes
    BY <1>2, <2>1, <2>2 DEF MostYes
  <2>4. \A i \in 1..t : best <= i
    BY <1>3, <2>1, <2>2
  <2> QED BY <2>3, <2>4 DEF MostYes
<1> QED BY <1>1, <1>4, <1>5

\* The peak is zero if all options have as much, and full if only one has any.
LEMMA PeakIs ==
  ASSUME input \in Inputs
  PROVE  /\ (peak.part = 0) = (MostYes = 1..t)
         /\ t > 1 => (peak.part = peak.of) = (\E i \in 1..t : {j \in 1..t : yes[j] > 0} = {i})
<1> DEFINE m == share[best]
           c == t * m - whole
<1>1. /\ options = t /\ t \in Nat /\ t > 0 /\ yes \in [1..t -> Nat] /\ sum \in Nat
      /\ share \in [1..t -> Nat] /\ whole \in Nat /\ whole > 0 /\ SumTo(share, t) = whole
      /\ sum > 0 => share = yes
      /\ sum = 0 => \A i \in 1..t : share[i] = 1 /\ yes[i] = 0
  BY SharesAre
<1>2. best \in 1..t /\ \A j \in 1..t : share[j] <= m
  BY BestIs
<1>3. m \in Nat /\ m <= whole
  <2>1. m \in Nat
    BY <1>1, <1>2
  <2>2. m <= SumTo(share, t)
    BY <1>1, <1>2, PartOfSum
  <2> QED BY <1>1, <2>1, <2>2
<1>4. c \in Nat /\ (c = 0 <=> \A i \in 1..t : share[i] = m)
  <2>1. /\ t * m - SumTo(share, t) \in Nat
        /\ t * m - SumTo(share, t) = 0 <=> \A i \in 1..t : share[i] = m
    <3> HIDE DEF m
    <3> QED BY <1>1, <1>2, <1>3, ShortOf
  <2> HIDE DEF m
  <2> QED BY <1>1, <2>1
<1>5. peak.part = c /\ peak.of = (t - 1) * whole
  <2>1. peak = [part |-> IF c < 0 THEN 0 ELSE c, of |-> (t - 1) * whole]
    BY <1>1 DEF peak
  <2>2. ~(c < 0)
    BY <1>4
  <2> HIDE DEF c
  <2> QED BY <2>1, <2>2
<1>6. (\A i \in 1..t : share[i] = m) <=> MostYes = 1..t
  <2>1. CASE sum > 0
    <3>1. share = yes
      BY <1>1, <2>1
    <3>2. ASSUME \A i \in 1..t : share[i] = m PROVE MostYes = 1..t
      <4>1. \A i, j \in 1..t : yes[j] <= yes[i]
        <5>1. m <= m
          BY <1>3
        <5> QED BY <3>1, <3>2, <5>1
      <4> QED BY <4>1 DEF MostYes
    <3>3. ASSUME MostYes = 1..t, NEW i \in 1..t PROVE share[i] = m
      <4>1. yes[best] <= yes[i] /\ share[i] <= m
        BY <1>2, <3>3 DEF MostYes
      <4>2. share[i] \in Nat
        BY <1>1
      <4> QED BY <1>3, <3>1, <4>1, <4>2
    <3> QED BY <3>2, <3>3
  <2>2. CASE sum = 0
    <3>1. \A i \in 1..t : share[i] = 1 /\ yes[i] = 0
      BY <1>1, <2>2
    <3>2. \A i \in 1..t : share[i] = m
      BY <1>2, <3>1
    <3>3. MostYes = 1..t
      BY <3>1 DEF MostYes
    <3> QED BY <3>2, <3>3
  <2> QED BY <1>1, <2>1, <2>2
<1>7. (peak.part = 0) <=> (MostYes = 1..t)
  <2> HIDE DEF c, m
  <2> QED BY <1>4, <1>5, <1>6
<1>8. peak.part = peak.of <=> m = whole
  <2> HIDE DEF m
  <2>1. (t - 1) * whole = t * whole - whole /\ t * whole \in Int /\ t * m \in Int
    BY <1>1, <1>3
  <2>2. peak.part = peak.of <=> t * m = t * whole
    BY <1>1, <1>5, <2>1
  <2>3. ASSUME t * m = t * whole PROVE m = whole
    <3>1. whole * t <= m * t
      <4>1. whole * t = t * whole /\ m * t = t * m
        BY <1>1, <1>3
      <4> QED BY <2>1, <2>3, <4>1
    <3>2. whole <= m
      BY <1>1, <1>3, <3>1, Cancelled
    <3> QED BY <1>1, <1>3, <3>2
  <2> QED BY <2>2, <2>3
<1>9. ASSUME t > 1 PROVE m = whole <=> \E i \in 1..t : {j \in 1..t : yes[j] > 0} = {i}
  <2> DEFINE S == {j \in 1..t : yes[j] > 0}
  <2>1. CASE sum = 0
    <3>1. m = 1 /\ whole = t
      BY <1>1, <1>2, <2>1 DEF whole
    <3>2. S = {}
      BY <1>1, <2>1
    <3>3. m # whole
      BY <1>1, <1>9, <3>1
    <3>4. \A i : S # {i}
      BY <3>2
    <3> QED BY <3>3, <3>4
  <2>2. CASE sum > 0
    <3>1. share = yes /\ SumTo(yes, t) = whole
      BY <1>1, <2>2
    <3>2. ASSUME m = whole PROVE S = {best}
      <4>1. yes[best] = whole
        BY <3>1, <3>2
      <4>2. \A j \in 1..t : best # j => yes[best] + yes[j] <= SumTo(yes, t)
        BY <1>1, <1>2, PartOfSum
      <4>3. \A j \in 1..t : j # best => ~(yes[j] > 0)
        <5> SUFFICES ASSUME NEW j \in 1..t, j # best PROVE ~(yes[j] > 0)
          OBVIOUS
        <5>1. yes[best] + yes[j] <= SumTo(yes, t) /\ yes[j] \in Nat
          BY <1>1, <4>2
        <5> HIDE DEF m
        <5> QED BY <1>1, <3>1, <4>1, <5>1
      <4>4. yes[best] > 0
        BY <1>1, <4>1
      <4> QED BY <1>2, <4>3, <4>4
    <3>3. ASSUME NEW i \in 1..t, S = {i} PROVE m = whole
      <4>1. \A j \in 1..t : j # i => yes[j] = 0
        <5> SUFFICES ASSUME NEW j \in 1..t, j # i PROVE yes[j] = 0
          OBVIOUS
        <5>1. j \notin S
          BY <3>3
        <5>2. ~(yes[j] > 0) /\ yes[j] \in Nat
          BY <1>1, <5>1
        <5> QED BY <5>2
      <4>2. whole = yes[i]
        BY <1>1, <3>1, <4>1, OneOfSum
      <4>3. yes[i] <= m
        BY <1>2, <3>1
      <4> HIDE DEF m
      <4> QED BY <1>1, <1>3, <4>2, <4>3
    <3> QED BY <1>2, <3>2, <3>3
  <2> QED BY <1>1, <2>1, <2>2
<1> HIDE DEF m, c
<1>10. t > 1 => (peak.part = peak.of <=> \E i \in 1..t : {j \in 1..t : yes[j] > 0} = {i})
  BY <1>8, <1>9
<1> QED BY <1>7, <1>10

\* Exactly one option has any yes, said by counting and by naming it.
LEMMA OneIsCounted ==
  ASSUME input \in Inputs
  PROVE  Cardinality({i \in 1..t : yes[i] > 0}) = 1 <=> \E i \in 1..t : {j \in 1..t : yes[j] > 0} = {i}
<1> DEFINE S == {j \in 1..t : yes[j] > 0}
<1>1. IsFiniteSet(1..t) /\ S \in SUBSET (1..t)
  <2>1. t \in Int /\ 1 \in Int
    BY InputIs
  <2> QED BY <2>1, FS_Interval
<1>2. IsFiniteSet(S)
  <2> HIDE DEF S
  <2> QED BY <1>1, FS_Subset
<1> HIDE DEF S
<1>3. Cardinality(S) = 1 <=> \E i : S = {i}
  BY <1>2, FS_Singleton
<1>4. (\E i : S = {i}) <=> \E i \in 1..t : S = {i}
  BY <1>1
<1>5. Cardinality(S) = 1 <=> \E i \in 1..t : S = {i}
  BY <1>3, <1>4
<1> QED BY <1>5 DEF S

\* The choice tells what was answered.
LEMMA PoolsTellChoice == PoolsInv => ChoiceTellsAnswers
<1> DEFINE got == [i \in 1..options |->
                     SumTo([q \in DOMAIN input.ps |-> IF (q - i) % options = 0 THEN input.ps[q] ELSE 0],
                           Len(input.ps))]
           most == {i \in 1..options : \A j \in 1..options : got[j] <= got[i]}
<1> SUFFICES ASSUME PoolsInv, options > 1
             PROVE  /\ \A i, j \in 1..options : share[i] * got[j] = share[j] * got[i]
                    /\ SumTo(share, options) = whole
                    /\ best \in most /\ \A i \in most : best <= i
                    /\ (peak.part = 0) = (most = 1..options)
                    /\ (peak.part = peak.of) = (Cardinality({i \in 1..options : got[i] > 0}) = 1)
  BY DEF ChoiceTellsAnswers
<1>1. /\ input \in Inputs /\ options = t /\ t \in Nat /\ t > 1 /\ yes \in [1..t -> Nat]
      /\ share \in [1..t -> Nat] /\ SumTo(share, t) = whole
      /\ sum \in Nat
      /\ sum > 0 => share = yes
      /\ sum = 0 => \A i \in 1..t : share[i] = 1 /\ yes[i] = 0
  <2>1. input \in Inputs
    BY DEF PoolsInv
  <2> QED BY <2>1, SharesAre
<1>2. got = yes
  <2>1. got = [i \in 1..options |-> SumTo(About(i), Len(input.ps))]
    BY DEF About
  <2> HIDE DEF got
  <2>2. got = [i \in 1..t |-> yes[i]]
    BY <1>1, <2>1, YesIs
  <2> QED BY <1>1, <2>2
<1> HIDE DEF got
<1>3. most = MostYes
  BY <1>1, <1>2 DEF MostYes
<1> HIDE DEF most
<1>4. ASSUME NEW i \in 1..t, NEW j \in 1..t PROVE share[i] * yes[j] = share[j] * yes[i]
  <2>1. yes[i] \in Nat /\ yes[j] \in Nat
    BY <1>1
  <2>2. CASE sum > 0
    <3>1. share[i] = yes[i] /\ share[j] = yes[j]
      BY <1>1, <2>2
    <3> QED BY <2>1, <3>1
  <2>3. CASE sum = 0
    <3>1. share[i] = share[j] /\ yes[i] = yes[j]
      BY <1>1, <2>3
    <3> QED BY <3>1
  <2> QED BY <1>1, <2>2, <2>3
<1>5. best \in most /\ \A i \in most : best <= i
  BY <1>1, <1>3, BestIsFirst
<1>6. (peak.part = 0) = (most = 1..t)
  BY <1>1, <1>3, PeakIs
<1>7. (peak.part = peak.of) = (Cardinality({i \in 1..t : yes[i] > 0}) = 1)
  <2>1. (peak.part = peak.of) = (\E i \in 1..t : {j \in 1..t : yes[j] > 0} = {i})
    BY <1>1, PeakIs
  <2> QED BY <1>1, <2>1, OneIsCounted
<1> QED BY <1>1, <1>2, <1>4, <1>5, <1>6, <1>7

\* The shares of a choice are as the yeses, add up to 1, and name the first of
\* the options with most; the confidence says whether one stands out.
THEOREM ChoiceAlwaysTellsAnswers == Spec => []ChoiceTellsAnswers
<1>1. PoolsInv => ChoiceTellsAnswers
  BY PoolsTellChoice
<1> QED BY <1>1, PoolsAlways, PTL
=============================================================================
