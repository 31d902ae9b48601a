-------------------------------- MODULE Rate --------------------------------
(***************************************************************************)
(* rate (src/src/score.hpp): from the answers to "is it at level k or      *)
(* higher?" to one distribution over the levels.  The means over phrasings *)
(* are made non-increasing by pooling adjacent violators, one action per   *)
(* threshold pushed and per merge.                                         *)
(*                                                                         *)
(* Arithmetic is exact here.  An answer is a number of parts out of Parts; *)
(* sums over phrasings are kept instead of means (the mean is the sum over *)
(* `phrasings`), and a mean over a pool is a fraction, compared and summed *)
(* over the common denominator Scale.                                      *)
(***************************************************************************)
EXTENDS Integers, Sequences, FiniteSets, Sums

CONSTANTS Inputs,   \* arguments: [n, ps], n levels, phrasing-major answers
          Parts     \* an answer is in 0..Parts, of Parts

ASSUME InputsAssumption ==
  /\ Parts \in Nat \ {0}
  /\ \A a \in Inputs : /\ a.n \in Nat \ {0, 1}
                       /\ a.ps \in Seq(0..Parts)
                       /\ Len(a.ps) >= a.n - 1
                       /\ Len(a.ps) % (a.n - 1) = 0

VARIABLES input,   \* the arguments
          pc,
          k,       \* the next threshold to push
          pools    \* [sum, count], the last one on top
vars == <<input, pc, k, pools>>

t == input.n - 1
phrasings == Len(input.ps) \div t

\* P(level >= j), summed over the phrasings.
ge == [j \in 1..t |-> SumTo([f \in 1..phrasings |-> input.ps[(f - 1) * t + j]], phrasings)]

Pool(sum, count) == [sum |-> sum, count |-> count]

Init == /\ input \in Inputs
        /\ pc = "push"
        /\ k = 1
        /\ pools = <<>>

-----------------------------------------------------------------------------
LastPool == pools[Len(pools)]
Below == pools[Len(pools) - 1]
\* The mean of the top pool is above the mean of the one under it.
OutOfOrder == Len(pools) > 1 /\ Below.sum * LastPool.count < LastPool.sum * Below.count

Push == /\ pc = "push" /\ k <= t
        /\ pools' = Append(pools, Pool(ge[k], 1))
        /\ k' = k + 1
        /\ pc' = "merge"
        /\ UNCHANGED input

MergeOnce == /\ pc = "merge" /\ OutOfOrder
             /\ pools' = Append(SubSeq(pools, 1, Len(pools) - 2),
                                Pool(Below.sum + LastPool.sum, Below.count + LastPool.count))
             /\ pc' = "push"
             /\ UNCHANGED <<input, k>>
Merge == /\ pc = "merge" /\ OutOfOrder
         /\ pools' = Append(SubSeq(pools, 1, Len(pools) - 2),
                            Pool(Below.sum + LastPool.sum, Below.count + LastPool.count))
         /\ UNCHANGED <<input, pc, k>>

StopMerging == pc = "merge" /\ ~OutOfOrder /\ pc' = "push" /\ UNCHANGED <<input, k, pools>>

Finish == pc = "push" /\ k > t /\ pc' = "done" /\ UNCHANGED <<input, k, pools>>

Next == Push \/ Merge \/ StopMerging \/ Finish
Spec == Init /\ [][Next]_vars

-----------------------------------------------------------------------------
(* The answer, from the pools *)

Factorial == LET f[i \in 0..t] == IF i = 0 THEN 1 ELSE i * f[i - 1] IN f[t]
\* What probability 1 is in the numbers below; every pool's count divides it.
Scale == Parts * phrasings * Factorial

Clamped(x) == IF x < 0 THEN 0 ELSE IF x > Scale THEN Scale ELSE x

\* ge, pooled: each pool's mean, once per threshold in it.
Pooled ==
  LET counts == [i \in DOMAIN pools |-> pools[i].count]
      of(j) == CHOOSE i \in DOMAIN pools :
                 SumTo(counts, i - 1) < j /\ j <= SumTo(counts, i)
  IN [j \in 1..t |-> Clamped(pools[of(j)].sum * (Factorial \div pools[of(j)].count))]

LevelAt(i, g) == LET d == (IF i = 1 THEN Scale ELSE g[i - 1]) - (IF i = input.n THEN 0 ELSE g[i])
                 IN IF d < 0 THEN 0 ELSE d
\* P(level = i - 1); the code's max with 0 is for rounding.
p == [i \in 1..input.n |-> LevelAt(i, Pooled)]

score == SumTo([i \in 1..input.n |-> (i - 1) * p[i]], input.n)

modeIsFirst == 1
\* The first most probable level (its index from 1).
mode == CHOOSE i \in 1..input.n :
          /\ \A j \in 1..input.n : p[j] <= p[i]
          /\ \A j \in 1..(i - 1) : p[j] < p[i]

Apart(i, j) == IF i < j THEN j - i ELSE i - j
\* sum of p[i] * |i - mode|
spread == SumTo([i \in 1..input.n |-> p[i] * Apart(i, mode)], input.n)
\* the same for a uniform distribution about the middle, times 2n: an answer is
\* 1 - spread/Scale / (uniform2n / 2n)
uniform2n == SumTo([i \in 1..input.n |-> Apart(2 * i, input.n + 1)], input.n)
\* The confidence and what it is of.
confidence == LET c == Scale * uniform2n - spread * 2 * input.n
              IN [part |-> IF c < 0 THEN 0 ELSE c, of |-> Scale * uniform2n]

-----------------------------------------------------------------------------
(* Properties *)

\* The means of ge over i..j, over the denominator Scale.
Mean(i, j) == (SumTo(ge, j) - SumTo(ge, i - 1)) * (Factorial \div (j - i + 1))
\* The result is the non-increasing sequence nearest to the answers (least
\* squares), given by its min-max formula: the order of the merges never
\* matters.
IsIsotonicFit ==
  pc = "done" =>
    \A j \in 1..t :
      LET best(i) == CHOOSE m \in {Mean(i, l) : l \in j..t} : \A l \in j..t : Mean(i, l) <= m
      IN /\ \E i \in 1..j : Pooled[j] = best(i)
         /\ \A i \in 1..j : Pooled[j] <= best(i)

\* Pooling does not move the expected level: the score is the sum of the
\* thresholds' mean answers, so a yes that is surer never lowers it.  And the
\* confidence is 1 exactly when one level is certain: a mode that is not the
\* most probable level, or a spread about another one, would lose that.
RatingTellsAnswers ==
  pc = "done" =>
    /\ score = SumTo(ge, t) * Factorial
    /\ (confidence.part = confidence.of) = (\E i \in 1..input.n : p[i] = Scale)

=============================================================================
