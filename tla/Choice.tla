------------------------------- MODULE Choice -------------------------------
(***************************************************************************)
(* choose (src/src/choice.hpp): the same lists of answers as in Rate, read *)
(* as one yes/no answer per phrasing and option.  An option's probability  *)
(* is a fraction of `whole`; rounding is not modelled.                     *)
(***************************************************************************)
EXTENDS Rate

options == t

\* P(yes) of each option, summed over the phrasings.
yesOptionMajor == [i \in 1..options |->
  SumTo([f \in 1..phrasings |-> input.ps[(i - 1) * phrasings + f]], phrasings)]
yes == [i \in 1..options |->
  SumTo([f \in 1..phrasings |-> input.ps[(f - 1) * options + i]], phrasings)]

sum == SumTo(yes, options)
\* Normalised to 1: without any yes, the options are equally likely.
whole == IF sum > 0 THEN sum ELSE options
share == [i \in 1..options |-> IF sum > 0 THEN yes[i] ELSE 1]

\* The first option with the highest probability.
best == CHOOSE i \in 1..options : /\ \A j \in 1..options : share[j] <= share[i]
                                  /\ \A j \in 1..(i - 1) : share[j] < share[i]

\* (p_max - 1/n) / (1 - 1/n), as a part of a whole; what is clamped away above
\* 1 in the code is rounding.
peak == LET c == options * share[best] - whole
        IN [part |-> IF c < 0 THEN 0 ELSE c, of |-> (options - 1) * whole]

-----------------------------------------------------------------------------
(* Properties *)

\* A choice tells what was answered: an option's probability is to another's as
\* the yeses it got are to the other's, whatever the phrasing they were asked
\* in; they add up to 1; the option named is the first of those that got most;
\* and the confidence is 0 exactly when no option stands out and 1 exactly when
\* one option got all the yeses.
ChoiceTellsAnswers ==
  pc = "done" /\ options > 1 =>
    LET got == [i \in 1..options |->
                  SumTo([q \in DOMAIN input.ps |-> IF (q - i) % options = 0 THEN input.ps[q] ELSE 0],
                        Len(input.ps))]
        most == {i \in 1..options : \A j \in 1..options : got[j] <= got[i]}
    IN /\ \A i, j \in 1..options : share[i] * got[j] = share[j] * got[i]
       /\ SumTo(share, options) = whole
       /\ best \in most /\ \A i \in most : best <= i
       /\ (peak.part = 0) = (most = 1..options)
       /\ (peak.part = peak.of) = (Cardinality({i \in 1..options : got[i] > 0}) = 1)
=============================================================================
