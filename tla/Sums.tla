-------------------------------- MODULE Sums --------------------------------
(* Sums over the start of a list of numbers. *)
EXTENDS Integers

\* s[1] + ... + s[i]
SumTo(s, i) == LET sum[j \in 0..i] == IF j = 0 THEN 0 ELSE sum[j - 1] + s[j] IN sum[i]
=============================================================================
