------------------------------- MODULE MCRate -------------------------------
(***************************************************************************)
(* Every answer in thirds to one to four thresholds (or options) of one    *)
(* phrasing, and to up to two of two.                                      *)
(***************************************************************************)
EXTENDS Choice

Args(n, phrases) == {[n |-> n, ps |-> s] : s \in [1..((n - 1) * phrases) -> 0..Parts]}
MCInputs == Args(2, 1) \union Args(3, 1) \union Args(4, 1) \union Args(5, 1)
            \union Args(2, 2) \union Args(3, 2)
=============================================================================
