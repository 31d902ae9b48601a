----------------------------- MODULE MCSnapshots -----------------------------
(***************************************************************************)
(* Requests for TLC: two states that share their first two tokens and      *)
(* exceed the token limit together, three of the minimal length that only  *)
(* the count keeps apart (one of them the start of the others, its request *)
(* sharing more than the state), one too short, and a request without a    *)
(* state boundary.                                                         *)
(***************************************************************************)
EXTENDS Snapshots

Ask(p, s) == [prefix |-> p, state |-> s]

MCRequests == {Ask(<<1, 1, 1, 1>>, 4), Ask(<<1, 1, 2>>, 3), Ask(<<2, 2>>, 2), Ask(<<3, 3>>, 2),
               Ask(<<1, 1, 1>>, 2), Ask(<<1>>, 1), Ask(<<>>, 0)}
=============================================================================
