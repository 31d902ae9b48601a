------------------------------ MODULE MCServe ------------------------------
(***************************************************************************)
(* Two processes that want the same port, started three times in all, and  *)
(* one write to the folder at any moment: a file replaced or missing.      *)
(***************************************************************************)
EXTENDS Serve

CONSTANTS s1, s2, p1

MCPortOf == [s \in Servers |-> p1]
=============================================================================
