----------------------------- MODULE MCScheduler -----------------------------
(***************************************************************************)
(* Small instances of Scheduler for TLC.  Three callers and sizes 1, 2 and *)
(* 3 against a budget clamped to 4 give batches of two and three, full     *)
(* ones, one cut short with a task left behind; three lengths to warm let  *)
(* some be seen by batches before, between and after those warmed.  Warm-up     *)
(* calls may fail, so the warm-up may end with lengths still cold.         *)
(***************************************************************************)
EXTENDS Scheduler, TLC

\* Callers are interchangeable: sound for the safety properties.
CallerSymmetry == Permutations(Callers)
=============================================================================
