---------------------------- MODULE MCRunDialog -----------------------------
(***************************************************************************)
(* A run that asks for two commands in turn. Its dialog may have a         *)
(* decision and two requests out at once.                                  *)
(***************************************************************************)
EXTENDS RunDialog, TLC

CONSTANTS r1, q1, q2

MCCommands == r1 :> 2

Symmetry == Permutations(Ids)
=============================================================================
