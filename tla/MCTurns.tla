------------------------------ MODULE MCTurns ------------------------------
(***************************************************************************)
(* Instances of HarnessTurns: a turn, and the one that supersedes it.      *)
(***************************************************************************)
EXTENDS HarnessTurns
=============================================================================
