------------------------------ MODULE MCSpawns ------------------------------
(***************************************************************************)
(* Instances of MeshSpawns: one root and the calls it makes at once.       *)
(***************************************************************************)
EXTENDS MeshSpawns
=============================================================================
