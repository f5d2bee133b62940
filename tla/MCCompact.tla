----------------------------- MODULE MCCompact -----------------------------
(***************************************************************************)
(* Instances of Compaction.                                                *)
(***************************************************************************)
EXTENDS Compaction
=============================================================================
