----------------------------- MODULE MCStreams -----------------------------
(***************************************************************************)
(* Instances of ChatStreams: two turns and a cancel of a third party.      *)
(***************************************************************************)
EXTENDS ChatStreams
=============================================================================
