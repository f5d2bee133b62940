------------------------------ MODULE MCAutos ------------------------------
(***************************************************************************)
(* The instance of Automations: the app and the OS scheduler's binary, and *)
(* one automation of a bot whose lock they race for.                       *)
(***************************************************************************)
EXTENDS Automations
=============================================================================
