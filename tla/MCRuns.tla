------------------------------- MODULE MCRuns -------------------------------
(***************************************************************************)
(* Instances of SubagentRuns: two definitions, g with room for two runs     *)
(* and h for one, under an app-wide cap of two.                            *)
(***************************************************************************)
EXTENDS SubagentRuns

CONSTANTS g, h

MCCap == [x \in Agents |-> IF x = g THEN 2 ELSE 1]
=============================================================================
