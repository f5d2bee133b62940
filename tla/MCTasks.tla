------------------------------ MODULE MCTasks ------------------------------
(***************************************************************************)
(* Instances of BackgroundTasks: tasks of any kind, all of whose downloads *)
(* are of one file.                                                        *)
(***************************************************************************)
EXTENDS BackgroundTasks

CONSTANT f

MCDest == [t \in Tasks |-> f]
MCSize == [v \in Versions |-> 2]
=============================================================================
