-------------------------- MODULE MCTaskProcessPool --------------------------
(***************************************************************************)
(* An instance of TaskProcessPool for TLC.                                 *)
(***************************************************************************)
EXTENDS TaskProcessPool, TLC

CONSTANTS task

\* TestTask needs one node.
OneNode == task :> 1
=============================================================================
