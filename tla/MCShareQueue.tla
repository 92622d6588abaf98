---------------------------- MODULE MCShareQueue ----------------------------
(***************************************************************************)
(* Instances of ShareQueue for TLC.                                        *)
(***************************************************************************)
EXTENDS ShareQueue, TLC

CONSTANTS small, large

\* TestTask needs one node; a task of more than 512 bytes needs two.
OneOrTwoNodes == small :> 1 @@ large :> 2
=============================================================================
