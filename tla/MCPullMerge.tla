------------------------------ MODULE MCPullMerge ------------------------------
(***************************************************************************)
(* Instances of PullMerge for TLC.                                         *)
(***************************************************************************)
EXTENDS PullMerge

CONSTANTS element, schema, zero, one, two

AllZero == [k \in Keys |-> zero]
===============================================================================
