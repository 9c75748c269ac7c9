----------------------------- MODULE MCTxnManager -----------------------------
(***************************************************************************)
(* Instances of TxnManager for TLC.                                        *)
(***************************************************************************)
EXTENDS TxnHistory

CONSTANTS element, schema, zero, one

AllZero == [k \in Keys |-> zero]
===============================================================================
