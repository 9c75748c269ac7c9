------------------------------ MODULE MCTxnFiles ------------------------------
(***************************************************************************)
(* Instances of TxnFiles for TLC: the changesets of one key.               *)
(***************************************************************************)
EXTENDS TxnFiles

CONSTANTS element, zero, one

Set(from, to) == [k \in {element} |-> [old |-> from, new |-> to]]
UpOrDown == {Set(zero, one), Set(one, zero)}
===============================================================================
