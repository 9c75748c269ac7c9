------------------------------ MODULE TxnHistory ------------------------------
(***************************************************************************)
(* TxnManager implements UndoHistory.  The recorded state is the one in    *)
(* the file; the states undo can go back to are those before each Txn of   *)
(* the session, and each range on the redo stack stands for the states     *)
(* after its Txns.                                                         *)
(***************************************************************************)
EXTENDS TxnManager

Recorded(id) == StateAt(disk.txns, hub[disk.parent], id)

Undoable ==
    IF job.op = "DeleteAll" THEN <<>>
    ELSE [n \in 1..curr[2] |-> Recorded(<<curr[1], n - 1>>)]

Redoable(range) ==
    [n \in 1..(range.last[2] - range.first[2]) |->
        Recorded(<<range.first[1], range.first[2] + n>>)]

History == INSTANCE UndoHistory WITH
    current <- disk.db,
    past <- Undoable,
    future <- [n \in DOMAIN reversed |-> Redoable(reversed[n])],
    base <- hub[disk.parent],
    command <- job.op

(***************************************************************************)
(* Undo, redo, discarding, saves, pushes, failures of any of them and      *)
(* crashes do to the recorded states exactly what UndoHistory says.        *)
(***************************************************************************)
UndoIsExact == History!Spec
===============================================================================
