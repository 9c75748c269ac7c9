------------------------------- MODULE TxnFiles -------------------------------
(***************************************************************************)
(* A briefcase that keeps the changesets of its Txns in .txn files beside  *)
(* it: each row of dgn_Txns holds the SHA1 checksum of the Txn's file.     *)
(* SQLite commits and rolls back rows; files change at once and for good.  *)
(* What TxnManager does with the tracked tables is left to the module of   *)
(* that name: here a save, an undo or a pull is what it does to rows and   *)
(* files.                                                                  *)
(*                                                                         *)
(* A call runs to its end before the next; those that change files are cut *)
(* into steps (call), so that a failure or a crash can fall between two.   *)
(* The client does not push or discard during a pull, nor pull or discard  *)
(* during a push, though no code stops it.  All Txns have files: rows that *)
(* hold their changes, written by older versions, are left out.  A COMMIT  *)
(* does not fail, but in a rebase (FailWhileReplacing).                    *)
(***************************************************************************)
EXTENDS TxnTable, Sequences

CONSTANTS
    Changesets,    (* what edits, and rebasing, may give a Txn              *)
    Torn,          (* what a write that did not end leaves in a file        *)
    MaxSession,    (* bound: the highest session number                     *)
    MaxTxns,       (* bound: the Txns of a session                          *)
    Mishaps        (* which of MishapKinds may happen                       *)

ASSUME ChangesetsAssumption == Changesets \subseteq Changes /\ Torn \notin Changesets
ASSUME BoundsAssumption == MaxSession \in Nat /\ MaxTxns \in Nat

MishapKinds == {
    "DeleteFails",          (* a file cannot be deleted and stays behind    *)
    "CrashWhileReplacing",  (* a crash between replacing the file of a Txn  *)
                            (* that is rebased and the COMMIT of its row    *)
    "FailWhileReplacing",   (* a file operation, DELETE or COMMIT fails then *)
    "DiscardWhilePulling"}  (* the client gives up all changes in a rebase  *)
ASSUME MishapsAssumption == Mishaps \subseteq MishapKinds

VARIABLES
    files,     (* the .txn files and what is in them                        *)
    txns,      (* dgn_Txns as the open SQLite transaction sees it; the      *)
               (* change of a row stands for the checksum of its file       *)
    pull,      (* PullMergeConf: where the local Txns of a pull end, or     *)
               (* NoTxn when there is no pull                               *)
    disk,      (* [txns, pull] as of the last COMMIT                        *)
    curr,      (* m_curr                                                    *)
    redo,      (* m_reversedTxn: stack of reversed ranges                   *)
    pushing,   (* where the changeset being uploaded ends, or NoTxn         *)
    released,  (* committed rows nobody needs: uploaded, or given up        *)
    call       (* progress of a call that changes files                     *)

rowVars == <<txns, pull>>
vars == <<files, rowVars, disk, curr, redo, pushing, released, call>>

FileRows == [deleted : BOOLEAN, change : Changesets]
Contents == Changesets \cup {Torn}
Idle == [op |-> "None", at |-> "Idle", ids |-> {}, kept |-> Torn]

-------------------------------------------------------------------------------
(***************************************************************************)
(* Files.  A file belongs to a row when its checksum is the one stored.    *)
(***************************************************************************)
IsValid(table, id) == id \in DOMAIN files /\ files[id] = table[id].change

Without(function, ids) == [i \in DOMAIN function \ ids |-> function[i]]
WriteFile(id, content) ==
    files' = [i \in DOMAIN files \cup {id} |-> IF i = id THEN content ELSE files[i]]
RemoveFile(id) == files' = Without(files, {id})

-------------------------------------------------------------------------------
(***************************************************************************)
(* COMMIT and ROLLBACK, the calls of the client, and sessions.             *)
(***************************************************************************)
ClientReady == call = Idle
Reversed == {id \in DOMAIN txns : txns[id].deleted}
NewSessions(table) ==
    {id \in {<<s, 0>> : s \in 1..MaxSession} : IsNewSession(table, id)}

(* A row that is gone, or was written anew (call.ids), is released no more. *)
Persist ==
    /\ disk' = [txns |-> txns', pull |-> pull']
    /\ released' = (released \cap DOMAIN txns') \ call.ids

Rollback == txns' = disk.txns /\ pull' = disk.pull

(* After a save that failed, the client calls this first.                  *)
AbandonChanges ==
    /\ ClientReady \/ call.op = "SaveFailed"
    /\ Rollback
    /\ call' = Idle
    /\ UNCHANGED <<files, disk, curr, redo, pushing, released>>

SaveUntracked ==
    /\ ClientReady
    /\ UNCHANGED <<files, rowVars, curr, redo, pushing, call>>
    /\ Persist

RestartTxnSession ==
    /\ ClientReady
    /\ curr' \in NewSessions(txns) /\ redo' = <<>>
    /\ UNCHANGED <<files, rowVars, disk, pushing, released, call>>

-------------------------------------------------------------------------------
(***************************************************************************)
(* Deleting Txns.  Three loops delete the files of the rows they are about *)
(* to delete: DeleteReversedTxns, DeleteFromStartTo and DeleteAllTxns;     *)
(* PullMergeEraseTxn does it for one.  A file that cannot be deleted is    *)
(* left behind and the loop goes on.                                       *)
(***************************************************************************)
Delete(op, ids) == call' = [Idle EXCEPT !.op = op, !.at = "Files", !.ids = ids]
FaultyDeleteReversedTxns(op) == Delete(op, Reversed) /\ UNCHANGED redo
DeleteReversedTxns(op) == Delete(op, Reversed) /\ redo' = <<>>

DeleteTxnFile ==
    /\ call.at = "Files"
    /\ \E id \in call.ids \cap DOMAIN files : RemoveFile(id)
    /\ UNCHANGED <<rowVars, disk, curr, redo, pushing, released, call>>

AfterDelete ==
    CASE call.op \in {"Save", "FinishSave"} -> "Propagate"
      [] call.op \in {"Push", "Pull", "Discard"} -> "Read"
      [] OTHER -> "Commit"

DeleteRows ==
    /\ call.at = "Files"
    /\ call.ids \cap DOMAIN files # {} => "DeleteFails" \in Mishaps
    /\ txns' = Without(txns, call.ids)
    /\ call' = IF call.op = "Cancel" THEN Idle
               ELSE [call EXCEPT !.at = AfterDelete]
    /\ UNCHANGED <<files, pull, disk, curr, redo, pushing, released>>

-------------------------------------------------------------------------------
(***************************************************************************)
(* SaveChanges with edits: reversed Txns are deleted, changes propagated,  *)
(* then each new Txn is written to its file and inserted, then COMMIT.     *)
(***************************************************************************)
Saving == call.op \in {"Save", "FinishSave"}

SaveChanges ==
    /\ ClientReady /\ pull = NoTxn
    /\ DeleteReversedTxns("Save")
    /\ UNCHANGED <<files, rowVars, disk, curr, pushing, released>>

(* PropagateChangesFailed: neither COMMIT nor ROLLBACK follows.            *)
SaveFails ==
    /\ Saving /\ call.at = "Propagate"
    /\ call' = [Idle EXCEPT !.op = "SaveFailed", !.at = "Failed"]
    /\ UNCHANGED <<files, rowVars, disk, curr, redo, pushing, released>>

WriteTxnToFile ==
    /\ Saving /\ call.at \in {"Propagate", "Write"}
    /\ curr[2] < MaxTxns
    /\ \E change \in Changesets : WriteFile(curr, change)
    /\ call' = [call EXCEPT !.at = IF @ = "Propagate" THEN "Insert" ELSE "InsertLast"]
    /\ UNCHANGED <<rowVars, disk, curr, redo, pushing, released>>

(* Fault: a file that is there is taken for whole.                         *)
FaultyAbort ==
    call' = IF curr \in DOMAIN files' THEN [call EXCEPT !.at = "Insert"]
            ELSE [Idle EXCEPT !.op = "Aborted", !.at = "Aborted"]

(* An error after propagation is fatal: the application must quit.         *)
Abort == call' = [Idle EXCEPT !.op = "Aborted", !.at = "Aborted"]

WriteTxnToFileFails ==
    /\ Saving /\ call.at \in {"Propagate", "Write"}
    /\ UNCHANGED files \/ WriteFile(curr, Torn)
    /\ Abort
    /\ UNCHANGED <<rowVars, disk, curr, redo, pushing, released>>

(* The row gets the checksum of the file as written.  A DDL or schema Txn  *)
(* starts a new session; a Txn with the data may follow one with DDL.      *)
Inserting == Saving /\ call.at \in {"Insert", "InsertLast"}

InsertTxn(next) ==
    /\ Inserting
    /\ txns' = Insert(txns, curr, [deleted |-> FALSE, change |-> files[curr]])
    /\ call' = [call EXCEPT !.at = next, !.ids = @ \cup {curr}]
    /\ \/ next = "Commit" /\ curr' = Increment(curr)
       \/ next = "Commit" /\ curr' \in NewSessions(txns')
       \/ next = "Write" /\ call.at = "Insert" /\ curr' \in NewSessions(txns')
    /\ UNCHANGED <<files, pull, disk, redo, pushing, released>>

InsertTxnFails ==
    /\ Inserting
    /\ RemoveFile(curr)
    /\ Abort
    /\ UNCHANGED <<rowVars, disk, curr, redo, pushing, released>>

CommitSave ==
    /\ call.op = "Save" /\ call.at = "Commit"
    /\ call' = Idle
    /\ UNCHANGED <<files, rowVars, curr, redo, pushing>>
    /\ Persist

-------------------------------------------------------------------------------
(***************************************************************************)
(* Undo and redo read the file of every Txn of the range, and give up when *)
(* one is missing or its checksum is not the one in the row.  They change  *)
(* no file, and commit once: one step each.                                *)
(***************************************************************************)
InRange(rows, first, last) ==
    {id \in DOMAIN rows : ~Before(id, first) /\ Before(id, last)}
Marked(rows, ids, flag) ==
    [i \in DOMAIN rows |-> IF i \in ids THEN [rows[i] EXCEPT !.deleted = flag] ELSE rows[i]]

MayUndo(first) ==
    /\ ClientReady /\ pull = NoTxn
    /\ Before(first, curr) /\ ~Before(first, SessionStart(curr))

(* A DDL Txn is not read, but its file is there like those of the others.  *)
Readable(rows, ids) == \A id \in ids : IsValid(rows, id)

(* What if the reversal were left for the next save to commit?             *)
FaultyReverseRows(first) ==
    LET range == InRange(txns, first, curr)
    IN /\ Readable(txns, range)
       /\ txns' = Marked(txns, range, TRUE) /\ pull' = pull
       /\ curr' = first
       /\ UNCHANGED <<disk, released>>

(* Unsaved edits are given up first, and with them all that the open       *)
(* transaction holds: the walk may start from the committed rows.  A Txn   *)
(* that cannot be read, or applied, ends it: all is rolled back.           *)
ReverseRows(first) ==
    \/ \E rows \in {txns, disk.txns} :
          LET range == InRange(rows, first, curr)
          IN /\ Readable(rows, range)
             /\ txns' = Marked(rows, range, TRUE) /\ pull' = pull
             /\ curr' = first
             /\ Persist
    \/ Rollback /\ UNCHANGED <<disk, released, curr>>

ReverseTxnRange(first) ==
    /\ MayUndo(first)
    /\ ReverseRows(first)
    /\ redo' = IF curr' = first
               THEN Append(redo, [first |-> first, last |-> curr]) ELSE redo
    /\ UNCHANGED <<files, pushing, call>>

(* CancelTo deletes the reversed Txns in any case, and does not commit it.  *)
CancelTo(pos) ==
    /\ MayUndo(pos)
    /\ ReverseRows(pos)
    /\ redo' = <<>>
    /\ Delete("Cancel", {id \in DOMAIN txns' : txns'[id].deleted})
    /\ UNCHANGED <<files, pushing>>

CancelNothing ==
    /\ ClientReady /\ pull = NoTxn
    /\ DeleteReversedTxns("Cancel")
    /\ UNCHANGED <<files, rowVars, disk, curr, pushing, released>>

ReinstateTxn ==
    /\ ClientReady /\ pull = NoTxn /\ redo # <<>>
    /\ UNCHANGED <<files, pushing, call>>
    /\ \/ LET top == redo[Len(redo)]
          IN \E rows \in {txns, disk.txns} :
                LET range == InRange(rows, top.first, top.last)
                IN /\ Readable(rows, range)
                   /\ txns' = Marked(rows, range, FALSE) /\ pull' = pull
                   /\ curr' = top.last
                   /\ redo' = SubSeq(redo, 1, Len(redo) - 1)
                   /\ Persist
       \/ Rollback /\ UNCHANGED <<disk, released, curr, redo>>

-------------------------------------------------------------------------------
(***************************************************************************)
(* Pushing.  StartCreateChangeset reads every Txn; FinishCreateChangeset    *)
(* deletes those that were uploaded, and saves edits made meanwhile.       *)
(***************************************************************************)
StartCreateChangeset ==
    /\ ClientReady /\ pushing = NoTxn /\ pull = NoTxn
    /\ DeleteReversedTxns("Push")
    /\ UNCHANGED <<files, rowVars, disk, curr, pushing, released>>

PackTxns ==
    /\ call.op = "Push" /\ call.at = "Read"
    /\ HasPendingTxns(txns) /\ Readable(txns, DOMAIN txns)
    /\ pushing' = curr /\ curr' \in NewSessions(txns) /\ redo' = <<>>
    /\ call' = Idle
    /\ UNCHANGED <<files, rowVars>>
    /\ Persist

(* Nothing to push, or a Txn that cannot be read: the call throws.         *)
PackTxnsFails ==
    /\ call.op = "Push" /\ call.at = "Read"
    /\ ~(HasPendingTxns(txns) /\ Readable(txns, DOMAIN txns))
    /\ call' = Idle
    /\ UNCHANGED <<files, rowVars, disk, curr, redo, pushing, released>>

(* The upload failed, or was given up.                                     *)
StopCreateChangeset ==
    /\ ClientReady /\ pushing # NoTxn
    /\ pushing' = NoTxn
    /\ UNCHANGED <<files, rowVars, disk, curr, redo, released, call>>

FinishCreateChangeset(op) ==
    /\ ClientReady /\ pushing # NoTxn /\ pull = NoTxn
    /\ LET uploaded == IdsBefore(txns, pushing)
       IN /\ released' = released \cup uploaded
          /\ \/ /\ op = "Finish"
                /\ Delete(op, uploaded) /\ UNCHANGED redo
             \/ /\ op = "FinishSave"
                /\ Delete(op, uploaded \cup Reversed) /\ redo' = <<>>
    /\ UNCHANGED <<files, rowVars, disk, curr, pushing>>

CommitFinish ==
    /\ call.op \in {"Finish", "FinishSave"} /\ call.at = "Commit"
    /\ pushing' = NoTxn
    /\ IF HasPendingTxns(txns) THEN UNCHANGED <<curr, redo>>
       ELSE curr' \in NewSessions(txns) /\ redo' = <<>>
    /\ call' = Idle
    /\ UNCHANGED <<files, rowVars>>
    /\ Persist

-------------------------------------------------------------------------------
(***************************************************************************)
(* DeleteAllTxns, and DiscardLocalChanges, which reverses the Txns first.  *)
(* The rows are committed once more before they and their files go.        *)
(***************************************************************************)
GiveUpTxns ==
    /\ disk' = [txns |-> txns', pull |-> pull']
    /\ released' = DOMAIN txns'
    /\ Delete("DeleteAll", DOMAIN txns')

DeleteAllTxns ==
    /\ ClientReady /\ pull = NoTxn /\ pushing = NoTxn
    /\ txns' = txns /\ pull' = pull
    /\ GiveUpTxns
    /\ UNCHANGED <<files, curr, redo, pushing>>

CommitDeleteAll ==
    /\ call.op = "DeleteAll" /\ call.at = "Commit"
    /\ curr' \in NewSessions(txns) /\ redo' = <<>>
    /\ call' = Idle
    /\ UNCHANGED <<files, rowVars, pushing>>
    /\ Persist

DiscardLocalChanges ==
    /\ ClientReady /\ pushing = NoTxn
    /\ pull # NoTxn => "DiscardWhilePulling" \in Mishaps
    /\ txns' = disk.txns /\ pull' = disk.pull /\ redo' = <<>>
    /\ Delete("Discard", {id \in DOMAIN txns' : txns'[id].deleted})
    /\ UNCHANGED <<files, disk, curr, pushing, released>>

DiscardReverse ==
    /\ call.op = "Discard" /\ call.at = "Read"
    /\ Readable(txns, DOMAIN txns)
    /\ txns' = Marked(txns, DOMAIN txns, TRUE) /\ pull' = NoTxn
    /\ GiveUpTxns
    /\ UNCHANGED <<files, curr, redo, pushing>>

(* A Txn could not be read, or not be applied.                             *)
DiscardFails ==
    /\ call.op = "Discard" /\ call.at = "Read"
    /\ Rollback
    /\ call' = Idle
    /\ UNCHANGED <<files, disk, curr, redo, pushing, released>>

-------------------------------------------------------------------------------
(***************************************************************************)
(* A pull reverses all local Txns, and commits that with the first         *)
(* changeset it merges; then it rebases the Txns one by one.               *)
(***************************************************************************)
PullMergeReverseLocalChanges ==
    /\ ClientReady /\ pull = NoTxn /\ pushing = NoTxn
    /\ DeleteReversedTxns("Pull")
    /\ UNCHANGED <<files, rowVars, disk, curr, pushing, released>>

MergeChangeset ==
    /\ call.op = "Pull" /\ call.at = "Read"
    /\ Readable(txns, DOMAIN txns)
    /\ txns' = Marked(txns, DOMAIN txns, TRUE) /\ pull' = curr
    /\ Persist
    /\ call' = Idle
    /\ UNCHANGED <<files, curr, redo, pushing>>

PullFails ==
    /\ call.op = "Pull" /\ call.at = "Read"
    /\ Rollback
    /\ call' = Idle
    /\ UNCHANGED <<files, disk, curr, redo, pushing, released>>

MayRebase(id) ==
    /\ ClientReady /\ pull # NoTxn
    /\ IsFirst(id, Reversed)

Rebase(at, id) == call' = [op |-> "Rebase", at |-> at, ids |-> {id}, kept |-> files[id]]
RebaseFailed == call' = [Idle EXCEPT !.op = "RebaseFailed", !.at = "Failed"]

(* PullMergeUpdateTxn writes the new changeset to a file of its own, and    *)
(* updates the row.  Only then is the old file moved aside, the new one    *)
(* moved in its place, and the old one deleted.                            *)
PullMergeUpdateTxn(id) ==
    /\ MayRebase(id) /\ IsValid(txns, id)
    /\ \E change \in Changesets :
          txns' = Insert(txns, id, [deleted |-> FALSE, change |-> change])
    /\ Rebase("MoveAside", id)
    /\ UNCHANGED <<files, pull, disk, curr, redo, pushing, released>>

MoveAside ==
    /\ call.op = "Rebase" /\ call.at = "MoveAside"
    /\ \E id \in call.ids : RemoveFile(id)
    /\ call' = [call EXCEPT !.at = "MoveIn"]
    /\ UNCHANGED <<rowVars, disk, curr, redo, pushing, released>>

MoveIn ==
    /\ call.op = "Rebase" /\ call.at = "MoveIn"
    /\ \E id \in call.ids : WriteFile(id, txns[id].change)
    /\ call' = [call EXCEPT !.at = "Commit"]
    /\ UNCHANGED <<rowVars, disk, curr, redo, pushing, released>>

(* A move that fails leaves the old file, or puts it back, unless that     *)
(* fails as well; nothing is put back when the DELETE or COMMIT fails.     *)
ReplacingFails ==
    /\ call.op \in {"Rebase", "Erase"}
    /\ \/ call.at = "MoveAside" /\ UNCHANGED files
       \/ call.at = "MoveIn" /\ \E id \in call.ids : WriteFile(id, call.kept)
       \/ call.at \in {"MoveIn", "Commit"} /\ "FailWhileReplacing" \in Mishaps
          /\ UNCHANGED files
    /\ RebaseFailed
    /\ UNCHANGED <<rowVars, disk, curr, redo, pushing, released>>

(* The Txn could not be read, applied or written.                          *)
RebaseFails ==
    /\ ClientReady /\ pull # NoTxn
    /\ RebaseFailed
    /\ UNCHANGED <<files, rowVars, disk, curr, redo, pushing, released>>

PullMergeRebaseAbortTxn ==
    /\ call.op = "RebaseFailed"
    /\ Rollback
    /\ call' = Idle
    /\ UNCHANGED <<files, disk, curr, redo, pushing, released>>

(* A Txn left with no change is erased; a DDL one is only marked.          *)
PullMergeEraseTxn(id) ==
    /\ MayRebase(id) /\ IsValid(txns, id)
    /\ Delete("Erase", {id})
    /\ UNCHANGED <<files, rowVars, disk, curr, redo, pushing, released>>

PullMergeSetTxnActive(id) ==
    /\ MayRebase(id)
    /\ txns' = SetDeleted(txns, id, FALSE)
    /\ curr' = id
    /\ UNCHANGED <<files, pull, disk, redo, pushing, released, call>>

CommitRebase ==
    /\ call.op \in {"Rebase", "Erase"} /\ call.at = "Commit"
    /\ curr' \in call.ids
    /\ call' = Idle
    /\ UNCHANGED <<files, rowVars, redo, pushing>>
    /\ Persist

PullMergeRebaseEnd ==
    /\ ClientReady /\ pull # NoTxn /\ Reversed = {}
    /\ curr' = pull /\ redo' = <<>>
    /\ pull' = NoTxn /\ txns' = txns
    /\ Persist
    /\ UNCHANGED <<files, pushing, call>>

-------------------------------------------------------------------------------
(***************************************************************************)
(* A crash, or closing without a save, rolls back.  Opening checks every   *)
(* file; a briefcase that fails the check does not open.                   *)
(***************************************************************************)
Replacing(id) ==
    /\ call.op \in {"Rebase", "Erase"} /\ call.at # "MoveAside"
    /\ id \in call.ids

Crash ==
    /\ call.op \notin {"Closed", "Refused"}
    /\ (\E id \in call.ids : Replacing(id)) => "CrashWhileReplacing" \in Mishaps
    /\ Rollback
    /\ pushing' = NoTxn /\ redo' = <<>>
    /\ call' = [Idle EXCEPT !.op = "Closed", !.at = "Closed"]
    /\ UNCHANGED <<files, disk, curr, released>>

Open ==
    /\ call.op = "Closed"
    /\ IF Readable(txns, DOMAIN txns)
       THEN call' = Idle /\ curr' \in NewSessions(txns)
       ELSE call' = [Idle EXCEPT !.op = "Refused", !.at = "Closed"] /\ UNCHANGED curr
    /\ UNCHANGED <<files, rowVars, disk, redo, pushing, released>>

Init ==
    /\ files = EmptyMap /\ txns = EmptyMap /\ pull = NoTxn
    /\ disk = [txns |-> txns, pull |-> pull]
    /\ curr = <<1, 0>> /\ redo = <<>>
    /\ pushing = NoTxn /\ released = {} /\ call = Idle

SaveNext ==
    \/ SaveChanges \/ SaveFails \/ WriteTxnToFile \/ WriteTxnToFileFails
    \/ InsertTxn("Write") \/ InsertTxn("Commit") \/ InsertTxnFails \/ CommitSave
    \/ SaveUntracked \/ AbandonChanges \/ RestartTxnSession

UndoNext ==
    \/ \E id \in DOMAIN txns \cup DOMAIN disk.txns : ReverseTxnRange(id) \/ CancelTo(id)
    \/ CancelNothing \/ ReinstateTxn

PushNext ==
    \/ StartCreateChangeset \/ PackTxns \/ PackTxnsFails \/ StopCreateChangeset
    \/ \E op \in {"Finish", "FinishSave"} : FinishCreateChangeset(op)
    \/ CommitFinish

DiscardNext ==
    \/ DeleteAllTxns \/ CommitDeleteAll
    \/ DiscardLocalChanges \/ DiscardReverse \/ DiscardFails

PullNext ==
    \/ PullMergeReverseLocalChanges \/ MergeChangeset \/ PullFails
    \/ \E id \in Reversed :
          PullMergeUpdateTxn(id) \/ PullMergeEraseTxn(id) \/ PullMergeSetTxnActive(id)
    \/ MoveAside \/ MoveIn \/ ReplacingFails
    \/ RebaseFails \/ PullMergeRebaseAbortTxn \/ CommitRebase
    \/ PullMergeRebaseEnd

Next ==
    \/ DeleteTxnFile \/ DeleteRows
    \/ SaveNext \/ UndoNext \/ PushNext \/ DiscardNext \/ PullNext
    \/ Crash \/ Open

Spec == Init /\ [][Next]_vars

-------------------------------------------------------------------------------
Ops == {"None", "Save", "Cancel", "Push", "Finish", "FinishSave", "DeleteAll",
        "Discard", "Pull", "Rebase", "Erase", "SaveFailed", "RebaseFailed",
        "Aborted", "Closed", "Refused"}
Places == {"Idle", "Files", "Propagate", "Write", "Insert", "InsertLast", "Read", "MoveAside",
           "MoveIn", "Commit", "Failed", "Aborted", "Closed"}

Calls == [op : Ops, at : Places, ids : SUBSET TxnIds, kept : Contents]

IsFileTable(table) ==
    /\ table = [id \in DOMAIN table |-> table[id]]
    /\ DOMAIN table \subseteq TxnIds
    /\ \A id \in DOMAIN table : table[id] \in FileRows

(* Every variable has its type: rows only of whole changesets, files of     *)
(* whole or torn ones.                                                     *)
FilesTypeOK ==
    /\ files = [id \in DOMAIN files |-> files[id]]
    /\ DOMAIN files \subseteq TxnIds /\ \A id \in DOMAIN files : files[id] \in Contents
    /\ IsFileTable(txns) /\ IsFileTable(disk.txns)
    /\ disk = [txns |-> disk.txns, pull |-> disk.pull]
    /\ {pull, disk.pull, pushing} \subseteq TxnIds \cup {NoTxn}
    /\ curr \in TxnIds
    /\ redo \in Seq([first : TxnIds, last : TxnIds])
    /\ released \subseteq TxnIds
    /\ call \in Calls

(* A committed Txn that is still needed: live, or waiting to be rebased.   *)
IsLocal(id) ==
    /\ id \in DOMAIN disk.txns /\ id \notin released
    /\ ~disk.txns[id].deleted \/ disk.pull # NoTxn

(* No local Txn loses its file: whatever step of a save, undo, cancel, push *)
(* or rebase fails or is cut off by a crash, each committed Txn that was    *)
(* neither undone, uploaded nor given up has its file, with the checksum of *)
(* its row, except while the rebase replaces it.                           *)
LocalTxnsKeepFiles ==
    \A id \in DOMAIN disk.txns :
        IsLocal(id) /\ ~Replacing(id) => IsValid(disk.txns, id)

(* Between calls, each Txn that undo or redo may be asked for can be read.  *)
CanBeAskedFor(id) ==
    \/ ~txns[id].deleted
    \/ \E n \in DOMAIN redo : id \in InRange(txns, redo[n].first, redo[n].last)

UndoRedoFindFiles ==
    ClientReady /\ pull = NoTxn =>
        \A id \in DOMAIN txns \ released : CanBeAskedFor(id) => IsValid(txns, id)

(* A briefcase that was closed, or crashed, opens again.                   *)
BriefcaseOpens == call.op # "Refused"
===============================================================================
