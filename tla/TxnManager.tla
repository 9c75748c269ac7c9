------------------------------ MODULE TxnManager ------------------------------
(***************************************************************************)
(* One open briefcase and its TxnManager: edits tracked by SQLite's        *)
(* session, SaveChanges turning them into Txns, undo and redo, packaging   *)
(* the Txns into a changeset that is pushed, discarding them, and crashes. *)
(* The pull/merge/rebase operations are added by module PullMerge.         *)
(*                                                                         *)
(* db, txns, conf and parent are what the open SQLite transaction sees;    *)
(* disk is the same four values as of the last COMMIT.  Everything else    *)
(* except hub lives in memory and is lost by a crash.  The application     *)
(* thread owns the TxnManager, so a call runs to its end before the next;  *)
(* the calls that loop over Txns are split into one step per Txn (job),    *)
(* so that a failure or a crash can fall between two of them.              *)
(***************************************************************************)
EXTENDS TxnTable, Sequences

CONSTANTS
    SchemaKeys,           (* the keys in ec_* and be_Props tables           *)
    InitialState,         (* the database as first downloaded               *)
    MaxSession,           (* bound: the highest session number              *)
    MaxTxns,              (* bound: rows in dgn_Txns, and ids of a session  *)
    MaxTimeline,          (* bound: versions of the iModel on the hub       *)
    MaxNesting,           (* bound: nested multi-Txn operations             *)
    Mishaps               (* which of MishapKinds may happen                *)

ASSUME SchemaKeysAssumption == SchemaKeys \subseteq Keys
ASSUME InitialStateAssumption == InitialState \in States
ASSUME BoundsAssumption ==
    /\ MaxSession \in Nat /\ MaxTxns \in Nat
    /\ MaxTimeline \in Nat /\ MaxNesting \in Nat

(* Calls the code accepts and crashes it may meet that it does not survive *)
(* unharmed: each is let happen in a run of its own.                       *)
MishapKinds == {
    "SaveAfterFailure",   (* the client goes on after a failed save         *)
    "DiscardWhilePushing",(* it discards its Txns while it pushes them      *)
    "PullWhilePushing",   (* it pulls between starting and finishing a push *)
    "SaveWhileMerging",   (* it edits or pushes before the pull has ended   *)
    "MergeOverRedo",      (* it merges a changeset that touches what a      *)
                          (* reversed Txn touches                           *)
    "MergeOverTxns",      (* or what a live local Txn touches               *)
    "RestartRebase",      (* a rebase fails after its first Txn             *)
    "SessionGoesBack",    (* it pushes when the Txns that are left put the  *)
                          (* new session before the present one             *)
    "UndoPastErased",     (* it goes back to a Txn that a rebase has erased *)
    "CrashInRebase"}      (* a crash while a Txn is being rebased           *)
ASSUME MishapsAssumption == Mishaps \subseteq MishapKinds

VARIABLES
    db,        (* the tracked tables, uncommitted edits included            *)
    txns,      (* dgn_Txns                                                  *)
    conf,      (* PullMergeConf, a row of be_Local                          *)
    parent,    (* parent changeset: an index of hub, in be_Local            *)
    disk,      (* [db, txns, conf, parent] as of the last COMMIT            *)
    curr,      (* m_curr: the next TxnId                                    *)
    reversed,  (* m_reversedTxn: stack of reversed ranges                   *)
    multi,     (* m_multiTxnOp: where the open multi-Txn operations began   *)
    tracked,   (* the session: keys edited since the last save, with the    *)
               (* values they had then                                      *)
    ddl,       (* m_ddlChanges is not empty                                 *)
    lastSave,  (* what the last SaveChanges told the client                 *)
    creating,  (* m_changesetInProgress                                     *)
    job,       (* progress of a call that loops over Txns                   *)
    hub        (* external: the versions of the iModel on iModelHub         *)

fileVars == <<db, txns, conf, parent>>
txnVars == <<curr, reversed, multi>>
editVars == <<tracked, ddl, lastSave>>
vars == <<fileVars, disk, txnVars, editVars, creating, job, hub>>

Stages == {"None", "Merging", "Rebasing"}
Confs == [stage : Stages, end : TxnIds \cup {NoTxn}, inProgress : TxnIds \cup {NoTxn}]
NoConf == [stage |-> "None", end |-> NoTxn, inProgress |-> NoTxn]
JobOps == {"None", "Reverse", "Reinstate", "Discard", "DeleteAll", "PullReverse"}
Ranges == [first : TxnIds, last : TxnIds]
Idle == [op |-> "None", at |-> NoTxn, first |-> NoTxn, last |-> NoTxn,
         cancel |-> FALSE]
NotCreating == [active |-> FALSE, end |-> NoTxn, parent |-> 1,
                change |-> EmptyMap, uploaded |-> FALSE]

-------------------------------------------------------------------------------
(***************************************************************************)
(* COMMIT and ROLLBACK of the open SQLite transaction.                     *)
(***************************************************************************)
InProgress == conf.stage # "None"
Rebasing == conf.stage = "Rebasing"

Persist == disk' = [db |-> db', txns |-> txns', conf |-> conf', parent |-> parent']

(* Fault: the session goes on tracking what was rolled back.               *)
FaultyRollback ==
    /\ db' = disk.db /\ txns' = disk.txns
    /\ conf' = disk.conf /\ parent' = disk.parent
    /\ ddl' = FALSE /\ lastSave' = "OK" /\ UNCHANGED tracked

Rollback ==
    /\ db' = disk.db /\ txns' = disk.txns
    /\ conf' = disk.conf /\ parent' = disk.parent
    /\ tracked' = EmptyMap /\ ddl' = FALSE /\ lastSave' = "OK"

HasDataChanges == DOMAIN tracked # {}
HasChanges == HasDataChanges \/ ddl

AbandonIfChanged ==
    IF HasChanges THEN Rollback ELSE UNCHANGED <<fileVars, editVars>>

(* No call is running, and the client may make one: after a save that      *)
(* failed it calls AbandonChanges first.                                   *)
ClientReady ==
    /\ job.op = "None"
    /\ lastSave = "PropagateChangesFailed" => "SaveAfterFailure" \in Mishaps

MayEdit ==
    /\ ClientReady
    /\ conf.stage = "Merging" => "SaveWhileMerging" \in Mishaps

(* Initialize(New) finds the next session in the table.                    *)
NewSessions(table) ==
    {id \in {<<s, 0>> : s \in 1..MaxSession} : IsNewSession(table, id)}

-------------------------------------------------------------------------------
(***************************************************************************)
(* Editing: the session remembers the value a key had when it was first    *)
(* touched, and collects DDL statements.                                   *)
(***************************************************************************)
Edit(key, value) ==
    /\ MayEdit
    /\ value # db[key]
    /\ db' = [db EXCEPT ![key] = value]
    /\ tracked' = [k \in DOMAIN tracked \cup {key} |->
                      IF k \in DOMAIN tracked THEN tracked[k] ELSE db[k]]
    /\ UNCHANGED <<txns, conf, parent, disk, txnVars, ddl, lastSave, creating, job, hub>>

EditDdl ==
    /\ MayEdit
    /\ ddl' = TRUE
    /\ UNCHANGED <<fileVars, disk, txnVars, tracked, lastSave, creating, job, hub>>

AbandonChanges ==
    /\ job.op = "None"
    /\ Rollback
    /\ UNCHANGED <<disk, txnVars, creating, job, hub>>

-------------------------------------------------------------------------------
(***************************************************************************)
(* SaveChanges: StopSavepoint calls _OnCommit, then COMMITs.               *)
(***************************************************************************)
Original(key) == IF key \in DOMAIN tracked THEN tracked[key] ELSE db[key]
BeforeEdits == [k \in Keys |-> Original(k)]
DirectChange == Difference(BeforeEdits, db)
DirectDataKeys == DOMAIN DirectChange \ SchemaKeys

(* PropagateChanges runs the element dependency handlers, which may change *)
(* other data; it is only called when the edits changed some.              *)
Propagated ==
    IF DirectDataKeys = {} THEN {db}
    ELSE {db} \cup {[db EXCEPT ![k] = v] : k \in Keys \ SchemaKeys, v \in Values}

(* SaveTxn inserts a row at curr.  A Txn that is not pure data ends the     *)
(* session: nothing up to it can be undone any more.                       *)
SaveTxn(from, type, change) ==
    LET row == [type |-> type, deleted |-> FALSE, change |-> change,
                grouped |-> from.multi # <<>> /\ Before(Head(from.multi), from.curr)]
        table == Insert(from.txns, from.curr, row)
    IN IF type = "Data"
       THEN {[txns |-> table, curr |-> Increment(from.curr), multi |-> from.multi]}
       ELSE {[txns |-> table, curr |-> id, multi |-> <<>>] : id \in NewSessions(table)}

SaveDdlTxn(from) == IF ddl THEN SaveTxn(from, "Ddl", EmptyMap) ELSE {from}

SaveSchemaAndDataTxns(from, change) ==
    IF DOMAIN change = {} THEN {from}
    ELSE SaveTxn(from,
                 IF DOMAIN DirectChange \cap SchemaKeys # {} THEN "EcSchema" ELSE "Data",
                 change)

NothingToSave ==
    IF Rebasing THEN ~HasDataChanges ELSE DOMAIN DirectChange = {} /\ ~ddl

(* Fault: the redo stack survives a commit.                                *)
FaultySettleSession(table, id, operations, ranges, restart) ==
    curr' = id /\ multi' = operations /\ UNCHANGED reversed

(* The session variables after a save that leaves table.  Only             *)
(* FinishCreateChangeset restarts the session once nothing is pending.     *)
SettleSession(table, id, operations, ranges, restart) ==
    IF restart /\ ~HasPendingTxns(table)
    THEN curr' \in NewSessions(table) /\ multi' = <<>> /\ reversed' = <<>>
    ELSE curr' = id /\ multi' = operations /\ reversed' = ranges

(* NoChanges: the open transaction is committed as it is.                  *)
SaveUntracked(table, newParent, restart) ==
    /\ NothingToSave
    /\ txns' = table /\ parent' = newParent
    /\ tracked' = EmptyMap /\ lastSave' = "OK"
    /\ SettleSession(table, curr, multi, reversed, restart)
    /\ UNCHANGED <<db, conf, ddl>>
    /\ Persist

(* Commit: reversed Txns go, then the edits and what they propagated to    *)
(* become one Txn, or two when there is DDL.                               *)
SaveTracked(table, newParent, restart) ==
    /\ ~NothingToSave /\ ~Rebasing
    /\ parent' = newParent
    /\ \E state \in Propagated :
          LET start == [txns |-> WithoutReversed(table), curr |-> curr, multi |-> multi]
          IN \E middle \in SaveDdlTxn(start) :
             \E end \in SaveSchemaAndDataTxns(middle, Difference(BeforeEdits, state)) :
                /\ Cardinality(DOMAIN end.txns) <= MaxTxns /\ end.curr[2] <= MaxTxns
                /\ db' = state /\ txns' = end.txns
                /\ SettleSession(end.txns, end.curr, end.multi, <<>>, restart)
    /\ tracked' = EmptyMap /\ ddl' = FALSE /\ lastSave' = "OK"
    /\ UNCHANGED conf
    /\ Persist

(* PropagateChangesFailed: the session was emptied before propagating, and *)
(* neither COMMIT nor ROLLBACK follows.                                    *)
SaveFails(table, newParent) ==
    /\ ~NothingToSave /\ ~Rebasing /\ DirectDataKeys # {}
    /\ txns' = WithoutReversed(table) /\ parent' = newParent
    /\ \E state \in Propagated :
          /\ db' = state
          /\ tracked' = [k \in DOMAIN Difference(db, state) |-> db[k]]
    /\ reversed' = <<>> /\ ddl' = FALSE
    /\ lastSave' = "PropagateChangesFailed"
    /\ UNCHANGED <<conf, disk, curr, multi>>

(* RebaseInProgress: edits cannot be saved while local Txns are rebased.   *)
SaveRefused ==
    /\ Rebasing /\ HasDataChanges
    /\ lastSave' = "RebaseInProgress"
    /\ UNCHANGED <<fileVars, disk, txnVars, tracked, ddl>>

SaveChanges ==
    /\ ClientReady
    /\ \/ SaveUntracked(txns, parent, FALSE)
       \/ SaveTracked(txns, parent, FALSE)
       \/ SaveFails(txns, parent)
       \/ SaveRefused
    /\ UNCHANGED <<creating, job, hub>>

-------------------------------------------------------------------------------
(***************************************************************************)
(* Multi-Txn operations.                                                   *)
(***************************************************************************)
BeginMultiTxnOperation ==
    /\ ClientReady
    /\ Len(multi) < MaxNesting
    /\ multi' = Append(multi, curr)
    /\ UNCHANGED <<fileVars, disk, curr, reversed, editVars, creating, job, hub>>

EndMultiTxnOperation ==
    /\ ClientReady
    /\ multi # <<>>
    /\ multi' = SubSeq(multi, 1, Len(multi) - 1)
    /\ UNCHANGED <<fileVars, disk, curr, reversed, editVars, creating, job, hub>>

(* The client may start a session at any time.                             *)
RestartTxnSession ==
    /\ ClientReady
    /\ curr' \in NewSessions(txns)
    /\ reversed' = <<>> /\ multi' = <<>>
    /\ UNCHANGED <<fileVars, disk, editVars, creating, job, hub>>

-------------------------------------------------------------------------------
(***************************************************************************)
(* Undo.  ReverseTxnRange drops unsaved edits, then reverses the Txns of    *)
(* the range from the newest to the oldest, then saves.                    *)
(***************************************************************************)
ReverseRange(first, cancel) ==
    /\ ClientReady
    /\ ~InProgress
    /\ AbandonIfChanged
    /\ job' = [op |-> "Reverse", at |-> curr, first |-> first, last |-> curr,
               cancel |-> cancel]
    /\ UNCHANGED <<disk, txnVars, creating, hub>>

(* Fault: the walk does not stop at the start of the session.              *)
FaultyWalkEnds(first, count) ==
    \/ Cardinality({i \in IdsBefore(txns, curr) :
                       ~Before(i, first) /\ ~txns[i].grouped}) >= count
    \/ IdsBefore(txns, first) = {}

(* ReverseTxns walks back from curr; a grouped Txn does not count as an     *)
(* operation.  It stops after count operations, at the start of the        *)
(* session, or at the oldest row.                                          *)
WalkEnds(first, count) ==
    \/ Cardinality({i \in IdsBefore(txns, curr) :
                       ~Before(i, first) /\ ~txns[i].grouped}) >= count
    \/ ~Before(SessionStart(curr), first)
    \/ IdsBefore(txns, first) = {}

ReverseTxns(count) ==
    /\ Before(SessionStart(curr), curr)
    /\ \E first \in IdsBefore(txns, curr) :
          /\ IsLast(first, {i \in IdsBefore(txns, curr) : WalkEnds(i, count)})
          /\ ReverseRange(first, FALSE)

CanReverseTo(pos) ==
    /\ pos # NoTxn /\ Before(pos, curr)
    /\ Before(SessionStart(curr), curr) /\ ~Before(pos, SessionStart(curr))

ReverseTo(pos) == CanReverseTo(pos) /\ ReverseRange(pos, FALSE)
ReverseAll == ReverseTo(SessionStart(curr))

(* CancelTo reverses and then deletes the reversed Txns.  The deletion is  *)
(* made even when there was nothing to reverse, and is not committed.      *)
CancelTo(pos) == CanReverseTo(pos) /\ ReverseRange(pos, TRUE)
CancelNothing ==
    /\ ClientReady /\ ~InProgress
    /\ txns' = WithoutReversed(txns) /\ reversed' = <<>>
    /\ UNCHANGED <<db, conf, parent, disk, curr, multi, editVars, creating, job, hub>>

FaultyInRange(id) == Before(job.first, id)

InRange(id) == ~Before(id, job.first)

ReverseStep ==
    /\ job.op = "Reverse"
    /\ \E id \in IdsBefore(txns, job.at) :
          /\ IsPrevious(txns, job.at, id) /\ InRange(id)
          /\ db' = ApplySkipping(Invert(txns[id].change), db)
          /\ txns' = SetDeleted(txns, id, TRUE)
          /\ job' = [job EXCEPT !.at = id]
    /\ UNCHANGED <<conf, parent, disk, txnVars, editVars, creating, hub>>

(* The multi-Txn operations begun after id are over.                       *)
IsOperationsLeft(n, id) ==
    /\ n > 0 => ~Before(id, multi[n])
    /\ \A m \in (n + 1)..Len(multi) : Before(id, multi[m])

ReverseDone ==
    /\ job.op = "Reverse"
    /\ ~\E id \in IdsBefore(txns, job.at) :
           IsPrevious(txns, job.at, id) /\ InRange(id)
    /\ disk' = [db |-> db, txns |-> txns, conf |-> conf, parent |-> parent]
    /\ txns' = IF job.cancel THEN WithoutReversed(txns) ELSE txns
    /\ curr' = job.first
    /\ reversed' = IF job.cancel THEN <<>>
                   ELSE Append(reversed, [first |-> job.first, last |-> job.last])
    /\ \E n \in {n \in 0..Len(multi) : IsOperationsLeft(n, job.first)} :
          multi' = SubSeq(multi, 1, n)
    /\ job' = Idle
    /\ UNCHANGED <<db, conf, parent, editVars, creating, hub>>

(* A Txn could not be read or applied: everything is abandoned.            *)
ReverseFails ==
    /\ job.op = "Reverse"
    /\ \E id \in IdsBefore(txns, job.at) :
          IsPrevious(txns, job.at, id) /\ InRange(id)
    /\ db' = disk.db /\ conf' = disk.conf /\ parent' = disk.parent
    /\ txns' = IF job.cancel THEN WithoutReversed(disk.txns) ELSE disk.txns
    /\ reversed' = IF job.cancel THEN <<>> ELSE reversed
    /\ job' = Idle
    /\ UNCHANGED <<disk, curr, multi, editVars, creating, hub>>

-------------------------------------------------------------------------------
(***************************************************************************)
(* Redo: the range on top of the stack, from its oldest Txn to its newest. *)
(***************************************************************************)
ReinstateTxn ==
    /\ ClientReady
    /\ ~InProgress
    /\ reversed # <<>>
    /\ AbandonIfChanged
    /\ LET range == reversed[Len(reversed)]
       IN job' = [op |-> "Reinstate", at |-> range.first,
                  first |-> range.first, last |-> range.last, cancel |-> FALSE]
    /\ UNCHANGED <<disk, txnVars, creating, hub>>

MoreToReinstate ==
    /\ job.at # NoTxn
    /\ \E id \in IdsBefore(txns, job.last) : ~Before(id, job.at)

ReinstateStep ==
    /\ job.op = "Reinstate" /\ MoreToReinstate
    /\ job.at \in DOMAIN txns
    /\ db' = ApplySkipping(txns[job.at].change, db)
    /\ txns' = SetDeleted(txns, job.at, FALSE)
    /\ \/ \E id \in IdsAfter(txns, job.at) :
             IsNext(txns, job.at, id) /\ job' = [job EXCEPT !.at = id]
       \/ IdsAfter(txns, job.at) = {} /\ job' = [job EXCEPT !.at = NoTxn]
    /\ UNCHANGED <<conf, parent, disk, txnVars, editVars, creating, hub>>

(* Fault: curr is taken from the variable of the loop.                     *)
FaultyReinstateDone ==
    /\ job.op = "Reinstate" /\ ~MoreToReinstate
    /\ curr' = job.at
    /\ reversed' = SubSeq(reversed, 1, Len(reversed) - 1)
    /\ job' = Idle
    /\ UNCHANGED <<fileVars, multi, editVars, creating, hub>>
    /\ Persist

ReinstateDone ==
    /\ job.op = "Reinstate" /\ ~MoreToReinstate
    /\ curr' = job.last
    /\ reversed' = SubSeq(reversed, 1, Len(reversed) - 1)
    /\ job' = Idle
    /\ UNCHANGED <<fileVars, multi, editVars, creating, hub>>
    /\ Persist

ReinstateFails ==
    /\ job.op = "Reinstate" /\ MoreToReinstate
    /\ Rollback
    /\ job' = Idle
    /\ UNCHANGED <<disk, txnVars, creating, hub>>

-------------------------------------------------------------------------------
(***************************************************************************)
(* Pushing.  StartCreateChangeset groups the pending Txns into a file and  *)
(* starts a new session; the client uploads the file; FinishCreateChangeset *)
(* deletes the Txns and advances the parent.                               *)
(***************************************************************************)
MayPush == ClientReady /\ (InProgress => "SaveWhileMerging" \in Mishaps)

StartCreateChangeset ==
    /\ MayPush /\ ~HasChanges
    /\ HasPendingTxns(txns)
    /\ txns' = WithoutReversed(txns)
    /\ creating' = [active |-> TRUE, end |-> curr, parent |-> parent,
                    change |-> GroupedChange(WithoutReversed(txns), curr),
                    uploaded |-> FALSE]
    /\ curr' \in NewSessions(txns')
    /\ Before(curr', curr) => "SessionGoesBack" \in Mishaps
    /\ reversed' = <<>> /\ multi' = <<>>
    /\ UNCHANGED <<db, conf, parent, editVars, job, hub>>
    /\ Persist

(* NoTransactions: thrown after the reversed Txns have been deleted.       *)
StartCreateChangesetFails ==
    /\ MayPush /\ ~HasChanges
    /\ ~HasPendingTxns(txns)
    /\ txns' = WithoutReversed(txns) /\ reversed' = <<>>
    /\ creating' = NotCreating
    /\ UNCHANGED <<db, conf, parent, disk, curr, multi, editVars, job, hub>>

(* External: iModelHub accepts a changeset whose parent is its tip.        *)
Upload ==
    /\ job.op = "None" /\ creating.active /\ ~creating.uploaded
    /\ creating.parent = Len(hub) /\ Len(hub) < MaxTimeline
    /\ hub' = Append(hub, [k \in Keys |-> IF k \in DOMAIN creating.change
                                          THEN creating.change[k].new
                                          ELSE hub[Len(hub)][k]])
    /\ creating' = [creating EXCEPT !.uploaded = TRUE]
    /\ UNCHANGED <<fileVars, disk, txnVars, editVars, job>>

(* FinishCreateChangeset deletes the Txns of the changeset and saves, which *)
(* makes a Txn of any edits made meanwhile.  The session restarts when no  *)
(* pending Txn is left.                                                    *)
FinishCreateChangeset ==
    /\ ClientReady /\ ~InProgress
    /\ creating.uploaded
    /\ LET table == From(txns, creating.end)
           newParent == creating.parent + 1
       IN \/ SaveUntracked(table, newParent, TRUE) /\ creating' = NotCreating
          \/ SaveTracked(table, newParent, TRUE) /\ creating' = NotCreating
          \/ SaveFails(table, newParent) /\ UNCHANGED creating
    /\ UNCHANGED <<job, hub>>

StopCreateChangeset ==
    /\ ClientReady /\ creating.active
    /\ creating' = NotCreating
    /\ UNCHANGED <<fileVars, disk, txnVars, editVars, job, hub>>

-------------------------------------------------------------------------------
(***************************************************************************)
(* DiscardLocalChanges reverses every Txn and commits; then deletes them   *)
(* all and commits again.                                                  *)
(***************************************************************************)
DiscardLocalChanges ==
    /\ ClientReady
    /\ creating.active => "DiscardWhilePushing" \in Mishaps
    /\ db' = disk.db /\ parent' = disk.parent
    /\ txns' = WithoutReversed(disk.txns) /\ reversed' = <<>>
    /\ conf' = IF disk.conf.stage = "Rebasing"
               THEN [disk.conf EXCEPT !.stage = "None"] ELSE disk.conf
    /\ tracked' = EmptyMap /\ ddl' = FALSE /\ lastSave' = "OK"
    /\ job' = [Idle EXCEPT !.op = "Discard", !.at = <<curr[1] + 1, 0>>]
    /\ UNCHANGED <<disk, curr, multi, creating, hub>>

DiscardStep ==
    /\ job.op = "Discard"
    /\ \E id \in IdsBefore(txns, job.at) :
          /\ IsPrevious(txns, job.at, id)
          /\ db' = ApplySkipping(Invert(txns[id].change), db)
          /\ txns' = SetDeleted(txns, id, TRUE)
          /\ job' = [job EXCEPT !.at = id]
    /\ UNCHANGED <<conf, parent, disk, txnVars, editVars, creating, hub>>

DiscardFails ==
    /\ job.op = "Discard" /\ IdsBefore(txns, job.at) # {}
    /\ Rollback
    /\ job' = Idle
    /\ UNCHANGED <<disk, txnVars, creating, hub>>

DiscardReversed ==
    /\ job.op = "Discard" /\ IdsBefore(txns, job.at) = {}
    /\ conf' = NoConf
    /\ job' = [Idle EXCEPT !.op = "DeleteAll"]
    /\ UNCHANGED <<db, txns, parent, txnVars, editVars, creating, hub>>
    /\ Persist

DeleteAllTxns ==
    /\ job.op = "DeleteAll"
    /\ txns' = EmptyMap
    /\ curr' = <<1, 0>> /\ reversed' = <<>> /\ multi' = <<>>
    /\ job' = Idle
    /\ UNCHANGED <<db, conf, parent, editVars, creating, hub>>
    /\ Persist

-------------------------------------------------------------------------------
(***************************************************************************)
(* The process dies, or closes the file without saving, and the file is    *)
(* opened again.                                                           *)
(***************************************************************************)
Crash ==
    /\ Rollback
    /\ curr' \in NewSessions(disk.txns)
    /\ reversed' = <<>> /\ multi' = <<>>
    /\ creating' = NotCreating
    /\ job' = Idle
    /\ UNCHANGED <<disk, hub>>

-------------------------------------------------------------------------------
Init ==
    /\ db = InitialState /\ txns = EmptyMap /\ conf = NoConf /\ parent = 1
    /\ disk = [db |-> InitialState, txns |-> EmptyMap, conf |-> NoConf, parent |-> 1]
    /\ curr = <<1, 0>> /\ reversed = <<>> /\ multi = <<>>
    /\ tracked = EmptyMap /\ ddl = FALSE /\ lastSave = "OK"
    /\ creating = NotCreating
    /\ job = Idle
    /\ hub = <<InitialState>>

(* Positions of the session a client can hold for ReverseTo and CancelTo:  *)
(* TxnIds it got from GetCurrentTxnId.                                     *)
Positions == {<<curr[1], counter>> : counter \in 0..curr[2]}

UndoNext ==
    \/ \E count \in 1..MaxTxns : ReverseTxns(count)
    \/ \E pos \in Positions : ReverseTo(pos) \/ CancelTo(pos)
    \/ ReverseAll \/ CancelNothing
    \/ ReverseStep \/ ReverseDone \/ ReverseFails
    \/ ReinstateTxn \/ ReinstateStep \/ ReinstateDone \/ ReinstateFails

PushNext ==
    \/ StartCreateChangeset \/ StartCreateChangesetFails \/ Upload
    \/ FinishCreateChangeset \/ StopCreateChangeset

DiscardNext ==
    \/ DiscardLocalChanges \/ DiscardStep \/ DiscardFails \/ DiscardReversed
    \/ DeleteAllTxns

Next ==
    \/ \E key \in Keys, value \in Values : Edit(key, value)
    \/ EditDdl \/ SaveChanges \/ AbandonChanges
    \/ BeginMultiTxnOperation \/ EndMultiTxnOperation \/ RestartTxnSession
    \/ UndoNext \/ PushNext \/ DiscardNext
    \/ Crash

Spec == Init /\ [][Next]_vars

-------------------------------------------------------------------------------
(***************************************************************************)
(* Properties.                                                             *)
(***************************************************************************)
TypeOK ==
    /\ db \in States /\ IsTable(txns) /\ conf \in Confs /\ parent \in Nat
    /\ disk = [db |-> disk.db, txns |-> disk.txns, conf |-> disk.conf,
               parent |-> disk.parent]
    /\ disk.db \in States /\ IsTable(disk.txns)
    /\ disk.conf \in Confs /\ disk.parent \in Nat
    /\ curr \in TxnIds /\ reversed \in Seq(Ranges) /\ multi \in Seq(TxnIds)
    /\ tracked \in UNION {[touched -> Values] : touched \in SUBSET Keys}
    /\ ddl \in BOOLEAN
    /\ lastSave \in {"OK", "PropagateChangesFailed", "RebaseInProgress"}
    /\ creating \in [active : BOOLEAN, end : TxnIds \cup {NoTxn}, parent : Nat,
                      change : Changes, uploaded : BOOLEAN]
    /\ job \in [op : JobOps,
                 at : TxnIds \cup {NoTxn}, first : TxnIds \cup {NoTxn},
                 last : TxnIds \cup {NoTxn}, cancel : BOOLEAN]
    /\ hub \in Seq(States)

(* The committed file holds nothing but its parent version and what its    *)
(* live Txns say: "it is impossible to make changes to the database that    *)
(* aren't also saved in the dgn_Txn table" (_OnCommit), through undo, redo, *)
(* push, discard and crashes at any point of them.                         *)
DiskRecorded ==
    disk.db = Replay(WithoutReversed(disk.txns), hub[disk.parent])

(* Between calls the open database, without the edits the session still    *)
(* tracks, is what the live Txns say.                                      *)
WorkRecorded ==
    job.op = "None" /\ lastSave = "OK" =>
        BeforeEdits = Replay(WithoutReversed(txns), hub[parent])

(* Every Txn, reversed ones included, starts from the state the Txns       *)
(* before it lead to: undo and redo find each row as they expect it, and   *)
(* the skipping in UndoChangeSet::_OnConflict never loses a change.        *)
TxnsChain ==
    ~InProgress =>
        \A id \in DOMAIN txns : \A key \in DOMAIN txns[id].change :
            txns[id].change[key].old = StateAt(txns, hub[parent], id)[key]

(* The range on top of the redo stack starts at curr (the BeAssert of      *)
(* ReinstateTxn), each range below starts where the one above ends, and    *)
(* the first Txn of every range exists.                                    *)
RedoStackSound ==
    /\ reversed # <<>> => reversed[Len(reversed)].first = curr
    /\ \A n \in 1..(Len(reversed) - 1) : reversed[n].first = reversed[n + 1].last
    /\ \A n \in 1..Len(reversed) : reversed[n].first \in DOMAIN txns

(* Between calls every Txn from curr on is reversed, in the open database   *)
(* and in the file: "we reuse TxnIds" (ReverseTxnRange) never makes         *)
(* SaveTxn's INSERT meet a row that is still wanted.                       *)
NextIdIsFree ==
    /\ job.op = "None" => \A id \in DOMAIN txns : ~Before(id, curr) => txns[id].deleted
    /\ \A id \in DOMAIN disk.txns : ~Before(id, curr) => disk.txns[id].deleted

(* While a changeset is being pushed, the file still holds exactly the     *)
(* Txns that were written to it, live, on top of its parent: what          *)
(* FinishCreateChangeset deletes is what the hub was given.                *)
PackagedTxnsKept ==
    creating.active =>
        /\ disk.parent = creating.parent
        /\ \A id \in DOMAIN disk.txns : Before(id, creating.end) => ~disk.txns[id].deleted
        /\ Difference(hub[disk.parent], StateAt(disk.txns, hub[disk.parent], creating.end))
              = creating.change

(* Undo and redo touch only Txns of the current session that hold nothing  *)
(* but data: schema and DDL Txns, the Txns before them, those packaged for *)
(* a push and those of an earlier session are out of their reach.          *)
UndoStaysInSession ==
    [][ job.op \in {"Reverse", "Reinstate"} /\ job'.op = job.op =>
            \A id \in DOMAIN txns :
                txns'[id].deleted # txns[id].deleted =>
                    txns[id].type = "Data" /\ id[1] = curr[1] ]_vars
===============================================================================
