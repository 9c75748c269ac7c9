------------------------------- MODULE PullMerge -------------------------------
(***************************************************************************)
(* A briefcase that also pulls: TxnManager with the operations that        *)
(* reverse the local Txns, merge the changesets other briefcases pushed,   *)
(* and rebase the local Txns on top of them one by one.                    *)
(*                                                                         *)
(* The rebase is a loop of calls (PullMergeEnd, or the same calls made     *)
(* from JavaScript): RebaseNext, RebaseReinstateTxn, RebaseUpdateTxn and   *)
(* again, then RebaseEnd.  driver says which call of the loop comes next;  *)
(* the loop is left by an exception ("Failed"), after which its caller     *)
(* calls RebaseAbortTxn, or by a crash, after which the loop is entered    *)
(* anew.  Only conf, which is in the file, remembers how far it got.       *)
(***************************************************************************)
EXTENDS TxnManager

VARIABLE driver        (* the next call of the rebase loop                  *)

pullVars == <<vars, driver>>
Drivers == {"Out", "Next", "Reinstate", "Update", "End", "Failed"}

-------------------------------------------------------------------------------
(***************************************************************************)
(* Reversing the local Txns, newest first.  Nothing is committed until the *)
(* first changeset has been merged or the rebase begins.                   *)
(***************************************************************************)
PullMergeReverseLocalChanges ==
    /\ ClientReady /\ ~InProgress /\ ~HasChanges
    /\ creating.active => "PullWhilePushing" \in Mishaps
    /\ txns' = WithoutReversed(txns)
    /\ reversed' = <<>> /\ multi' = <<>>
    /\ job' = [Idle EXCEPT !.op = "PullReverse", !.at = curr]
    /\ UNCHANGED <<db, conf, parent, disk, curr, editVars, creating, hub>>

PullReverseStep ==
    /\ job.op = "PullReverse"
    /\ \E id \in IdsBefore(txns, job.at) :
          /\ IsPrevious(txns, job.at, id)
          /\ db' = ApplySkipping(Invert(txns[id].change), db)
          /\ txns' = SetDeleted(txns, id, TRUE)
          /\ job' = [job EXCEPT !.at = id]
    /\ UNCHANGED <<conf, parent, disk, txnVars, editVars, creating, hub>>

(* Fault: the loop stops before the oldest Txn.                            *)
FaultyPullReverseDone ==
    /\ job.op = "PullReverse"
    /\ conf' = [conf EXCEPT !.stage = "Merging", !.end = curr]
    /\ job' = Idle
    /\ UNCHANGED <<db, txns, parent, disk, txnVars, editVars, creating, hub>>

PullReverseDone ==
    /\ job.op = "PullReverse" /\ IdsBefore(txns, job.at) = {}
    /\ conf' = [conf EXCEPT !.stage = "Merging", !.end = curr]
    /\ job' = Idle
    /\ UNCHANGED <<db, txns, parent, disk, txnVars, editVars, creating, hub>>

PullReverseFails ==
    /\ job.op = "PullReverse" /\ IdsBefore(txns, job.at) # {}
    /\ Rollback
    /\ job' = Idle
    /\ UNCHANGED <<disk, txnVars, creating, hub>>

-------------------------------------------------------------------------------
(***************************************************************************)
(* Applying the changesets of the hub.  A pull applies them while Merging; *)
(* a client may also try to apply one on top of its local Txns, with       *)
(* fastForward, which gives up at the first conflict.                      *)
(***************************************************************************)
Conflicts(change) == {k \in DOMAIN change : db[k] # change[k].old}

(* A conflict ends a merge with fastForward.  Otherwise the handler,       *)
(* ChangesetFileReader::_OnConflict, replaces, skips or aborts by a cause  *)
(* (missing row, broken constraint, indirect change) that a state does not *)
(* show: any set of the conflicts may be replaced.                         *)
Merged(change, replaced) ==
    [k \in Keys |->
        IF k \in DOMAIN change /\ (k \in replaced \/ k \notin Conflicts(change))
        THEN change[k].new ELSE db[k]]

(* Fault: a changeset being pushed does not prevent merging.               *)
FaultyMayMerge == ClientReady /\ ~HasChanges /\ ~Rebasing

MayMerge ==
    ClientReady /\ ~creating.active /\ ~HasChanges /\ ~Rebasing

(* Outside a pull, a client that has local Txns asks for fastForward.      *)
Touched(change, ids) ==
    \E id \in ids : DOMAIN txns[id].change \cap DOMAIN change # {}
MayMergeOutsidePull(change, fastForward) ==
    LET undone == {id \in DOMAIN txns : txns[id].deleted}
    IN /\ HasPendingTxns(txns) => fastForward
       /\ Touched(change, undone) => "MergeOverRedo" \in Mishaps
       /\ Touched(change, DOMAIN txns \ undone) => "MergeOverTxns" \in Mishaps

(* Fault: the parent changeset is not advanced.                            *)
FaultyApply(change, fastForward, version) ==
    /\ ~InProgress => MayMergeOutsidePull(change, fastForward)
    /\ fastForward => Conflicts(change) = {}
    /\ \E replaced \in SUBSET Conflicts(change) : db' = Merged(change, replaced)
    /\ UNCHANGED <<txns, conf, parent, txnVars, editVars, creating, job, hub>>

Apply(change, fastForward, version) ==
    /\ ~InProgress => MayMergeOutsidePull(change, fastForward)
    /\ fastForward => Conflicts(change) = {}
    /\ \E replaced \in SUBSET Conflicts(change) : db' = Merged(change, replaced)
    /\ parent' = version
    /\ UNCHANGED <<txns, conf, txnVars, editVars, creating, job, hub>>

(* Saved at once during a pull, and otherwise left to the client to save.  *)
MergeChangeset(fastForward) ==
    /\ MayMerge
    /\ parent < Len(hub)
    /\ Apply(Difference(hub[parent], hub[parent + 1]), fastForward, parent + 1)
    /\ IF InProgress THEN Persist ELSE UNCHANGED disk

(* A conflict, or any error while applying: everything is abandoned, the   *)
(* reversal of the local Txns too when it had not been committed.          *)
MergeFails ==
    /\ MayMerge
    /\ parent < Len(hub)
    /\ Rollback
    /\ UNCHANGED <<disk, txnVars, creating, job, hub>>

ReverseChangeset ==
    /\ MayMerge
    /\ ~HasPendingTxns(txns)
    /\ parent > 1
    /\ Apply(Difference(hub[parent], hub[parent - 1]), FALSE, parent - 1)
    /\ Persist

(* External: another briefcase pushes a changeset.                         *)
OtherPushes ==
    /\ job.op = "None" /\ driver = "Out"
    /\ Len(hub) < MaxTimeline
    /\ \E key \in Keys, value \in Values :
          /\ value # hub[Len(hub)][key]
          /\ hub' = Append(hub, [hub[Len(hub)] EXCEPT ![key] = value])
    /\ UNCHANGED <<fileVars, disk, txnVars, editVars, creating, job>>

-------------------------------------------------------------------------------
(***************************************************************************)
(* Rebasing.  RebaseBegin enters the loop; edits left unsaved make its     *)
(* SaveChanges be refused, and RebaseNext throw.                           *)
(***************************************************************************)
(* A loop that fails is begun again from its first Txn.                    *)
MayFail == HasPendingTxns(txns) => "RestartRebase" \in Mishaps

PullMergeRebaseBegin ==
    /\ ClientReady /\ InProgress /\ driver = "Out"
    /\ HasChanges => MayFail
    /\ conf' = [conf EXCEPT !.stage = "Rebasing"]
    /\ driver' = "Next"
    /\ disk' = IF Rebasing \/ HasDataChanges THEN disk
               ELSE [db |-> db, txns |-> txns, conf |-> conf', parent |-> parent]
    /\ UNCHANGED <<db, txns, parent, txnVars, editVars, creating, job, hub>>

(* Faults: always the first Txn; straight to the last one.                 *)
FirstToRebase(id) == IF txns = EmptyMap THEN id = NoTxn ELSE IsFirst(id, DOMAIN txns)
LastToRebase(id) ==
    \/ IsLast(id, IdsAfter(txns, conf.inProgress))
    \/ IdsAfter(txns, conf.inProgress) = {} /\ id = NoTxn

(* Chooses the next Txn and commits its id before anything is done to it.  *)
NextToRebase(id) ==
    \/ IsNext(txns, conf.inProgress, id)
    \/ IdsAfter(txns, conf.inProgress) = {} /\ id = NoTxn

PullMergeRebaseNext ==
    /\ driver = "Next" /\ ~HasChanges
    /\ \E id \in DOMAIN txns \cup {NoTxn} :
          /\ NextToRebase(id)
          /\ conf' = [conf EXCEPT !.inProgress = id]
          /\ driver' = IF id = NoTxn THEN "End" ELSE "Reinstate"
    /\ UNCHANGED <<db, txns, parent, txnVars, editVars, creating, job, hub>>
    /\ Persist

PullMergeRebaseNextFails ==
    /\ driver = "Next" /\ HasChanges
    /\ driver' = "Failed"
    /\ UNCHANGED vars

RebasedRow == txns[conf.inProgress]

(* The Txn is applied again with tracking on.  A value it already finds in *)
(* place is no change; one that is neither the old nor the new value is a  *)
(* conflict, which _onRebaseLocalTxnConflict resolves by replacing or      *)
(* skipping.                                                               *)
PullMergeRebaseReinstateTxn ==
    /\ driver = "Reinstate"
    /\ \E replaced \in SUBSET Conflicts(RebasedRow.change) :
          db' = Merged(RebasedRow.change, replaced)
    /\ tracked' = [k \in {key \in Keys : db'[key] # db[key]} |-> db[k]]
    /\ driver' = "Update"
    /\ UNCHANGED <<txns, conf, parent, disk, txnVars, ddl, lastSave, creating, job, hub>>

(* The handler chose to abort, or the Txn could not be read or applied.    *)
PullMergeRebaseReinstateFails ==
    /\ driver = "Reinstate" /\ MayFail
    /\ RebasedRow.type # "Ddl"
    /\ Rollback
    /\ driver' = "Failed"
    /\ UNCHANGED <<disk, txnVars, creating, job, hub>>

(* What the tracker recorded, with the client's own edits made since,      *)
(* becomes the Txn's changeset.  Only while no Txn is live yet are changes *)
(* propagated.                                                             *)
PropagatedByRebase == IF HasPendingTxns(txns) THEN {db} ELSE Propagated

(* Faults: the changeset of the Txn, or its Deleted flag, is not updated;   *)
(* every reversed Txn is deleted with an empty one.                        *)
SameChangeTxns(change) == SetDeleted(txns, conf.inProgress, FALSE)
StillReversedTxns(change) ==
    Insert(txns, conf.inProgress, [RebasedRow EXCEPT !.change = change])
PurgedTxns(change) ==
    IF DOMAIN change = {} THEN WithoutReversed(txns)
    ELSE Insert(txns, conf.inProgress,
                [RebasedRow EXCEPT !.change = change, !.deleted = FALSE])

UpdatedTxns(change) ==
    IF DOMAIN change = {}
    THEN Keep(txns, DOMAIN txns \ {conf.inProgress})
    ELSE Insert(txns, conf.inProgress,
                [RebasedRow EXCEPT !.change = change, !.deleted = FALSE])

PullMergeRebaseUpdateTxn ==
    /\ driver = "Update" /\ RebasedRow.type # "Ddl"
    /\ \E state \in PropagatedByRebase :
          /\ db' = state
          /\ txns' = UpdatedTxns(Difference(BeforeEdits, state))
    /\ tracked' = EmptyMap
    /\ curr' = conf.inProgress
    /\ driver' = "Next"
    /\ UNCHANGED <<conf, parent, reversed, multi, ddl, lastSave, creating, job, hub>>
    /\ Persist

(* Fault: a DDL Txn is left reversed.                                      *)
FaultySetTxnActive ==
    /\ driver = "Update" /\ RebasedRow.type = "Ddl"
    /\ curr' = conf.inProgress
    /\ driver' = "Next"
    /\ UNCHANGED <<fileVars, disk, reversed, multi, editVars, creating, job, hub>>

(* A DDL Txn is only marked; the mark is committed by the next RebaseNext. *)
PullMergeSetTxnActive ==
    /\ driver = "Update" /\ RebasedRow.type = "Ddl"
    /\ txns' = SetDeleted(txns, conf.inProgress, FALSE)
    /\ curr' = conf.inProgress
    /\ driver' = "Next"
    /\ UNCHANGED <<db, conf, parent, disk, reversed, multi, editVars, creating, job, hub>>

(* Propagation failed, after the tracker had been emptied.                 *)
PullMergeRebaseUpdateFails ==
    /\ driver = "Update" /\ MayFail
    /\ RebasedRow.type # "Ddl" /\ ~HasPendingTxns(txns)
    /\ \E state \in Propagated :
          /\ db' = state
          /\ tracked' = [k \in DOMAIN Difference(db, state) |-> db[k]]
    /\ driver' = "Failed"
    /\ UNCHANGED <<txns, conf, parent, disk, txnVars, ddl, lastSave, creating, job, hub>>

(* The caller of the loop gives up, and may begin it again.                *)
PullMergeRebaseAbortTxn ==
    /\ driver = "Failed"
    /\ db' = disk.db /\ txns' = disk.txns /\ parent' = disk.parent
    /\ conf' = [conf EXCEPT !.inProgress = NoTxn]
    /\ tracked' = EmptyMap /\ ddl' = FALSE /\ lastSave' = "OK"
    /\ driver' = "Out"
    /\ UNCHANGED <<txnVars, creating, job, hub>>
    /\ Persist

(* The pull is over, and the id recorded when it began is the next again.  *)
EndWithCurr(id) ==
    /\ driver = "End"
    /\ curr' = id
    /\ reversed' = <<>>
    /\ conf' = [conf EXCEPT !.stage = "None", !.end = NoTxn]
    /\ driver' = "Out"
    /\ UNCHANGED <<db, txns, parent, multi, editVars, creating, job, hub>>
    /\ Persist

(* Faults: curr is left at the last Txn rebased, or taken from inProgress. *)
EndAtLastRebased == EndWithCurr(curr)
EndInProgress == EndWithCurr(conf.inProgress)

PullMergeRebaseEnd == EndWithCurr(conf.end)

-------------------------------------------------------------------------------
(* The file says a Txn is being rebased that is still reversed: after a    *)
(* crash the loop goes on with the Txn after it.  Or it says none is, after *)
(* the last one was rebased: the loop starts again from the first.         *)
InMidRebase ==
    /\ disk.conf.stage = "Rebasing"
    /\ IF disk.conf.inProgress \in DOMAIN disk.txns
       THEN disk.txns[disk.conf.inProgress].deleted
       ELSE disk.conf.inProgress = NoTxn /\ HasPendingTxns(disk.txns)

PullCrash ==
    /\ InMidRebase => "CrashInRebase" \in Mishaps
    /\ Crash
    /\ driver' = "Out"

PullInit == Init /\ driver = "Out"

(* The calls of the application outside the loop, and, between reinstating *)
(* a Txn and updating it, its edits.                                       *)
EditNext == \E key \in Keys, value \in Values : Edit(key, value)

(* Edits made to a DDL Txn are not saved with it and make the loop fail.   *)
MayEditRebased == RebasedRow.type = "Ddl" => MayFail

(* To the id of a Txn that a rebase has erased an undo can go, but not be  *)
(* redone: ReinstateTxn finds no row there.                                *)
UndoTo(pos) ==
    /\ pos \in DOMAIN txns \/ "UndoPastErased" \in Mishaps
    /\ ReverseTo(pos) \/ CancelTo(pos)

ClientNext ==
    \/ EditDdl \/ SaveChanges \/ AbandonChanges \/ RestartTxnSession
    \/ BeginMultiTxnOperation \/ EndMultiTxnOperation
    \/ \E count \in 1..MaxTxns : ReverseTxns(count)
    \/ \E pos \in Positions : UndoTo(pos)
    \/ CancelNothing
    \/ ReverseStep \/ ReverseDone \/ ReverseFails
    \/ ReinstateTxn \/ ReinstateStep \/ ReinstateDone \/ ReinstateFails
    \/ PushNext \/ DiscardNext
    \/ PullMergeReverseLocalChanges
    \/ PullReverseStep \/ PullReverseDone \/ PullReverseFails
    \/ \E fastForward \in BOOLEAN : MergeChangeset(fastForward)
    \/ MergeFails \/ ReverseChangeset \/ OtherPushes

RebaseStep ==
    \/ PullMergeRebaseNext \/ PullMergeRebaseNextFails
    \/ PullMergeRebaseReinstateTxn
    \/ PullMergeRebaseUpdateTxn \/ PullMergeSetTxnActive
    \/ PullMergeRebaseEnd

PullNext ==
    \/ driver = "Out" /\ EditNext /\ UNCHANGED driver
    \/ driver = "Update" /\ MayEditRebased /\ EditNext /\ UNCHANGED driver
    \/ driver = "Out" /\ ClientNext /\ UNCHANGED driver
    \/ PullMergeRebaseBegin \/ RebaseStep
    \/ PullMergeRebaseReinstateFails \/ PullMergeRebaseUpdateFails
    \/ PullMergeRebaseAbortTxn
    \/ PullCrash

PullSpec == PullInit /\ [][PullNext]_pullVars
FairPullSpec == PullSpec /\ WF_pullVars(RebaseStep)

-------------------------------------------------------------------------------
(***************************************************************************)
(* Properties.  DiskRecorded, TxnsChain, RedoStackSound and                *)
(* PackagedTxnsKept are those of TxnManager.  So is UndoStaysInSession,    *)
(* which a pull does not keep: the walk of ReverseTxns does not stop at    *)
(* the start of a session whose first Txn the rebase has erased.           *)
(***************************************************************************)
PullTypeOK == TypeOK /\ driver \in Drivers

(* The open database stays what the live Txns and the parent say through   *)
(* every step of a pull, until a failed call has been abandoned.           *)
PullWorkRecorded == driver # "Failed" => WorkRecorded

(* While the changesets of the hub are merged the local Txns are all       *)
(* reversed, in the open database and in the file, and the next changeset  *)
(* finds every row as it expects it: a pull cannot fail on a conflict.     *)
PulledCleanly ==
    /\ conf.stage = "Merging" =>
          /\ ~HasPendingTxns(txns)
          /\ parent < Len(hub) => Conflicts(Difference(hub[parent], hub[parent + 1])) = {}
    /\ disk.conf.stage = "Merging" => ~HasPendingTxns(disk.txns)

(* The rebase goes through the local Txns in order: those before the one   *)
(* being rebased are live, those after it reversed.                        *)
RebasedInOrder ==
    conf.stage = "Rebasing" /\ driver \in {"Reinstate", "Update"} =>
        \A id \in DOMAIN txns : txns[id].deleted <=> ~Before(id, conf.inProgress)

(* When a rebase ends, every local Txn the pull had reversed is live again *)
(* or was erased: none is left behind reversed, for the next commit to     *)
(* throw away.                                                             *)
RebaseLeavesNoneReversed ==
    [][ driver = "End" /\ conf'.stage = "None" =>
            \A id \in DOMAIN disk'.txns : ~disk'.txns[id].deleted ]_pullVars

(* While a pull is under way, in memory or in the file, no local Txn leaves *)
(* the file but the one being rebased.                                     *)
OnlyRebasedTxnLeaves ==
    [][ disk.conf.stage # "None" /\ disk'.conf.stage # "None" =>
            DOMAIN disk.txns \ DOMAIN disk'.txns \subseteq {disk.conf.inProgress} ]_pullVars

(* Between pulls every Txn at or after curr is reversed, the ids after a   *)
(* rebase included, so that SaveTxn's INSERT never meets a live row.       *)
NextIdIsFreeAfterPull ==
    job.op = "None" /\ ~InProgress /\ driver = "Out" =>
        \A id \in DOMAIN txns : ~Before(id, curr) => txns[id].deleted

(* The rebase loop ends, by reaching RebaseEnd or by an exception.         *)
RebaseLoopEnds == driver = "Next" ~> driver \in {"Out", "Failed"}
===============================================================================
