---------------------------- MODULE PullMergeProofs ----------------------------
(***************************************************************************)
(* Proofs about a briefcase that pulls: its types; that a rebase takes the *)
(* Txns in their order, loses none and leaves none reversed; that the next *)
(* id is free when it is over; and that the Txns record the database, in   *)
(* the file and in memory, through every step of a pull.                   *)
(***************************************************************************)
EXTENDS PullMerge, RecordProofs

USE DEF fileVars, txnVars, editVars, vars

-------------------------------------------------------------------------------
(***************************************************************************)
(* Types.  Beyond those of TxnManager: the versions a merge looks up exist *)
(* on the hub, the end of a pull, from which curr will be set, is an id,   *)
(* and the Txn being rebased is a row.                                     *)
(***************************************************************************)
Versions ==
    /\ parent \in 1..Len(hub) /\ disk.parent \in 1..Len(hub)
    /\ creating.uploaded => creating.parent + 1 \in 1..Len(hub)

Ends ==
    /\ conf.stage # "None" => conf.end \in TxnIds
    /\ disk.conf.stage # "None" => disk.conf.end \in TxnIds

Driving ==
    /\ driver \in Drivers
    /\ driver \notin {"Out", "Failed"} => conf.stage = "Rebasing"
    /\ driver \in {"Reinstate", "Update"} => conf.inProgress \in DOMAIN txns

PullTypeInv == TypeInv /\ Versions /\ Ends /\ Driving

(* Where a step of TxnManager takes conf, the parent and the hub from.     *)
ConfMoves ==
    /\ conf' \in {conf, disk.conf, NoConf, [disk.conf EXCEPT !.stage = "None"]}
    /\ disk'.conf \in {disk.conf, conf'}
ParentMoves ==
    /\ parent' \in {parent, disk.parent} \/ (creating.uploaded /\ parent' = creating.parent + 1)
    /\ disk'.parent \in {disk.parent, parent'}
HubMoves ==
    \/ Upload
    \/ (UNCHANGED hub) /\ (UNCHANGED creating \/ creating'.uploaded = FALSE)

(* A save commits conf and the parent it was called with, or nothing.      *)
LEMMA SaveMoves ==
    ASSUME NEW table, NEW version, NEW restart,
           \/ SaveUntracked(table, version, restart) \/ SaveTracked(table, version, restart)
           \/ SaveFails(table, version)
    PROVE  /\ UNCHANGED conf /\ parent' = version
           /\ disk'.conf \in {disk.conf, conf'} /\ disk'.parent \in {disk.parent, parent'}
  BY DEF SaveUntracked, SaveTracked, SaveFails, Persist

(* Every step of TxnManager takes conf from the file or from memory, and   *)
(* the parent from there or from the changeset that was pushed.            *)
LEMMA TxnStepMoves ==
    ASSUME [Next]_vars
    PROVE  ConfMoves /\ ParentMoves /\ HubMoves
<1> USE DEF ConfMoves, ParentMoves, HubMoves
<1>1. CASE \E key \in Keys, value \in Values : Edit(key, value)
  BY <1>1 DEF Edit
<1>2. CASE EditDdl \/ BeginMultiTxnOperation \/ EndMultiTxnOperation \/ RestartTxnSession
           \/ StopCreateChangeset
  BY <1>2 DEF EditDdl, BeginMultiTxnOperation, EndMultiTxnOperation, RestartTxnSession,
              StopCreateChangeset, NotCreating
<1>3. CASE AbandonChanges
  BY <1>3 DEF AbandonChanges, Rollback
<1>4. CASE SaveChanges
  <2>1. CASE SaveRefused
    BY <1>4, <2>1 DEF SaveRefused, SaveChanges
  <2> QED BY <1>4, <2>1, SaveMoves DEF SaveChanges
<1>5. CASE FinishCreateChangeset
  <2> DEFINE table == From(txns, creating.end)
             version == creating.parent + 1
  <2>1. \/ SaveUntracked(table, version, TRUE) /\ creating' = NotCreating
        \/ SaveTracked(table, version, TRUE) /\ creating' = NotCreating
        \/ SaveFails(table, version) /\ UNCHANGED creating
    BY <1>5 DEF FinishCreateChangeset
  <2>2. creating.uploaded /\ hub' = hub
    BY <1>5 DEF FinishCreateChangeset
  <2>3. UNCHANGED creating \/ creating'.uploaded = FALSE
    <3>1. NotCreating.uploaded = FALSE
      BY DEF NotCreating
    <3>2. creating' = NotCreating \/ creating' = creating
      BY <2>1
    <3> QED BY <3>1, <3>2
  <2>4. /\ UNCHANGED conf /\ parent' = version
        /\ disk'.conf \in {disk.conf, conf'} /\ disk'.parent \in {disk.parent, parent'}
    <3>1. \/ SaveUntracked(table, version, TRUE) \/ SaveTracked(table, version, TRUE)
          \/ SaveFails(table, version)
      BY <2>1
    <3> HIDE DEF table, version
    <3>2. CASE SaveUntracked(table, version, TRUE)
      BY <3>2 DEF SaveUntracked, Persist
    <3>3. CASE SaveTracked(table, version, TRUE)
      BY <3>3 DEF SaveTracked, Persist
    <3>4. CASE SaveFails(table, version)
      BY <3>4 DEF SaveFails
    <3> QED BY <3>1, <3>2, <3>3, <3>4
  <2> QED BY <2>2, <2>3, <2>4
<1>7. CASE \E first, cancel : ReverseRange(first, cancel)
  BY <1>7 DEF ReverseRange, AbandonIfChanged, Rollback
<1>8. CASE CancelNothing \/ ReverseStep \/ ReverseDone \/ ReverseFails
  <2>1. CASE CancelNothing
    BY <2>1 DEF CancelNothing
  <2>2. CASE ReverseStep
    BY <2>2 DEF ReverseStep
  <2>3. CASE ReverseDone
    BY <2>3 DEF ReverseDone
  <2>4. CASE ReverseFails
    BY <2>4 DEF ReverseFails
  <2> QED BY <1>8, <2>1, <2>2, <2>3, <2>4
<1>9. CASE ReinstateTxn \/ ReinstateStep \/ ReinstateDone \/ ReinstateFails
  <2>1. CASE ReinstateTxn
    BY <2>1 DEF ReinstateTxn, AbandonIfChanged, Rollback
  <2>2. CASE ReinstateStep
    BY <2>2 DEF ReinstateStep
  <2>3. CASE ReinstateDone
    BY <2>3 DEF ReinstateDone, Persist
  <2>4. CASE ReinstateFails
    BY <2>4 DEF ReinstateFails, Rollback
  <2> QED BY <1>9, <2>1, <2>2, <2>3, <2>4
<1>10. CASE StartCreateChangeset \/ StartCreateChangesetFails
  BY <1>10 DEF StartCreateChangeset, StartCreateChangesetFails, NotCreating, Persist
<1>11. CASE Upload
  BY <1>11 DEF Upload
<1>12. CASE DiscardNext
  <2>1. CASE DiscardLocalChanges
    BY <2>1 DEF DiscardLocalChanges
  <2>2. CASE DiscardStep
    BY <2>2 DEF DiscardStep
  <2>3. CASE DiscardFails
    BY <2>3 DEF DiscardFails, Rollback
  <2>4. CASE DiscardReversed
    BY <2>4 DEF DiscardReversed, Persist
  <2>5. CASE DeleteAllTxns
    BY <2>5 DEF DeleteAllTxns, Persist
  <2> QED BY <1>12, <2>1, <2>2, <2>3, <2>4, <2>5 DEF DiscardNext
<1>13. CASE Crash
  BY <1>13 DEF Crash, Rollback, NotCreating
<1>14. CASE UNCHANGED vars
  BY <1>14
<1> QED BY <1>1, <1>2, <1>3, <1>4, <1>5, <1>7, <1>8, <1>9, <1>10, <1>11, <1>12, <1>13, <1>14
        DEF Next, UndoNext, PushNext, ReverseTxns, ReverseTo, ReverseAll, CancelTo

(* A hub that grows keeps the versions it had.                             *)
LEMMA HubGrows ==
    ASSUME TypeInv, HubMoves
    PROVE  Len(hub) \in Nat /\ Len(hub') \in Nat /\ Len(hub) <= Len(hub')
<1>1. hub \in Seq(States) /\ Len(hub) \in Nat
  BY LenProperties DEF TypeInv, HubOK
<1>2. CASE Upload
  <2> DEFINE version == [k \in Keys |-> IF k \in DOMAIN creating.change
                                        THEN creating.change[k].new
                                        ELSE hub[Len(hub)][k]]
  <2>1. hub' = Append(hub, version)
    BY <1>2 DEF Upload
  <2> HIDE DEF version
  <2>2. Len(hub') = Len(hub) + 1
    BY <1>1, <2>1
  <2> QED BY <1>1, <2>2
<1> QED BY <1>1, <1>2 DEF HubMoves

(* Steps of TxnManager keep the versions and the ends.                     *)
LEMMA TxnStepKeepsVersions ==
    ASSUME PullTypeInv, [Next]_vars
    PROVE  TypeInv' /\ Versions' /\ Ends'
<1>1. TypeInv'
  BY TypeInvStep DEF PullTypeInv
<1>2. ConfMoves /\ ParentMoves /\ HubMoves
  BY TxnStepMoves
<1>3. Len(hub) \in Nat /\ Len(hub') \in Nat /\ Len(hub) <= Len(hub')
  BY <1>2, HubGrows DEF PullTypeInv
<1>4. parent' \in 1..Len(hub) /\ disk'.parent \in 1..Len(hub)
  BY <1>2 DEF PullTypeInv, Versions, ParentMoves
<1>5. creating'.uploaded => creating'.parent + 1 \in 1..Len(hub')
  <2>1. CASE Upload
    <3>1. creating.parent = Len(hub) /\ creating' = [creating EXCEPT !.uploaded = TRUE]
      BY <2>1 DEF Upload
    <3>2. creating'.parent = Len(hub)
      BY <3>1 DEF PullTypeInv, TypeInv, PushOK
    <3> DEFINE version == [k \in Keys |-> IF k \in DOMAIN creating.change
                                          THEN creating.change[k].new
                                          ELSE hub[Len(hub)][k]]
    <3>3. hub' = Append(hub, version) /\ hub \in Seq(States)
      BY <2>1 DEF Upload, PullTypeInv, TypeInv, HubOK
    <3> HIDE DEF version
    <3>4. Len(hub') = Len(hub) + 1
      BY <3>3
    <3> QED BY <1>3, <3>2, <3>4
  <2>2. CASE UNCHANGED <<hub, creating>> \/ creating'.uploaded = FALSE
    BY <2>2 DEF PullTypeInv, Versions
  <2> QED BY <1>2, <2>1, <2>2 DEF HubMoves
<1>6. Versions'
  BY <1>3, <1>4, <1>5 DEF Versions
<1>7. disk.conf \in Confs
  BY DEF PullTypeInv, TypeInv, DiskOK
<1>8. /\ conf'.stage # "None" => conf'.end \in TxnIds
      /\ disk'.conf.stage # "None" => disk'.conf.end \in TxnIds
  BY <1>2, <1>7 DEF PullTypeInv, Ends, ConfMoves, NoConf, Confs
<1> QED BY <1>1, <1>6, <1>8 DEF Ends

(* The parts that a step leaves alone, rolls back or commits.              *)
LEMMA KeptParts ==
    /\ Versions /\ UNCHANGED <<parent, disk, creating, hub>> => Versions'
    /\ Versions /\ Rollback /\ UNCHANGED <<disk, creating, hub>> => Versions'
    /\ Versions /\ Persist /\ UNCHANGED <<parent, creating, hub>> => Versions'
    /\ Ends /\ UNCHANGED <<conf, disk>> => Ends'
    /\ Ends /\ Rollback /\ UNCHANGED disk => Ends'
    /\ Persist /\ (conf'.stage # "None" => conf'.end \in TxnIds) => Ends'
  BY DEF Versions, Ends, Rollback, Persist

(* Whatever a merge does with the conflicts, a state results.              *)
LEMMA MergedIsState ==
    ASSUME FileOK, NEW change \in Changes, NEW replaced
    PROVE  Merged(change, replaced) \in States
<1>1. DOMAIN change \subseteq Keys /\ change \in [DOMAIN change -> OldAndNew]
  BY ChangeIsFunction
<1>2. ASSUME NEW k \in Keys PROVE Merged(change, replaced)[k] \in Values
  BY <1>1 DEF Merged, FileOK, States, OldAndNew
<1> QED BY <1>2 DEF Merged, States

(* What the session remembers of the keys that differ.                     *)
LEMMA DifferingAreTracked ==
    ASSUME NEW from \in States, NEW keys \in SUBSET Keys
    PROVE  [k \in keys |-> from[k]] \in UNION {[touched -> Values] : touched \in SUBSET Keys}
  BY TrackedIsFunction DEF States

(* Reversing the local Txns.                                               *)
LEMMA PullReverseKeepsTypes ==
    ASSUME PullTypeInv, UNCHANGED driver, driver = "Out",
           \/ PullMergeReverseLocalChanges
           \/ PullReverseStep \/ PullReverseDone \/ PullReverseFails
    PROVE  PullTypeInv'
<1> USE DEF PullTypeInv
<1>1. CASE PullMergeReverseLocalChanges
  <2>1. FileOK'
    BY <1>1, WithoutReversedIsTable DEF TypeInv, FileOK, PullMergeReverseLocalChanges
  <2>2. SessionOK'
    BY <1>1, EmptySeq DEF TypeInv, SessionOK, PullMergeReverseLocalChanges
  <2>3. JobOK'
    BY <1>1 DEF TypeInv, SessionOK, JobOK, Idle, JobOps, PullMergeReverseLocalChanges
  <2>4. TypeInv' /\ Versions' /\ Ends'
    BY <1>1, <2>1, <2>2, <2>3, UnchangedParts, KeptParts DEF TypeInv, PullMergeReverseLocalChanges
  <2> QED BY <2>4 DEF Driving
<1>2. CASE PullReverseStep
  <2>1. PICK id \in IdsBefore(txns, job.at) :
            /\ db' = ApplySkipping(Invert(txns[id].change), db)
            /\ txns' = SetDeleted(txns, id, TRUE)
            /\ job' = [job EXCEPT !.at = id]
    BY <1>2 DEF PullReverseStep
  <2>2. id \in DOMAIN txns
    BY DEF IdsBefore
  <2>3. FileOK' /\ id \in TxnIds
    BY <1>2, <2>1, <2>2, ApplyTxnKeepsFileOK DEF TypeInv, PullReverseStep
  <2>4. JobOK'
    BY <2>1, <2>3 DEF TypeInv, JobOK
  <2>5. TypeInv' /\ Versions' /\ Ends'
    BY <1>2, <2>3, <2>4, UnchangedParts, KeptParts DEF TypeInv, PullReverseStep
  <2> QED BY <2>5 DEF Driving
<1>3. CASE PullReverseDone
  <2>1. conf \in Confs /\ curr \in TxnIds
    BY DEF TypeInv, FileOK, SessionOK
  <2>2. conf' \in Confs /\ conf'.end \in TxnIds
    BY <1>3, <2>1 DEF PullReverseDone, Confs, Stages
  <2>3. FileOK'
    BY <1>3, <2>2 DEF TypeInv, FileOK, PullReverseDone
  <2>4. TypeInv'
    BY <1>3, <2>3, IdleIsJob, UnchangedParts DEF TypeInv, PullReverseDone
  <2>5. Versions' /\ Ends'
    BY <1>3, <2>2, KeptParts DEF PullReverseDone, Ends
  <2> QED BY <2>4, <2>5 DEF Driving
<1>4. CASE PullReverseFails
  <2>1. TypeInv'
    BY <1>4, IdleIsJob, RollbackKeepsTypes, UnchangedParts DEF TypeInv, PullReverseFails
  <2>2. Versions' /\ Ends'
    BY <1>4, KeptParts DEF PullReverseFails
  <2> QED BY <2>1, <2>2 DEF Driving
<1> QED BY <1>1, <1>2, <1>3, <1>4

(* Applying a changeset that leads to a version of the hub.                *)
LEMMA ApplyKeepsTypes ==
    ASSUME PullTypeInv, NEW change \in Changes, NEW fastForward,
           NEW version \in 1..Len(hub), Apply(change, fastForward, version),
           Persist \/ UNCHANGED disk
    PROVE  TypeInv' /\ Versions' /\ Ends'
<1> USE DEF PullTypeInv
<1>1. PICK replaced : db' = Merged(change, replaced)
  BY DEF Apply
<1>2. version \in Nat
  OBVIOUS
<1>3. FileOK'
  BY <1>1, <1>2, MergedIsState DEF TypeInv, FileOK, Apply
<1>4. DiskOK'
  BY <1>3, PersistKeepsDiskOK, UnchangedParts DEF TypeInv
<1>5. TypeInv'
  BY <1>3, <1>4, UnchangedParts DEF TypeInv, Apply
<1>6. Versions'
  BY DEF Versions, Apply, Persist
<1>7. Ends'
  BY DEF Ends, Apply, Persist
<1> QED BY <1>5, <1>6, <1>7

(* Merging, reversing changesets, and what another briefcase does.         *)
LEMMA MergeKeepsTypes ==
    ASSUME PullTypeInv, UNCHANGED driver, driver = "Out",
           \/ \E fastForward \in BOOLEAN : MergeChangeset(fastForward)
           \/ MergeFails \/ ReverseChangeset \/ OtherPushes
    PROVE  PullTypeInv'
<1> USE DEF PullTypeInv
<1>1. hub \in Seq(States) /\ Len(hub) \in Nat /\ parent \in 1..Len(hub) /\ hub # <<>>
  BY LenProperties DEF TypeInv, HubOK, Versions
<1>2. \A v \in 1..Len(hub) : hub[v] \in States
  BY <1>1, ElementOfSeq
<1>3. \A v, w \in 1..Len(hub) : Difference(hub[v], hub[w]) \in Changes
  BY <1>2, DifferenceIsChange
<1>4. ASSUME NEW fastForward \in BOOLEAN, MergeChangeset(fastForward) PROVE PullTypeInv'
  <2>1. parent + 1 \in 1..Len(hub)
    BY <1>1, <1>4 DEF MergeChangeset
  <2>2. TypeInv' /\ Versions' /\ Ends'
    BY <1>1, <1>3, <1>4, <2>1, ApplyKeepsTypes DEF MergeChangeset
  <2> QED BY <2>2 DEF Driving
<1>5. CASE MergeFails
  <2>1. TypeInv'
    BY <1>5, RollbackKeepsTypes, UnchangedParts DEF TypeInv, MergeFails
  <2>2. Versions' /\ Ends'
    BY <1>5, KeptParts DEF MergeFails
  <2> QED BY <2>1, <2>2 DEF Driving
<1>6. CASE ReverseChangeset
  <2>1. parent - 1 \in 1..Len(hub)
    BY <1>1, <1>6 DEF ReverseChangeset
  <2>2. TypeInv' /\ Versions' /\ Ends'
    BY <1>1, <1>3, <1>6, <2>1, ApplyKeepsTypes DEF ReverseChangeset
  <2> QED BY <2>2 DEF Driving
<1>7. CASE OtherPushes
  <2>1. PICK key \in Keys, value \in Values :
            hub' = Append(hub, [hub[Len(hub)] EXCEPT ![key] = value])
    BY <1>7 DEF OtherPushes
  <2>2. [hub[Len(hub)] EXCEPT ![key] = value] \in States
    <3>1. hub[Len(hub)] \in States
      BY <1>1, <1>2
    <3> QED BY <3>1 DEF States
  <2> DEFINE version == [hub[Len(hub)] EXCEPT ![key] = value]
  <2>3. hub' = Append(hub, version) /\ version \in States
    BY <2>1, <2>2
  <2> HIDE DEF version
  <2>4. Len(hub') = Len(hub) + 1 /\ HubOK'
    BY <1>1, <2>3, AppendProperties DEF HubOK
  <2>5. TypeInv'
    BY <1>7, <2>4, UnchangedParts DEF TypeInv, OtherPushes
  <2>6. Versions' /\ Ends'
    BY <1>1, <1>7, <2>4, KeptParts DEF OtherPushes, Versions, Ends
  <2> QED BY <2>5, <2>6 DEF Driving
<1> QED BY <1>4, <1>5, <1>6, <1>7

(* Beginning a rebase, choosing the next Txn, ending and giving up.        *)
LEMMA LoopKeepsTypes ==
    ASSUME PullTypeInv,
           \/ PullMergeRebaseBegin \/ PullMergeRebaseNext \/ PullMergeRebaseNextFails
           \/ PullMergeRebaseAbortTxn \/ PullMergeRebaseEnd
    PROVE  PullTypeInv'
<1> USE DEF PullTypeInv
<1>0. conf \in Confs /\ disk.conf \in Confs
  BY DEF TypeInv, FileOK, DiskOK
<1>1. CASE PullMergeRebaseBegin
  <2>1. conf' = [conf EXCEPT !.stage = "Rebasing"] /\ conf.stage # "None" /\ driver' = "Next"
    BY <1>1 DEF PullMergeRebaseBegin, InProgress
  <2>2. conf' \in Confs /\ conf'.end \in TxnIds /\ conf'.stage = "Rebasing"
    BY <1>0, <2>1 DEF Ends, Confs, Stages
  <2>3. UNCHANGED <<db, txns, parent, txnVars, editVars, creating, job, hub>>
    BY <1>1 DEF PullMergeRebaseBegin
  <2>4. UNCHANGED disk \/ Persist
    BY <1>1 DEF PullMergeRebaseBegin, Persist
  <2>5. FileOK'
    BY <2>2, <2>3 DEF TypeInv, FileOK
  <2>6. DiskOK'
    BY <2>4, <2>5, PersistKeepsDiskOK, UnchangedParts DEF TypeInv
  <2>7. TypeInv'
    BY <2>3, <2>5, <2>6, UnchangedParts DEF TypeInv
  <2>8. Versions'
    BY <2>3, <2>4, KeptParts
  <2>9. Ends'
    BY <2>2, <2>4 DEF Ends, Persist
  <2> QED BY <2>1, <2>2, <2>7, <2>8, <2>9 DEF Driving, Drivers
<1>2. CASE PullMergeRebaseNext
  <2>1. PICK id \in DOMAIN txns \cup {NoTxn} :
            /\ NextToRebase(id) /\ conf' = [conf EXCEPT !.inProgress = id]
            /\ driver' = IF id = NoTxn THEN "End" ELSE "Reinstate"
    BY <1>2 DEF PullMergeRebaseNext
  <2>2. conf.stage = "Rebasing" /\ driver = "Next"
    BY <1>2 DEF PullMergeRebaseNext, Driving
  <2>3. id \in TxnIds \cup {NoTxn}
    BY DEF TypeInv, FileOK, IsFiniteTable, IsTable
  <2>4. /\ conf' \in Confs /\ conf'.end \in TxnIds /\ conf'.stage = "Rebasing"
        /\ conf'.inProgress = id
    BY <1>0, <2>1, <2>2, <2>3 DEF Ends, Confs, Stages
  <2>5. UNCHANGED <<db, txns, parent, txnVars, editVars, creating, job, hub>> /\ Persist
    BY <1>2 DEF PullMergeRebaseNext
  <2>6. FileOK'
    BY <2>4, <2>5 DEF TypeInv, FileOK
  <2>7. DiskOK'
    BY <2>5, <2>6, PersistKeepsDiskOK
  <2>8. TypeInv'
    BY <2>5, <2>6, <2>7, UnchangedParts DEF TypeInv
  <2>9. Versions' /\ Ends'
    BY <2>4, <2>5, KeptParts
  <2>10. Driving'
    BY <2>1, <2>4, <2>5 DEF Driving, Drivers
  <2> QED BY <2>8, <2>9, <2>10
<1>3. CASE PullMergeRebaseNextFails
  <2>1. UNCHANGED vars /\ driver' = "Failed"
    BY <1>3 DEF PullMergeRebaseNextFails
  <2>2. TypeInv'
    BY <2>1, UnchangedParts DEF TypeInv
  <2> QED BY <2>1, <2>2, KeptParts DEF Driving, Drivers
<1>4. CASE PullMergeRebaseAbortTxn
  <2>1. /\ db' = disk.db /\ txns' = disk.txns /\ parent' = disk.parent
        /\ conf' = [conf EXCEPT !.inProgress = NoTxn]
        /\ tracked' = EmptyMap /\ ddl' = FALSE /\ lastSave' = "OK"
        /\ driver' = "Out" /\ Persist /\ UNCHANGED <<txnVars, creating, job, hub>>
    BY <1>4 DEF PullMergeRebaseAbortTxn
  <2>2. conf' \in Confs /\ conf'.end = conf.end /\ conf'.stage = conf.stage
    BY <1>0, <2>1 DEF Confs
  <2>3. FileOK'
    BY <2>1, <2>2 DEF TypeInv, DiskOK, FileOK
  <2>4. DiskOK'
    BY <2>1, <2>3, PersistKeepsDiskOK
  <2>5. EditOK'
    BY <2>1, EmptyMapIsTracked DEF EditOK
  <2>6. TypeInv'
    BY <2>1, <2>3, <2>4, <2>5, UnchangedParts DEF TypeInv
  <2>7. Versions'
    BY <2>1 DEF Versions, Persist
  <2>8. Ends'
    BY <2>1, <2>2, KeptParts DEF Ends
  <2> QED BY <2>1, <2>6, <2>7, <2>8 DEF Driving, Drivers
<1>5. CASE PullMergeRebaseEnd
  <2>1. /\ driver = "End" /\ curr' = conf.end /\ reversed' = <<>>
        /\ conf' = [conf EXCEPT !.stage = "None", !.end = NoTxn]
        /\ driver' = "Out" /\ Persist
        /\ UNCHANGED <<db, txns, parent, multi, editVars, creating, job, hub>>
    BY <1>5 DEF PullMergeRebaseEnd, EndWithCurr
  <2>2. conf' \in Confs /\ conf'.stage = "None" /\ conf.end \in TxnIds
    BY <1>0, <2>1 DEF Confs, Stages, Driving, Ends
  <2>3. FileOK'
    BY <2>1, <2>2 DEF TypeInv, FileOK
  <2>4. DiskOK'
    BY <2>1, <2>3, PersistKeepsDiskOK
  <2>5. SessionOK'
    BY <2>1, <2>2, EmptySeq DEF TypeInv, SessionOK
  <2>6. TypeInv'
    BY <2>1, <2>3, <2>4, <2>5, UnchangedParts DEF TypeInv
  <2>7. Versions' /\ Ends'
    BY <2>1, <2>2, KeptParts
  <2> QED BY <2>1, <2>6, <2>7 DEF Driving, Drivers
<1> QED BY <1>1, <1>2, <1>3, <1>4, <1>5

(* What a rebased Txn becomes.                                             *)
LEMMA UpdatedIsTable ==
    ASSUME FileOK, conf.inProgress \in DOMAIN txns, NEW change \in Changes
    PROVE  IsFiniteTable(UpdatedTxns(change))
<1>1. IsFiniteTable(txns) /\ RebasedRow \in Rows /\ conf.inProgress \in TxnIds
  BY DEF FileOK, IsFiniteTable, IsTable, RebasedRow
<1>2. [RebasedRow EXCEPT !.change = change, !.deleted = FALSE] \in Rows
  BY <1>1 DEF Rows
<1> QED BY <1>1, <1>2, KeepIsTable, InsertIsTable DEF UpdatedTxns

(* Reinstating and updating a Txn, with its failures.                      *)
LEMMA RebasedKeepsTypes ==
    ASSUME PullTypeInv,
           \/ PullMergeRebaseReinstateTxn \/ PullMergeRebaseReinstateFails
           \/ PullMergeRebaseUpdateTxn \/ PullMergeSetTxnActive
           \/ PullMergeRebaseUpdateFails
    PROVE  PullTypeInv'
<1> USE DEF PullTypeInv
<1>0. conf.inProgress \in DOMAIN txns /\ conf.stage = "Rebasing"
  BY DEF Driving, PullMergeRebaseReinstateTxn, PullMergeRebaseReinstateFails,
         PullMergeRebaseUpdateTxn, PullMergeSetTxnActive, PullMergeRebaseUpdateFails
<1>a. /\ IsFiniteTable(txns) /\ db \in States /\ RebasedRow \in Rows
      /\ conf.inProgress \in TxnIds /\ conf.end \in TxnIds
  BY <1>0 DEF TypeInv, FileOK, IsFiniteTable, IsTable, RebasedRow, Ends
<1>b. BeforeEdits \in States /\ Propagated \subseteq States
  BY BeforeEditsIsState DEF TypeInv
<1>1. CASE PullMergeRebaseReinstateTxn
  <2>1. PICK replaced : db' = Merged(RebasedRow.change, replaced)
    BY <1>1 DEF PullMergeRebaseReinstateTxn
  <2>2. /\ tracked' = [k \in {key \in Keys : db'[key] # db[key]} |-> db[k]]
        /\ driver' = "Update"
        /\ UNCHANGED <<txns, conf, parent, disk, txnVars, ddl, lastSave, creating, job, hub>>
    BY <1>1 DEF PullMergeRebaseReinstateTxn
  <2>3. db' \in States
    BY <1>a, <2>1, MergedIsState DEF Rows, TypeInv
  <2>4. FileOK'
    BY <2>2, <2>3 DEF TypeInv, FileOK
  <2>5. EditOK'
    <3> DEFINE keys == {key \in Keys : db'[key] # db[key]}
    <3>1. keys \in SUBSET Keys /\ tracked' = [k \in keys |-> db[k]]
      BY <2>2
    <3> HIDE DEF keys
    <3> QED BY <1>a, <2>2, <3>1, DifferingAreTracked DEF TypeInv, EditOK
  <2>6. TypeInv'
    BY <2>2, <2>4, <2>5, UnchangedParts DEF TypeInv
  <2>7. Versions' /\ Ends'
    BY <2>2, KeptParts
  <2> QED BY <1>0, <2>2, <2>6, <2>7 DEF Driving, Drivers
<1>2. CASE PullMergeRebaseReinstateFails
  <2>1. Rollback /\ driver' = "Failed" /\ UNCHANGED <<disk, txnVars, creating, job, hub>>
    BY <1>2 DEF PullMergeRebaseReinstateFails
  <2>2. TypeInv'
    BY <2>1, RollbackKeepsTypes, UnchangedParts DEF TypeInv
  <2>3. Versions' /\ Ends'
    BY <2>1, KeptParts
  <2> QED BY <2>1, <2>2, <2>3 DEF Driving, Drivers
<1>3. CASE PullMergeRebaseUpdateTxn
  <2>1. PICK state \in PropagatedByRebase :
            db' = state /\ txns' = UpdatedTxns(Difference(BeforeEdits, state))
    BY <1>3 DEF PullMergeRebaseUpdateTxn
  <2>2. state \in States
    BY <1>a, <1>b DEF PropagatedByRebase
  <2>3. /\ tracked' = EmptyMap /\ curr' = conf.inProgress /\ driver' = "Next" /\ Persist
        /\ UNCHANGED <<conf, parent, reversed, multi, ddl, lastSave, creating, job, hub>>
    BY <1>3 DEF PullMergeRebaseUpdateTxn
  <2>4. IsFiniteTable(txns')
    BY <1>0, <1>b, <2>1, <2>2, DifferenceIsChange, UpdatedIsTable DEF TypeInv
  <2>5. FileOK'
    BY <2>1, <2>2, <2>3, <2>4 DEF TypeInv, FileOK
  <2>6. DiskOK'
    BY <2>3, <2>5, PersistKeepsDiskOK
  <2>7. EditOK' /\ SessionOK'
    BY <1>a, <2>3, EmptyMapIsTracked DEF TypeInv, EditOK, SessionOK
  <2>8. TypeInv'
    BY <2>3, <2>5, <2>6, <2>7, UnchangedParts DEF TypeInv
  <2>9. Versions' /\ Ends'
    BY <1>a, <2>3, KeptParts
  <2> QED BY <1>0, <2>3, <2>8, <2>9 DEF Driving, Drivers
<1>4. CASE PullMergeSetTxnActive
  <2>1. /\ txns' = SetDeleted(txns, conf.inProgress, FALSE) /\ curr' = conf.inProgress
        /\ driver' = "Next"
        /\ UNCHANGED <<db, conf, parent, disk, reversed, multi, editVars, creating, job, hub>>
    BY <1>4 DEF PullMergeSetTxnActive
  <2>2. FileOK'
    BY <1>0, <1>a, <2>1, SetDeletedIsTable DEF TypeInv, FileOK
  <2>3. SessionOK'
    BY <1>a, <2>1 DEF TypeInv, SessionOK
  <2>4. TypeInv'
    BY <2>1, <2>2, <2>3, UnchangedParts DEF TypeInv
  <2>5. Versions' /\ Ends'
    BY <2>1, KeptParts
  <2> QED BY <1>0, <2>1, <2>4, <2>5 DEF Driving, Drivers
<1>5. CASE PullMergeRebaseUpdateFails
  <2>1. PICK state \in Propagated :
            db' = state /\ tracked' = [k \in DOMAIN Difference(db, state) |-> db[k]]
    BY <1>5 DEF PullMergeRebaseUpdateFails
  <2>2. /\ driver' = "Failed"
        /\ UNCHANGED <<txns, conf, parent, disk, txnVars, ddl, lastSave, creating, job, hub>>
    BY <1>5 DEF PullMergeRebaseUpdateFails
  <2>3. FileOK'
    BY <1>b, <2>1, <2>2 DEF TypeInv, FileOK
  <2>4. EditOK'
    <3> DEFINE keys == DOMAIN Difference(db, state)
    <3>1. keys \in SUBSET Keys /\ tracked' = [k \in keys |-> db[k]]
      BY <2>1 DEF Difference
    <3> HIDE DEF keys
    <3> QED BY <1>a, <2>2, <3>1, DifferingAreTracked DEF TypeInv, EditOK
  <2>5. TypeInv'
    BY <2>2, <2>3, <2>4, UnchangedParts DEF TypeInv
  <2>6. Versions' /\ Ends'
    BY <2>2, KeptParts
  <2> QED BY <2>2, <2>5, <2>6 DEF Driving, Drivers
<1> QED BY <1>1, <1>2, <1>3, <1>4, <1>5

(* A call of TxnManager outside the rebase loop, or an edit inside it.     *)
TxnCall ==
    /\ Next /\ driver' = driver
    /\ driver = "Out" \/ (driver = "Update" /\ MayEditRebased /\ EditNext)

(* The steps of a briefcase that pulls: those TxnManager makes by itself,  *)
(* those of a pull, and those of the rebase loop.                          *)
PullCall ==
    /\ driver = "Out" /\ UNCHANGED driver
    /\ \/ PullMergeReverseLocalChanges
       \/ PullReverseStep \/ PullReverseDone \/ PullReverseFails
       \/ \E fastForward \in BOOLEAN : MergeChangeset(fastForward)
       \/ MergeFails \/ ReverseChangeset \/ OtherPushes
LoopCall ==
    \/ PullMergeRebaseBegin \/ RebaseStep
    \/ PullMergeRebaseReinstateFails \/ PullMergeRebaseUpdateFails
    \/ PullMergeRebaseAbortTxn

LEMMA PullSteps ==
    ASSUME [PullNext]_pullVars
    PROVE  TxnCall \/ PullCall \/ LoopCall \/ PullCrash \/ UNCHANGED pullVars
<1>1. ASSUME driver = "Out", ClientNext, UNCHANGED driver
      PROVE  TxnCall \/ PullCall
  BY <1>1 DEF ClientNext, UndoTo, TxnCall, PullCall, Next, UndoNext
<1>2. EditNext => Next
  BY DEF EditNext, Next
<1> QED BY <1>1, <1>2 DEF PullNext, TxnCall, LoopCall

LEMMA PullTypeInit == PullInit => PullTypeInv
<1> SUFFICES ASSUME PullInit PROVE PullTypeInv
  OBVIOUS
<1>1. Init /\ driver = "Out"
  BY DEF PullInit
<1>2. TypeInv
  BY <1>1, TypeInvInit
<1>3. Versions
  <2>1. parent = 1 /\ disk.parent = 1 /\ creating = NotCreating /\ hub = <<InitialState>>
    BY <1>1 DEF Init
  <2>2. Len(hub) = 1
    BY <2>1
  <2> QED BY <2>1, <2>2 DEF Versions, NotCreating
<1>4. Ends /\ Driving
  BY <1>1 DEF Init, Ends, Driving, Drivers, NoConf
<1> QED BY <1>2, <1>3, <1>4 DEF PullTypeInv

LEMMA PullTypeStep == PullTypeInv /\ [PullNext]_pullVars => PullTypeInv'
<1> SUFFICES ASSUME PullTypeInv, [PullNext]_pullVars PROVE PullTypeInv'
  OBVIOUS
<1>1. CASE TxnCall
  <2>1. TypeInv' /\ Versions' /\ Ends'
    BY <1>1, TxnStepKeepsVersions DEF TxnCall
  <2>2. CASE driver = "Out"
    BY <1>1, <2>1, <2>2 DEF PullTypeInv, TxnCall, Driving
  <2>3. CASE driver = "Update" /\ EditNext
    <3>1. UNCHANGED <<conf, txns, driver>>
      BY <1>1, <2>3 DEF TxnCall, EditNext, Edit
    <3> QED BY <2>1, <3>1 DEF PullTypeInv, Driving
  <2> QED BY <1>1, <2>2, <2>3 DEF TxnCall
<1>2. CASE PullCall
  BY <1>2, PullReverseKeepsTypes, MergeKeepsTypes DEF PullCall
<1>3. CASE LoopCall
  BY <1>3, LoopKeepsTypes, RebasedKeepsTypes DEF LoopCall, RebaseStep
<1>4. CASE PullCrash
  <2>1. Next /\ driver' = "Out"
    BY <1>4 DEF PullCrash, Next
  <2> QED BY <2>1, TxnStepKeepsVersions DEF PullTypeInv, Driving, Drivers
<1>5. CASE UNCHANGED pullVars
  <2>1. UNCHANGED vars /\ UNCHANGED driver
    BY <1>5 DEF pullVars
  <2>2. TypeInv'
    BY <2>1, UnchangedParts DEF PullTypeInv, TypeInv
  <2> QED BY <2>1, <2>2, KeptParts DEF PullTypeInv, Driving
<1> QED BY <1>1, <1>2, <1>3, <1>4, <1>5, PullSteps

(* PullTypeOK is an invariant, through every mishap: in particular a merge *)
(* never looks for a version the hub does not have, a push that is         *)
(* finished leads to one it has, and curr is an id when a pull has ended.  *)
THEOREM PullTypeCorrect == PullSpec => []PullTypeOK
<1>1. PullTypeInv => PullTypeOK
  BY TypeInvImpliesTypeOK DEF PullTypeInv, PullTypeOK, Driving
<1> QED BY <1>1, PullTypeInit, PullTypeStep, PTL DEF PullSpec

-------------------------------------------------------------------------------
(***************************************************************************)
(* The order of a rebase.  The client waits for its pull to end; once a    *)
(* Txn has been rebased the loop is not begun again after a failure, and   *)
(* no crash comes between the commit that names the next Txn and the one   *)
(* that rebases it.  Every other crash and failure is allowed.             *)
(***************************************************************************)
Steady ==
    /\ AbandonsFailure /\ "SaveWhileMerging" \notin Mishaps
    /\ "RestartRebase" \notin Mishaps /\ "CrashInRebase" \notin Mishaps

(* How far the Txns of a table have been rebased: none; up to and with id; *)
(* up to but without id.                                                   *)
AllReversed(table) == \A i \in DOMAIN table : table[i].deleted
RebasedTo(table, id) == \A i \in DOMAIN table : table[i].deleted <=> Before(id, i)
RebasedBelow(table, id) == \A i \in DOMAIN table : table[i].deleted <=> ~Before(i, id)

(* No pull is under way, in memory or in the file.                         *)
Local == conf.stage = "None" /\ disk.conf.stage = "None"

(* The file: a pull that has been committed has every local Txn reversed;  *)
(* a rebase has got to the Txn it says, or is about to.                    *)
FileStage ==
    /\ disk.conf.stage # "Rebasing" => disk.conf.inProgress = NoTxn
    /\ disk.conf.stage = "Merging" => AllReversed(disk.txns)
    /\ disk.conf.stage = "Rebasing" =>
          RebasedTo(disk.txns, disk.conf.inProgress) \/ (InMidRebase /\ driver # "Out")

(* The open transaction: what a pull under way has reversed, and how far   *)
(* it may be ahead of the file.                                            *)
WorkStage ==
    /\ conf.stage = "None" /\ job.op # "Discard" =>
          disk.conf.stage = "None" /\ conf.inProgress = NoTxn
    /\ conf.stage = "Merging" =>
          /\ disk.conf.stage # "Rebasing" /\ conf.inProgress = NoTxn
          /\ AllReversed(txns) /\ ~HasChanges
          /\ job.op \in {"None", "Discard"}
          /\ disk.conf.stage = "Merging" /\ job.op = "None" => txns = disk.txns
    /\ conf.stage = "Rebasing" =>
          job.op = "None" /\ disk.conf = conf /\ DOMAIN disk.txns = DOMAIN txns

(* The loop: how far it has got before each of its calls.  Edits that make *)
(* a call fail are only made to the first Txn.                             *)
LoopStage ==
    /\ driver # "Out" => conf.stage = "Rebasing"
    /\ conf.stage = "Rebasing" /\ driver = "Out" => txns = disk.txns
    /\ driver = "Next" =>
          /\ RebasedTo(txns, conf.inProgress)
          /\ HasChanges => AllReversed(disk.txns)
    /\ driver \in {"Reinstate", "Update"} =>
          RebasedBelow(txns, conf.inProgress) /\ txns = disk.txns /\ ~ddl
    /\ driver = "Update" /\ HasDataChanges /\ RebasedRow.type = "Ddl" => AllReversed(txns)
    /\ driver = "End" =>
          /\ \A i \in DOMAIN txns : ~txns[i].deleted
          /\ conf.inProgress = NoTxn /\ txns = disk.txns
    /\ driver = "Failed" => AllReversed(disk.txns)

(* The ids: those of TxnManager while no pull is under way; every local    *)
(* Txn before the end that was recorded when one was begun; and, until the *)
(* pull is committed, room in the file a rollback falls back on.           *)
IdStage ==
    /\ Local /\ job.op \notin {"PullReverse", "DeleteAll"} => IdInv
    /\ job.op = "PullReverse" =>
          /\ Local /\ ~HasChanges
          /\ AllBefore(txns, curr) /\ Freed(txns, job.at) /\ job.at \in TxnIds
    /\ (job.op = "PullReverse" \/ conf.stage = "Merging") /\ disk.conf.stage = "None" =>
          /\ Freed(disk.txns, curr) /\ reversed = <<>>
          /\ \A i \in DOMAIN disk.txns : ~disk.txns[i].deleted => i \in DOMAIN txns
    /\ conf.stage # "None" /\ job.op = "None" => AllBefore(txns, conf.end)
    /\ disk.conf.stage # "None" => AllBefore(disk.txns, disk.conf.end)

StageInv == FileStage /\ WorkStage /\ LoopStage /\ IdStage

(* A DDL Txn changes no data, so reinstating it leaves nothing tracked.    *)
DdlEmpty(table) == \A i \in DOMAIN table : table[i].type = "Ddl" => DOMAIN table[i].change = {}
DdlRows == DdlEmpty(txns) /\ DdlEmpty(disk.txns)

PullInv == PullTypeInv /\ StageInv /\ DdlRows

(* Outside a pull.                                                         *)
LEMMA LocalIsStaged ==
    ASSUME Local', driver' = "Out", disk'.conf.inProgress = NoTxn,
           job'.op # "Discard" => conf'.inProgress = NoTxn,
           job'.op # "PullReverse", job'.op = "DeleteAll" \/ IdInv'
    PROVE  StageInv'
<1>1. FileStage'
  BY DEF FileStage, Local
<1>2. WorkStage'
  BY DEF WorkStage, Local
<1>3. LoopStage'
  BY DEF LoopStage, Local
<1>4. IdStage'
  BY DEF IdStage, Local
<1> QED BY <1>1, <1>2, <1>3, <1>4 DEF StageInv

(* While changesets are merged, before the first of them is committed.     *)
LEMMA MergingIsStaged ==
    ASSUME conf'.stage = "Merging", conf'.inProgress = NoTxn, driver' = "Out",
           job'.op = "None", ~HasChanges', AllReversed(txns'), AllBefore(txns', conf'.end),
           disk'.conf.stage = "None", disk'.conf.inProgress = NoTxn,
           Freed(disk'.txns, curr'), reversed' = <<>>,
           \A i \in DOMAIN disk'.txns : ~disk'.txns[i].deleted => i \in DOMAIN txns'
    PROVE  StageInv'
<1>1. FileStage'
  BY DEF FileStage
<1>2. WorkStage'
  BY DEF WorkStage
<1>3. LoopStage'
  BY DEF LoopStage
<1>4. IdStage'
  BY DEF IdStage, Local
<1> QED BY <1>1, <1>2, <1>3, <1>4 DEF StageInv

(* And after.                                                              *)
LEMMA MergedIsStaged ==
    ASSUME conf'.stage = "Merging", conf'.inProgress = NoTxn, driver' = "Out",
           job'.op = "None", ~HasChanges', AllReversed(txns'), AllBefore(txns', conf'.end),
           disk'.conf = conf', disk'.txns = txns'
    PROVE  StageInv'
<1>1. FileStage'
  BY DEF FileStage
<1>2. WorkStage'
  BY DEF WorkStage
<1>3. LoopStage'
  BY DEF LoopStage
<1>4. IdStage'
  BY DEF IdStage, Local
<1> QED BY <1>1, <1>2, <1>3, <1>4 DEF StageInv

(* Between two attempts at the rebase loop.                                *)
LEMMA RebasingIsStaged ==
    ASSUME conf'.stage = "Rebasing", driver' = "Out", job'.op = "None",
           disk'.conf = conf', disk'.txns = txns',
           RebasedTo(txns', conf'.inProgress), AllBefore(txns', conf'.end)
    PROVE  StageInv'
<1>1. FileStage'
  BY DEF FileStage
<1>2. WorkStage'
  BY DEF WorkStage
<1>3. LoopStage'
  BY DEF LoopStage
<1>4. IdStage'
  BY DEF IdStage, Local
<1> QED BY <1>1, <1>2, <1>3, <1>4 DEF StageInv

-------------------------------------------------------------------------------
(***************************************************************************)
(* DDL rows through every step.                                            *)
(***************************************************************************)
LEMMA KeepIsDdlEmpty ==
    ASSUME NEW table, IsFiniteTable(table), DdlEmpty(table), NEW ids
    PROVE  DdlEmpty(Keep(table, ids))
<1>1. /\ DOMAIN Keep(table, ids) \subseteq DOMAIN table
      /\ \A i \in DOMAIN Keep(table, ids) : Keep(table, ids)[i] = table[i]
  BY KeepIsTable
<1> QED BY <1>1 DEF DdlEmpty

LEMMA WithoutReversedIsDdlEmpty ==
    ASSUME NEW table, IsFiniteTable(table), DdlEmpty(table)
    PROVE  DdlEmpty(WithoutReversed(table))
  BY KeepIsDdlEmpty DEF WithoutReversed

LEMMA SetDeletedIsDdlEmpty ==
    ASSUME NEW table, IsFiniteTable(table), DdlEmpty(table),
           NEW id \in DOMAIN table, NEW flag \in BOOLEAN
    PROVE  DdlEmpty(SetDeleted(table, id, flag))
  BY SetDeletedIsTable DEF DdlEmpty

LEMMA InsertIsDdlEmpty ==
    ASSUME NEW table, IsFiniteTable(table), DdlEmpty(table), NEW id, NEW row,
           row.type = "Ddl" => DOMAIN row.change = {}
    PROVE  DdlEmpty(Insert(table, id, row))
<1>1. /\ DOMAIN Insert(table, id, row) = DOMAIN table \cup {id}
      /\ \A i \in DOMAIN table \cup {id} :
            Insert(table, id, row)[i] = IF i = id THEN row ELSE table[i]
  BY DEF Insert
<1> QED BY <1>1 DEF DdlEmpty

(* SaveTxn: only SaveDdlTxn makes a DDL row, and with an empty changeset.   *)
LEMMA SaveTxnIsDdlEmpty ==
    ASSUME NEW from, IsSaved(from), DdlEmpty(from.txns), NEW type \in TxnTypes,
           NEW change \in Changes, type = "Ddl" => change = EmptyMap,
           NEW s \in SaveTxn(from, type, change)
    PROVE  IsSaved(s) /\ DdlEmpty(s.txns)
<1> DEFINE isGrouped == from.multi # <<>> /\ Before(Head(from.multi), from.curr)
           row == [type |-> type, deleted |-> FALSE, change |-> change,
                   grouped |-> isGrouped]
           table == Insert(from.txns, from.curr, row)
<1>1. s.txns = table
  <2>1. CASE type = "Data"
    <3>1. s = [txns |-> table, curr |-> Increment(from.curr), multi |-> from.multi]
      BY <2>1 DEF SaveTxn
    <3> HIDE DEF table
    <3> QED BY <3>1
  <2>2. CASE type # "Data"
    <3>1. PICK id \in NewSessions(table) : s = [txns |-> table, curr |-> id, multi |-> <<>>]
      BY <2>2 DEF SaveTxn
    <3> HIDE DEF table
    <3> QED BY <3>1
  <2> QED BY <2>1, <2>2
<1>2. row.type = "Ddl" => DOMAIN row.change = {}
  BY DEF EmptyMap
<1> HIDE DEF row
<1>3. DdlEmpty(table)
  BY <1>2, InsertIsDdlEmpty DEF IsSaved
<1> QED BY <1>1, <1>3, SaveTxnKeepsTypes

LEMMA SaveTrackedIsDdlEmpty ==
    ASSUME SavedOK, NEW table, IsFiniteTable(table), DdlEmpty(table),
           NEW version, NEW restart, SaveTracked(table, version, restart)
    PROVE  DdlRows'
<1>1. PICK state \in Propagated :
          LET start == [txns |-> WithoutReversed(table), curr |-> curr, multi |-> multi]
          IN \E middle \in SaveDdlTxn(start) :
             \E end \in SaveSchemaAndDataTxns(middle, Difference(BeforeEdits, state)) :
                /\ Cardinality(DOMAIN end.txns) <= MaxTxns /\ end.curr[2] <= MaxTxns
                /\ db' = state /\ txns' = end.txns
                /\ SettleSession(end.txns, end.curr, end.multi, <<>>, restart)
  BY DEF SaveTracked
<1> DEFINE start == [txns |-> WithoutReversed(table), curr |-> curr, multi |-> multi]
           change == Difference(BeforeEdits, state)
<1>2. PICK middle \in SaveDdlTxn(start) :
          \E end \in SaveSchemaAndDataTxns(middle, change) : txns' = end.txns
  BY <1>1
<1>3. PICK end \in SaveSchemaAndDataTxns(middle, change) : txns' = end.txns
  BY <1>2
<1>4. change \in Changes
  BY BeforeEditsIsState, DifferenceIsChange DEF SavedOK
<1>5. IsSaved(start) /\ DdlEmpty(start.txns)
  BY WithoutReversedIsTable, WithoutReversedIsDdlEmpty DEF IsSaved, SavedOK, SessionOK
<1> HIDE DEF start, change
<1>6. IsSaved(middle) /\ DdlEmpty(middle.txns)
  <2>1. CASE ddl
    <3>1. middle \in SaveTxn(start, "Ddl", EmptyMap)
      BY <2>1 DEF SaveDdlTxn
    <3> QED BY <1>5, <3>1, SaveTxnIsDdlEmpty, EmptyIsChange DEF TxnTypes
  <2>2. CASE ~ddl
    BY <1>5, <2>2 DEF SaveDdlTxn
  <2> QED BY <2>1, <2>2
<1>7. DdlEmpty(end.txns)
  <2>1. CASE DOMAIN change = {}
    BY <1>6, <2>1 DEF SaveSchemaAndDataTxns
  <2>2. CASE DOMAIN change # {}
    <3> DEFINE type == IF DOMAIN DirectChange \cap SchemaKeys # {} THEN "EcSchema" ELSE "Data"
    <3>1. end \in SaveTxn(middle, type, change) /\ type \in TxnTypes /\ type # "Ddl"
      BY <2>2 DEF SaveSchemaAndDataTxns, TxnTypes
    <3> HIDE DEF type
    <3> QED BY <1>4, <1>6, <3>1, SaveTxnIsDdlEmpty
  <2> QED BY <2>1, <2>2
<1> QED BY <1>3, <1>7 DEF DdlRows, SaveTracked, Persist

(* A save, of whatever table.                                              *)
LEMMA SaveIsDdlEmpty ==
    ASSUME SavedOK, DdlRows, NEW table, IsFiniteTable(table), DdlEmpty(table),
           NEW version, NEW restart,
           \/ SaveUntracked(table, version, restart) \/ SaveTracked(table, version, restart)
           \/ SaveFails(table, version)
    PROVE  DdlRows'
<1>1. CASE SaveUntracked(table, version, restart)
  BY <1>1 DEF SaveUntracked, Persist, DdlRows
<1>2. CASE SaveTracked(table, version, restart)
  BY <1>2, SaveTrackedIsDdlEmpty
<1>3. CASE SaveFails(table, version)
  BY <1>3, WithoutReversedIsDdlEmpty DEF SaveFails, DdlRows
<1> QED BY <1>1, <1>2, <1>3

(* What leaves the tables as they are, or takes them from the file.        *)
LEMMA KeptDdlRows ==
    /\ DdlRows /\ UNCHANGED <<txns, disk>> => DdlRows'
    /\ DdlRows /\ UNCHANGED txns /\ Persist => DdlRows'
    /\ DdlRows /\ Rollback /\ UNCHANGED disk => DdlRows'
    /\ DdlRows /\ AbandonIfChanged /\ UNCHANGED disk => DdlRows'
  BY DEF DdlRows, Persist, Rollback, AbandonIfChanged

LEMMA TxnStepKeepsDdlRows ==
    ASSUME TypeInv, DdlRows, [Next]_vars
    PROVE  DdlRows'
<1>1. /\ IsFiniteTable(txns) /\ IsFiniteTable(disk.txns)
      /\ DdlEmpty(txns) /\ DdlEmpty(disk.txns) /\ SavedOK
  BY DEF TypeInv, FileOK, DiskOK, DdlRows, SavedOK
<1>2. /\ DdlEmpty(WithoutReversed(txns)) /\ DdlEmpty(WithoutReversed(disk.txns))
      /\ \A id \in DOMAIN txns, flag \in BOOLEAN : DdlEmpty(SetDeleted(txns, id, flag))
  BY <1>1, WithoutReversedIsDdlEmpty, SetDeletedIsDdlEmpty
<1>3. \A id : IsFiniteTable(From(txns, id)) /\ DdlEmpty(From(txns, id))
  BY <1>1, FromIsTable, KeepIsDdlEmpty DEF From
<1>4. CASE \E key \in Keys, value \in Values : Edit(key, value)
  BY <1>4, KeptDdlRows DEF Edit
<1>5. CASE EditDdl \/ BeginMultiTxnOperation \/ EndMultiTxnOperation \/ RestartTxnSession
           \/ StopCreateChangeset \/ Upload \/ UNCHANGED vars
  BY <1>5, KeptDdlRows DEF EditDdl, BeginMultiTxnOperation, EndMultiTxnOperation,
     RestartTxnSession, StopCreateChangeset, Upload
<1>6. CASE AbandonChanges \/ ReinstateFails \/ DiscardFails \/ Crash
  BY <1>6, KeptDdlRows DEF AbandonChanges, ReinstateFails, DiscardFails, Crash
<1>7. CASE SaveChanges
  <2>1. CASE SaveRefused
    BY <2>1, KeptDdlRows DEF SaveRefused
  <2> QED BY <1>1, <1>7, <2>1, SaveIsDdlEmpty DEF SaveChanges
<1>8. CASE FinishCreateChangeset
  <2> DEFINE table == From(txns, creating.end)
             version == creating.parent + 1
  <2>1. \/ SaveUntracked(table, version, TRUE) \/ SaveTracked(table, version, TRUE)
        \/ SaveFails(table, version)
    BY <1>8 DEF FinishCreateChangeset
  <2>2. IsFiniteTable(table) /\ DdlEmpty(table)
    BY <1>3
  <2> HIDE DEF table, version
  <2> QED BY <1>1, <2>1, <2>2, SaveIsDdlEmpty
<1>9. CASE \E first, cancel : ReverseRange(first, cancel)
  BY <1>9, KeptDdlRows DEF ReverseRange
<1>10. CASE ReinstateTxn
  BY <1>10, KeptDdlRows DEF ReinstateTxn
<1>11. CASE CancelNothing
  BY <1>1, <1>2, <1>11 DEF CancelNothing, DdlRows
<1>12. CASE ReverseStep
  BY <1>1, <1>2, <1>12 DEF ReverseStep, DdlRows, IdsBefore
<1>13. CASE ReverseDone
  BY <1>1, <1>2, <1>13 DEF ReverseDone, DdlRows
<1>14. CASE ReverseFails
  BY <1>1, <1>2, <1>14 DEF ReverseFails, DdlRows
<1>15. CASE ReinstateStep
  BY <1>1, <1>2, <1>15 DEF ReinstateStep, DdlRows
<1>16. CASE ReinstateDone
  BY <1>16, KeptDdlRows DEF ReinstateDone
<1>17. CASE StartCreateChangeset
  BY <1>1, <1>2, <1>17 DEF StartCreateChangeset, DdlRows, Persist
<1>18. CASE StartCreateChangesetFails
  BY <1>1, <1>2, <1>18 DEF StartCreateChangesetFails, DdlRows
<1>19. CASE DiscardLocalChanges
  BY <1>1, <1>2, <1>19 DEF DiscardLocalChanges, DdlRows
<1>20. CASE DiscardStep
  BY <1>1, <1>2, <1>20 DEF DiscardStep, DdlRows, IdsBefore
<1>21. CASE DiscardReversed
  BY <1>21, KeptDdlRows DEF DiscardReversed
<1>22. CASE DeleteAllTxns
  BY <1>22 DEF DeleteAllTxns, Persist, DdlRows, DdlEmpty, EmptyMap
<1>23. CASE UndoNext
  BY <1>9, <1>10, <1>11, <1>12, <1>13, <1>14, <1>15, <1>16, <1>6, <1>23
     DEF UndoNext, ReverseTxns, ReverseTo, ReverseAll, CancelTo
<1>24. CASE PushNext \/ DiscardNext
  BY <1>5, <1>6, <1>8, <1>17, <1>18, <1>19, <1>20, <1>21, <1>22, <1>24 DEF PushNext, DiscardNext
<1> QED BY <1>4, <1>5, <1>6, <1>7, <1>23, <1>24 DEF Next

-------------------------------------------------------------------------------
(***************************************************************************)
(* Outside a pull.                                                         *)
(***************************************************************************)

(* Which steps of TxnManager a call that discards or reverses leaves room  *)
(* for, and that none of them begins to reverse for a pull.                *)
LEMMA StepsOfCalls ==
    ASSUME [Next]_vars, job.op \in {"Discard", "DeleteAll", "PullReverse"}
    PROVE  \/ Crash \/ UNCHANGED vars
           \/ job.op = "Discard" /\ (DiscardStep \/ DiscardFails \/ DiscardReversed)
           \/ job.op = "DeleteAll" /\ DeleteAllTxns
<1>1. ~(\E key \in Keys, value \in Values : Edit(key, value))
  BY DEF Edit, MayEdit, ClientReady
<1>2. ~EditDdl /\ ~SaveChanges /\ ~AbandonChanges
  BY DEF EditDdl, MayEdit, ClientReady, SaveChanges, AbandonChanges
<1>3. ~BeginMultiTxnOperation /\ ~EndMultiTxnOperation /\ ~RestartTxnSession
  BY DEF BeginMultiTxnOperation, EndMultiTxnOperation, RestartTxnSession, ClientReady
<1>4. ~UndoNext
  <2>1. ~\E first, cancel : ReverseRange(first, cancel)
    BY DEF ReverseRange, ClientReady
  <2>2. ~CancelNothing /\ ~ReinstateTxn
    BY DEF CancelNothing, ReinstateTxn, ClientReady
  <2>3. ~ReverseStep /\ ~ReverseDone /\ ~ReverseFails
    BY DEF ReverseStep, ReverseDone, ReverseFails
  <2>4. ~ReinstateStep /\ ~ReinstateDone /\ ~ReinstateFails
    BY DEF ReinstateStep, ReinstateDone, ReinstateFails
  <2> QED BY <2>1, <2>2, <2>3, <2>4 DEF UndoNext, ReverseTxns, ReverseTo, ReverseAll, CancelTo
<1>5. ~PushNext
  BY DEF PushNext, StartCreateChangeset, StartCreateChangesetFails, Upload,
         FinishCreateChangeset, StopCreateChangeset, MayPush, ClientReady
<1>6. ~DiscardLocalChanges
  BY DEF DiscardLocalChanges, ClientReady
<1>7. /\ DiscardStep => job.op = "Discard"
      /\ DiscardFails => job.op = "Discard"
      /\ DiscardReversed => job.op = "Discard"
      /\ DeleteAllTxns => job.op = "DeleteAll"
  BY DEF DiscardStep, DiscardFails, DiscardReversed, DeleteAllTxns
<1> QED BY <1>1, <1>2, <1>3, <1>4, <1>5, <1>6, <1>7 DEF Next, DiscardNext

LEMMA NoStepPullReverses ==
    ASSUME JobOK, [Next]_vars, job.op # "PullReverse"
    PROVE  job'.op # "PullReverse"
<1>1. CASE \E key \in Keys, value \in Values : Edit(key, value)
  BY <1>1 DEF Edit
<1>2. CASE EditDdl \/ SaveChanges \/ AbandonChanges \/ UNCHANGED vars
  BY <1>2 DEF EditDdl, SaveChanges, AbandonChanges
<1>3. CASE BeginMultiTxnOperation \/ EndMultiTxnOperation \/ RestartTxnSession
  BY <1>3 DEF BeginMultiTxnOperation, EndMultiTxnOperation, RestartTxnSession
<1>4. CASE \E first, cancel : ReverseRange(first, cancel)
  BY <1>4 DEF ReverseRange
<1>5. CASE CancelNothing
  BY <1>5 DEF CancelNothing
<1>6. CASE ReverseStep
  BY <1>6 DEF ReverseStep, JobOK
<1>7. CASE ReverseDone \/ ReverseFails
  BY <1>7 DEF ReverseDone, ReverseFails, Idle
<1>8. CASE ReinstateTxn
  BY <1>8 DEF ReinstateTxn
<1>9. CASE ReinstateStep
  BY <1>9 DEF ReinstateStep, JobOK
<1>10. CASE ReinstateDone \/ ReinstateFails
  BY <1>10 DEF ReinstateDone, ReinstateFails, Idle
<1>11. CASE PushNext
  BY <1>11 DEF PushNext, StartCreateChangeset, StartCreateChangesetFails, Upload,
         FinishCreateChangeset, StopCreateChangeset
<1>12. CASE DiscardLocalChanges
  BY <1>12 DEF DiscardLocalChanges, Idle
<1>13. CASE DiscardStep
  BY <1>13 DEF DiscardStep, JobOK
<1>14. CASE DiscardFails \/ DiscardReversed \/ DeleteAllTxns \/ Crash
  BY <1>14 DEF DiscardFails, DiscardReversed, DeleteAllTxns, Crash, Idle
<1>15. CASE UndoNext
  BY <1>4, <1>5, <1>6, <1>7, <1>8, <1>9, <1>10, <1>15
     DEF UndoNext, ReverseTxns, ReverseTo, ReverseAll, CancelTo
<1> QED BY <1>1, <1>2, <1>3, <1>11, <1>12, <1>13, <1>14, <1>15 DEF Next, DiscardNext

(* A step of TxnManager outside a pull stays outside, and keeps the ids.   *)
LEMMA LocalStep ==
    ASSUME Steady, PullInv, Local, job.op # "PullReverse",
           driver = "Out", UNCHANGED driver, [Next]_vars
    PROVE  StageInv'
<1> USE DEF PullInv
<1>1. TypeInv /\ StageInv
  BY DEF PullTypeInv
<1>2. Local'
  <2>1. conf \in Confs /\ disk.conf \in Confs
    BY <1>1 DEF TypeInv, FileOK, DiskOK
  <2> QED BY <2>1, TxnStepMoves DEF ConfMoves, Local, NoConf, Confs
<1>3. disk.conf.inProgress = NoTxn
  BY <1>1 DEF StageInv, FileStage, Local
<1>4. job'.op # "PullReverse"
  BY <1>1, NoStepPullReverses DEF TypeInv
<1>5. CASE job.op = "DeleteAll"
  <2>1. Crash \/ UNCHANGED vars \/ DeleteAllTxns
    BY <1>5, StepsOfCalls
  <2>2. conf.inProgress = NoTxn
    BY <1>1, <1>5 DEF StageInv, WorkStage, Local
  <2>3. conf' \in {conf, disk.conf} /\ disk'.conf \in {disk.conf, conf}
    BY <2>1 DEF Crash, Rollback, DeleteAllTxns, Persist
  <2>4. CASE Crash
    BY <1>1, <1>2, <1>3, <1>4, <2>2, <2>3, <2>4, CrashKeepsIdInv, LocalIsStaged
  <2>5. CASE UNCHANGED vars
    <3>1. job'.op = "DeleteAll"
      BY <1>5, <2>5
    <3> QED BY <1>2, <1>3, <1>4, <2>2, <2>3, <3>1, LocalIsStaged
  <2>6. CASE DeleteAllTxns
    <3>1. txns' = EmptyMap /\ reversed' = <<>> /\ Persist /\ job'.op = "None"
      BY <2>6 DEF DeleteAllTxns, Idle
    <3>2. Settled'
      BY <3>1, PersistKeepsLive, EmptyIsStacked DEF Settled, Freed, EmptyMap
    <3>3. IdInv'
      BY <3>1, <3>2, SettledIsInv
    <3> QED BY <1>2, <1>3, <1>4, <2>2, <2>3, <3>3, LocalIsStaged
  <2> QED BY <2>1, <2>4, <2>5, <2>6
<1>6. CASE job.op = "Discard"
  <2>1. IdInv'
    BY <1>1, <1>6, IdInvStep DEF StageInv, IdStage, Steady
  <2>2. Crash \/ UNCHANGED vars \/ DiscardStep \/ DiscardFails \/ DiscardReversed
    BY <1>6, StepsOfCalls
  <2>3. disk'.conf \in {disk.conf, NoConf}
    <3>1. DiscardReversed => disk'.conf = NoConf
      BY DEF DiscardReversed, Persist
    <3> QED BY <2>2, <3>1 DEF Crash, DiscardStep, DiscardFails
  <2>4. job'.op # "Discard" => conf' \in {disk.conf, NoConf}
    <3>1. CASE Crash
      BY <3>1 DEF Crash, Rollback
    <3>2. CASE UNCHANGED vars
      BY <1>6, <3>2
    <3>3. CASE DiscardStep
      BY <1>1, <1>6, <3>3 DEF DiscardStep, TypeInv, JobOK
    <3>4. CASE DiscardFails
      BY <3>4 DEF DiscardFails, Rollback
    <3>5. CASE DiscardReversed
      BY <3>5 DEF DiscardReversed
    <3> QED BY <2>2, <3>1, <3>2, <3>3, <3>4, <3>5
  <2> QED BY <1>2, <1>3, <1>4, <2>1, <2>3, <2>4, LocalIsStaged DEF NoConf
<1>7. CASE job.op \notin {"DeleteAll", "Discard"}
  <2>1. IdInv'
    BY <1>1, <1>7, IdInvStep DEF StageInv, IdStage, Steady
  <2>2. conf.inProgress = NoTxn
    BY <1>1, <1>7 DEF StageInv, WorkStage, Local
  <2>3. conf'.inProgress = NoTxn /\ disk'.conf.inProgress = NoTxn
    <3>1. conf \in Confs /\ disk.conf \in Confs
      BY <1>1 DEF TypeInv, FileOK, DiskOK
    <3> QED BY <1>3, <2>2, <3>1, TxnStepMoves DEF ConfMoves, NoConf, Confs
  <2> QED BY <1>2, <1>4, <2>1, <2>3, LocalIsStaged
<1> QED BY <1>5, <1>6, <1>7

-------------------------------------------------------------------------------
(***************************************************************************)
(* Falling back on the file: a crash, a failure, edits abandoned.          *)
(***************************************************************************)
LEMMA RollbackIsStaged ==
    ASSUME PullInv, Rollback, UNCHANGED disk, job'.op = "None", driver' = "Out",
           driver = "Out" \/ ~InMidRebase,
           disk.conf.stage = "None" => IdInv'
    PROVE  StageInv'
<1> USE DEF PullInv, StageInv
<1>1. conf' = disk.conf /\ txns' = disk.txns /\ tracked' = EmptyMap /\ ddl' = FALSE
  BY DEF Rollback
<1>2. ~HasChanges'
  BY <1>1 DEF HasChanges, HasDataChanges, EmptyMap
<1>3. disk.conf.stage \in Stages
  BY DEF PullTypeInv, TypeInv, DiskOK, Confs
<1>4. CASE disk.conf.stage = "None"
  BY <1>1, <1>4, LocalIsStaged DEF Local, FileStage
<1>5. CASE disk.conf.stage = "Merging"
  BY <1>1, <1>2, <1>5, MergedIsStaged DEF FileStage, IdStage
<1>6. CASE disk.conf.stage = "Rebasing"
  BY <1>1, <1>6, RebasingIsStaged DEF FileStage, IdStage
<1> QED BY <1>3, <1>4, <1>5, <1>6 DEF Stages

(* A crash or failure that finds room in the file from curr on.            *)
LEMMA RollbackFindsRoom ==
    ASSUME Freed(disk.txns, curr), reversed = <<>>, Rollback,
           UNCHANGED <<disk, curr, reversed>>, job'.op = "None"
    PROVE  IdInv'
<1>1. Settled'
  BY EmptyIsStacked DEF Settled, Rollback, LiveKept
<1> QED BY <1>1, SettledIsInv

LEMMA CrashIsStaged ==
    ASSUME PullInv, Crash, driver' = "Out", driver = "Out" \/ ~InMidRebase
    PROVE  StageInv'
<1>1. IdInv'
  BY CrashKeepsIdInv DEF PullInv, PullTypeInv
<1> QED BY <1>1, RollbackIsStaged DEF Crash, Idle

-------------------------------------------------------------------------------
(***************************************************************************)
(* Reversing the local Txns.                                               *)
(***************************************************************************)

(* Nothing that loops over Txns runs inside a pull but discarding, and the *)
(* rebase loop runs alone.                                                 *)
LEMMA CallsApart ==
    ASSUME PullInv
    PROVE  /\ conf.stage = "None" /\ job.op = "None" => Local
           /\ job.op # "None" => driver = "Out"
           /\ conf.stage # "None" => job.op \in {"None", "Discard"}
  BY DEF PullInv, StageInv, WorkStage, LoopStage, Local, PullTypeInv, TypeInv, FileOK,
         Confs, Stages

LEMMA PullReverseIsStaged ==
    ASSUME Steady, PullInv, driver = "Out", UNCHANGED driver,
           \/ PullMergeReverseLocalChanges
           \/ PullReverseStep \/ PullReverseDone \/ PullReverseFails
    PROVE  StageInv' /\ DdlRows'
<1> USE DEF PullInv
<1>0. /\ IsFiniteTable(txns) /\ IsFiniteTable(disk.txns) /\ curr \in TxnIds
      /\ conf \in Confs /\ disk.conf \in Confs /\ JobOK
  BY DEF PullTypeInv, TypeInv, FileOK, DiskOK, SessionOK
<1>1. CASE PullMergeReverseLocalChanges
  <2>1. ClientReady /\ job.op = "None" /\ conf.stage = "None" /\ ~HasChanges
    BY <1>1 DEF PullMergeReverseLocalChanges, ClientReady, InProgress
  <2>2. Local /\ IdInv
    BY <2>1, CallsApart DEF StageInv, IdStage
  <2>3. Settled
    BY <2>1, <2>2, ReadyIsSettled DEF Steady
  <2>4. /\ txns' = WithoutReversed(txns) /\ reversed' = <<>>
        /\ job'.op = "PullReverse" /\ job'.at = curr
        /\ UNCHANGED <<conf, disk, curr, editVars>>
    BY <1>1 DEF PullMergeReverseLocalChanges, Idle
  <2>5. AllBefore(txns', curr) /\ Freed(txns', curr)
    BY <1>0, <2>3, <2>4, WithoutReversedIsBefore, AllBeforeIsFreed DEF Settled
  <2>6. LiveKept(disk.txns, txns')
    BY <1>0, <2>3, <2>4, LiveKeptWithoutReversed DEF Settled
  <2>7. Local' /\ ~HasChanges'
    BY <2>1, <2>2, <2>4 DEF Local, HasChanges, HasDataChanges
  <2>8. conf.inProgress = NoTxn /\ disk.conf.inProgress = NoTxn
    BY <2>1, <2>2 DEF StageInv, WorkStage, FileStage, Local
  <2>9. FileStage' /\ WorkStage' /\ LoopStage'
    BY <2>4, <2>7, <2>8 DEF FileStage, WorkStage, LoopStage, Local
  <2>10. IdStage'
    BY <1>0, <2>3, <2>4, <2>5, <2>6, <2>7 DEF IdStage, Local, Settled, LiveKept
  <2>11. DdlRows'
    BY <1>0, <2>4, WithoutReversedIsDdlEmpty DEF DdlRows
  <2> QED BY <2>9, <2>10, <2>11 DEF StageInv
<1>2. ASSUME job.op = "PullReverse"
      PROVE  /\ Local /\ ~HasChanges
             /\ AllBefore(txns, curr) /\ Freed(txns, job.at) /\ job.at \in TxnIds
             /\ Freed(disk.txns, curr) /\ reversed = <<>>
             /\ \A i \in DOMAIN disk.txns : ~disk.txns[i].deleted => i \in DOMAIN txns
             /\ conf.inProgress = NoTxn /\ disk.conf.inProgress = NoTxn
  <2>1. Local
    BY <1>2 DEF StageInv, IdStage
  <2> QED BY <1>2, <2>1 DEF StageInv, IdStage, WorkStage, FileStage, Local
<1>3. CASE PullReverseStep
  <2>1. PICK id \in IdsBefore(txns, job.at) :
            /\ IsPrevious(txns, job.at, id)
            /\ txns' = SetDeleted(txns, id, TRUE)
            /\ job' = [job EXCEPT !.at = id]
    BY <1>3 DEF PullReverseStep
  <2>2. job.op = "PullReverse" /\ UNCHANGED <<conf, disk, curr, reversed, editVars>>
    BY <1>3 DEF PullReverseStep
  <2>3. job'.op = "PullReverse" /\ job'.at = id /\ id \in DOMAIN txns
    BY <1>0, <2>1, <2>2 DEF JobOK, IdsBefore
  <2>4. Freed(txns', id) /\ id \in TxnIds
    BY <1>0, <1>2, <2>1, <2>2, ReverseStepFrees
  <2>5. DOMAIN txns' = DOMAIN txns
    BY <1>0, <2>1, <2>3, SetDeletedIsTable
  <2>6. AllBefore(txns', curr)
    BY <1>2, <2>2, <2>5 DEF AllBefore
  <2>7. Local' /\ ~HasChanges'
    BY <1>2, <2>2 DEF Local, HasChanges, HasDataChanges
  <2>8. FileStage' /\ WorkStage' /\ LoopStage'
    BY <1>2, <2>2, <2>3, <2>7 DEF FileStage, WorkStage, LoopStage, Local
  <2>9. IdStage'
    BY <1>2, <2>2, <2>3, <2>4, <2>5, <2>6, <2>7 DEF IdStage, Local
  <2>10. DdlRows'
    BY <1>0, <2>1, <2>2, <2>3, SetDeletedIsDdlEmpty DEF DdlRows
  <2> QED BY <2>8, <2>9, <2>10 DEF StageInv
<1>4. CASE PullReverseDone
  <2>1. /\ job.op = "PullReverse" /\ IdsBefore(txns, job.at) = {}
        /\ conf' = [conf EXCEPT !.stage = "Merging", !.end = curr]
        /\ job'.op = "None"
        /\ UNCHANGED <<txns, disk, curr, reversed, editVars>>
    BY <1>4 DEF PullReverseDone, Idle
  <2>2. AllReversed(txns')
    BY <1>2, <2>1 DEF AllReversed, Freed, IdsBefore
  <2>3. conf'.stage = "Merging" /\ conf'.end = curr /\ conf'.inProgress = NoTxn
    BY <1>0, <1>2, <2>1 DEF Confs
  <2>4. ~HasChanges'
    BY <1>2, <2>1 DEF HasChanges, HasDataChanges
  <2>5. AllBefore(txns', conf'.end)
    BY <1>2, <2>1, <2>3
  <2>6. StageInv'
    BY <1>2, <2>1, <2>2, <2>3, <2>4, <2>5, MergingIsStaged DEF Local
  <2> QED BY <2>1, <2>6, KeptDdlRows
<1>5. CASE PullReverseFails
  <2>1. Rollback /\ job.op = "PullReverse" /\ job'.op = "None" /\ UNCHANGED <<disk, curr, reversed>>
    BY <1>5 DEF PullReverseFails, Idle
  <2>2. IdInv'
    BY <1>2, <2>1, RollbackFindsRoom
  <2> QED BY <2>1, <2>2, RollbackIsStaged, KeptDdlRows
<1> QED BY <1>1, <1>3, <1>4, <1>5

-------------------------------------------------------------------------------
(***************************************************************************)
(* Discarding the local Txns in the middle of a pull.                      *)
(***************************************************************************)

(* What moves none of the state a pull is about.                           *)
LEMMA UnchangedIsStaged ==
    ASSUME StageInv, UNCHANGED <<txns, conf, disk, curr, reversed, editVars, job, driver>>
    PROVE  StageInv'
<1>1. FileStage' /\ WorkStage'
  BY DEF StageInv, FileStage, WorkStage, InMidRebase, HasChanges, HasDataChanges
<1>2. LoopStage'
  BY DEF StageInv, LoopStage, HasChanges, HasDataChanges, RebasedRow
<1>3. IdStage'
  <2>1. IdInv => IdInv'
    BY UnchangedKeepsIdInv
  <2>2. HasChanges' = HasChanges /\ Local' = Local
    BY DEF HasChanges, HasDataChanges, Local
  <2> QED BY <2>1, <2>2 DEF StageInv, IdStage
<1> QED BY <1>1, <1>2, <1>3 DEF StageInv

(* The rows once one of them is marked reversed.                           *)
LEMMA RowReversed ==
    ASSUME NEW table, IsFiniteTable(table), NEW id \in DOMAIN table
    PROVE  /\ DOMAIN SetDeleted(table, id, TRUE) = DOMAIN table
           /\ SetDeleted(table, id, TRUE)[id].deleted
           /\ \A i \in DOMAIN table : i # id => SetDeleted(table, id, TRUE)[i] = table[i]
<1>1. table = [i \in DOMAIN table |-> table[i]] /\ table[id] \in Rows
  BY DEF IsFiniteTable, IsTable
<1>2. SetDeleted(table, id, TRUE)[id] = [table[id] EXCEPT !.deleted = TRUE]
  BY <1>1 DEF SetDeleted
<1> QED BY <1>1, <1>2 DEF SetDeleted, Rows

(* The rows once one of them is marked live.                                *)
LEMMA RowLive ==
    ASSUME NEW table, IsFiniteTable(table), NEW id \in DOMAIN table
    PROVE  /\ DOMAIN SetDeleted(table, id, FALSE) = DOMAIN table
           /\ ~SetDeleted(table, id, FALSE)[id].deleted
           /\ \A i \in DOMAIN table : i # id => SetDeleted(table, id, FALSE)[i] = table[i]
<1>1. table = [i \in DOMAIN table |-> table[i]] /\ table[id] \in Rows
  BY DEF IsFiniteTable, IsTable
<1>2. SetDeleted(table, id, FALSE)[id] = [table[id] EXCEPT !.deleted = FALSE]
  BY <1>1 DEF SetDeleted
<1> QED BY <1>1, <1>2 DEF SetDeleted, Rows

LEMMA DiscardIsStaged ==
    ASSUME PullInv, DiscardLocalChanges, ~Local, driver = "Out", UNCHANGED driver
    PROVE  StageInv'
<1> USE DEF PullInv
<1>1. /\ txns' = WithoutReversed(disk.txns) /\ reversed' = <<>>
      /\ conf' = IF disk.conf.stage = "Rebasing"
                 THEN [disk.conf EXCEPT !.stage = "None"] ELSE disk.conf
      /\ tracked' = EmptyMap /\ ddl' = FALSE
      /\ job.op = "None" /\ job'.op = "Discard" /\ UNCHANGED <<disk, curr>>
  BY DEF DiscardLocalChanges, ClientReady, Idle
<1>2. conf.stage \in {"Merging", "Rebasing"}
  <2>1. conf.stage \in Stages
    BY DEF PullTypeInv, TypeInv, FileOK, Confs
  <2>2. conf.stage # "None"
    BY <1>1, CallsApart
  <2> QED BY <2>1, <2>2 DEF Stages
<1>3. disk.conf \in Confs /\ IsFiniteTable(disk.txns)
  BY DEF PullTypeInv, TypeInv, DiskOK
<1>4. CASE disk.conf.stage = "None"
  <2>1. conf.stage = "Merging"
    BY <1>2, <1>4 DEF StageInv, WorkStage
  <2>2. Freed(disk.txns, curr)
    BY <1>4, <2>1 DEF StageInv, IdStage
  <2>3. Freed(txns', curr)
    BY <1>1, <1>3, <2>2, WithoutReversedIsBefore, AllBeforeIsFreed
  <2>4. IdInv'
    <3>1. ReverseFreed' /\ ReinstateFreed' /\ WorkFreed' /\ FileKept'
      BY <1>1, <2>3 DEF ReverseFreed, ReinstateFreed, WorkFreed, FileKept
    <3>2. FileFreed' /\ Stacked(reversed', curr')
      BY <1>1, <2>2, EmptyIsStacked DEF FileFreed
    <3> QED BY <3>1, <3>2 DEF IdInv
  <2>5. Local' /\ disk'.conf.inProgress = NoTxn
    BY <1>1, <1>4 DEF Local, StageInv, FileStage
  <2> QED BY <1>1, <2>4, <2>5, LocalIsStaged
<1>5. CASE disk.conf.stage = "Merging"
  <2>1. AllReversed(disk.txns) /\ disk.conf.inProgress = NoTxn /\ conf' = disk.conf
    BY <1>1, <1>5 DEF StageInv, FileStage
  <2>2. AllReversed(txns')
    <3>1. \A i \in DOMAIN txns' : i \in DOMAIN disk.txns /\ ~disk.txns[i].deleted
      BY <1>1 DEF WithoutReversed, Keep
    <3> QED BY <2>1, <3>1 DEF AllReversed
  <2>3. ~HasChanges'
    BY <1>1 DEF HasChanges, HasDataChanges, EmptyMap
  <2>4. FileStage' /\ WorkStage' /\ LoopStage'
    BY <1>1, <1>5, <2>1, <2>2, <2>3 DEF StageInv, FileStage, WorkStage, LoopStage
  <2>5. IdStage'
    BY <1>1, <1>5, <2>1 DEF StageInv, IdStage, Local
  <2> QED BY <2>4, <2>5 DEF StageInv
<1>6. CASE disk.conf.stage = "Rebasing"
  <2>1. conf'.stage = "None"
    BY <1>1, <1>3, <1>6 DEF Confs
  <2>2. FileStage' /\ WorkStage' /\ LoopStage'
    BY <1>1, <1>6, <2>1 DEF StageInv, FileStage, WorkStage, LoopStage
  <2>3. IdStage'
    BY <1>1, <1>6, <2>1 DEF StageInv, IdStage, Local
  <2> QED BY <2>2, <2>3 DEF StageInv
<1> QED BY <1>3, <1>4, <1>5, <1>6 DEF Confs, Stages

LEMMA DiscardingIsStaged ==
    ASSUME PullInv, job.op = "Discard", ~Local, driver = "Out", UNCHANGED driver, [Next]_vars
    PROVE  StageInv'
<1> USE DEF PullInv
<1>1. CASE Crash
  BY <1>1, CrashIsStaged
<1>2. CASE UNCHANGED vars
  BY <1>2, UnchangedIsStaged
<1>3. CASE DiscardStep
  <2>1. PICK id \in IdsBefore(txns, job.at) :
            txns' = SetDeleted(txns, id, TRUE) /\ job' = [job EXCEPT !.at = id]
    BY <1>3 DEF DiscardStep
  <2>2. UNCHANGED <<conf, disk, curr, reversed, editVars>>
    BY <1>3 DEF DiscardStep
  <2>3. job'.op = "Discard" /\ id \in DOMAIN txns
    BY <2>1 DEF PullTypeInv, TypeInv, JobOK, IdsBefore
  <2>4. IsFiniteTable(txns)
    BY DEF PullTypeInv, TypeInv, FileOK
  <2>5. /\ DOMAIN txns' = DOMAIN txns
        /\ \A i \in DOMAIN txns : i # id => txns'[i] = txns[i]
        /\ txns'[id].deleted
    <3>1. /\ DOMAIN SetDeleted(txns, id, TRUE) = DOMAIN txns
          /\ \A i \in DOMAIN txns : i # id => SetDeleted(txns, id, TRUE)[i] = txns[i]
          /\ SetDeleted(txns, id, TRUE)[id].deleted
      BY <2>3, <2>4, RowReversed
    <3> QED BY <2>1, <3>1
  <2>6. AllReversed(txns) => AllReversed(txns')
    BY <2>5 DEF AllReversed
  <2>7. HasChanges' = HasChanges
    BY <2>2 DEF HasChanges, HasDataChanges
  <2>8. conf.stage # "Rebasing"
    BY DEF StageInv, WorkStage
  <2>9. FileStage'
    BY <2>2 DEF StageInv, FileStage
  <2>10. WorkStage'
    BY <2>2, <2>3, <2>6, <2>7, <2>8 DEF StageInv, WorkStage
  <2>11. LoopStage'
    BY <2>2, <2>8 DEF LoopStage
  <2>12. IdStage'
    BY <2>2, <2>3, <2>5 DEF StageInv, IdStage, Local
  <2> QED BY <2>9, <2>10, <2>11, <2>12 DEF StageInv
<1>4. CASE DiscardFails
  <2>1. Rollback /\ job'.op = "None" /\ UNCHANGED <<disk, curr, reversed>>
    BY <1>4 DEF DiscardFails, Idle
  <2>2. disk.conf.stage = "None" => IdInv'
    <3>1. SUFFICES ASSUME disk.conf.stage = "None" PROVE IdInv'
      OBVIOUS
    <3>2. conf.stage = "Merging"
      BY <3>1 DEF StageInv, WorkStage, Local, PullTypeInv, TypeInv, FileOK, Confs, Stages
    <3> QED BY <2>1, <3>1, <3>2, RollbackFindsRoom DEF StageInv, IdStage
  <2> QED BY <2>1, <2>2, RollbackIsStaged
<1>5. CASE DiscardReversed
  <2>1. conf' = NoConf /\ disk'.conf = NoConf /\ job'.op = "DeleteAll"
    BY <1>5 DEF DiscardReversed, Persist
  <2> QED BY <2>1, LocalIsStaged DEF Local, NoConf
<1> QED BY <1>1, <1>2, <1>3, <1>4, <1>5, StepsOfCalls

-------------------------------------------------------------------------------
(***************************************************************************)
(* Calls of the application in the middle of a pull.                       *)
(***************************************************************************)

(* A session that has nothing to save saves nothing.                       *)
LEMMA NoChangesNothingToSave ==
    ASSUME ~HasChanges
    PROVE  NothingToSave
<1>1. DOMAIN tracked = {} /\ ~ddl
  BY DEF HasChanges, HasDataChanges
<1>2. \A k \in Keys : BeforeEdits[k] = db[k]
  BY <1>1 DEF BeforeEdits, Original
<1>3. DOMAIN DirectChange = {}
  BY <1>2 DEF DirectChange, Difference
<1> QED BY <1>1, <1>3 DEF NothingToSave, HasDataChanges

LEMMA StepsInPull ==
    ASSUME Steady, [Next]_vars, conf.stage # "None", job.op = "None"
    PROVE  \/ conf.stage # "Merging" /\ (EditNext \/ EditDdl)
           \/ SaveChanges \/ AbandonChanges \/ RestartTxnSession
           \/ BeginMultiTxnOperation \/ EndMultiTxnOperation
           \/ Upload \/ StopCreateChangeset
           \/ DiscardLocalChanges \/ Crash \/ UNCHANGED vars
<1>1. EditNext \/ EditDdl => conf.stage # "Merging"
  BY DEF EditNext, Edit, EditDdl, MayEdit, Steady
<1>2. ~UndoNext
  <2>1. ~\E first, cancel : ReverseRange(first, cancel)
    BY DEF ReverseRange, InProgress
  <2>2. ~CancelNothing /\ ~ReinstateTxn
    BY DEF CancelNothing, ReinstateTxn, InProgress
  <2>3. ~ReverseStep /\ ~ReverseDone /\ ~ReverseFails
    BY DEF ReverseStep, ReverseDone, ReverseFails
  <2>4. ~ReinstateStep /\ ~ReinstateDone /\ ~ReinstateFails
    BY DEF ReinstateStep, ReinstateDone, ReinstateFails
  <2> QED BY <2>1, <2>2, <2>3, <2>4 DEF UndoNext, ReverseTxns, ReverseTo, ReverseAll, CancelTo
<1>3. ~StartCreateChangeset /\ ~StartCreateChangesetFails /\ ~FinishCreateChangeset
  BY DEF StartCreateChangeset, StartCreateChangesetFails, FinishCreateChangeset,
         MayPush, InProgress, Steady
<1>4. ~DiscardStep /\ ~DiscardFails /\ ~DiscardReversed /\ ~DeleteAllTxns
  BY DEF DiscardStep, DiscardFails, DiscardReversed, DeleteAllTxns
<1> QED BY <1>1, <1>2, <1>3, <1>4 DEF Next, EditNext, PushNext, DiscardNext

(* While changesets are merged.                                            *)
LEMMA MergingStep ==
    ASSUME Steady, PullInv, conf.stage = "Merging", job.op = "None",
           driver = "Out", UNCHANGED driver, [Next]_vars
    PROVE  StageInv'
<1> USE DEF PullInv
<1>1. /\ conf.inProgress = NoTxn /\ ~HasChanges
      /\ AllReversed(txns) /\ AllBefore(txns, conf.end)
  BY DEF StageInv, WorkStage, IdStage
<1>2. /\ disk.conf.stage \in {"None", "Merging"} /\ disk.conf.inProgress = NoTxn
      /\ disk.conf.stage = "Merging" => txns = disk.txns
      /\ disk.conf.stage = "None" =>
            /\ Freed(disk.txns, curr) /\ reversed = <<>>
            /\ \A i \in DOMAIN disk.txns : ~disk.txns[i].deleted => i \in DOMAIN txns
  <2>1. disk.conf.stage \in Stages
    BY DEF PullTypeInv, TypeInv, DiskOK, Confs
  <2> QED BY <2>1 DEF StageInv, WorkStage, FileStage, IdStage, Stages
<1>3. CASE SaveChanges
  <2>1. SaveUntracked(txns, parent, FALSE) /\ UNCHANGED job
    <3>1. NothingToSave /\ ~Rebasing
      BY <1>1, NoChangesNothingToSave DEF Rebasing
    <3> QED BY <1>3, <3>1 DEF SaveChanges, SaveTracked, SaveFails, SaveRefused
  <2>2. /\ txns' = txns /\ conf' = conf /\ tracked' = EmptyMap /\ ddl' = ddl
        /\ disk'.txns = txns' /\ disk'.conf = conf'
    BY <2>1 DEF SaveUntracked, Persist
  <2>3. ~HasChanges'
    BY <1>1, <2>2 DEF HasChanges, HasDataChanges, EmptyMap
  <2> QED BY <1>1, <2>1, <2>2, <2>3, MergedIsStaged
<1>4. CASE AbandonChanges
  <2>1. Rollback /\ UNCHANGED <<disk, curr, reversed, job>>
    BY <1>4 DEF AbandonChanges
  <2>2. disk.conf.stage = "None" => IdInv'
    BY <1>2, <2>1, RollbackFindsRoom
  <2> QED BY <2>1, <2>2, RollbackIsStaged
<1>5. CASE RestartTxnSession
  <2>1. /\ curr' \in NewSessions(txns) /\ reversed' = <<>>
        /\ UNCHANGED <<txns, conf, disk, editVars, job>>
    BY <1>5 DEF RestartTxnSession
  <2>2. AllBefore(txns, curr')
    BY <2>1, NewSessionIsPast DEF PullTypeInv, TypeInv, FileOK
  <2>3. disk.conf.stage = "None" => Freed(disk.txns, curr')
    BY <1>2, <2>2 DEF Freed, AllBefore
  <2>4. FileStage' /\ WorkStage' /\ LoopStage'
    BY <2>1 DEF StageInv, FileStage, WorkStage, LoopStage, HasChanges, HasDataChanges
  <2>5. IdStage'
    BY <1>2, <2>1, <2>3 DEF StageInv, IdStage, Local
  <2> QED BY <2>4, <2>5 DEF StageInv
<1>6. CASE DiscardLocalChanges
  BY <1>6, DiscardIsStaged DEF Local
<1>7. CASE Crash
  BY <1>7, CrashIsStaged
<1>8. CASE BeginMultiTxnOperation \/ EndMultiTxnOperation \/ Upload \/ StopCreateChangeset
           \/ UNCHANGED vars
  BY <1>8, UnchangedIsStaged
     DEF BeginMultiTxnOperation, EndMultiTxnOperation, Upload, StopCreateChangeset
<1> QED BY <1>3, <1>4, <1>5, <1>6, <1>7, <1>8, StepsInPull

(* Between two attempts at the rebase loop.                                *)
LEMMA RebasingStep ==
    ASSUME Steady, PullInv, conf.stage = "Rebasing",
           driver = "Out", UNCHANGED driver, [Next]_vars
    PROVE  StageInv'
<1> USE DEF PullInv
<1>1. /\ job.op = "None" /\ disk.conf = conf /\ disk.txns = txns
      /\ RebasedTo(txns, conf.inProgress) /\ AllBefore(txns, conf.end)
  BY DEF StageInv, WorkStage, LoopStage, FileStage, IdStage
<1>2. CASE EditNext \/ EditDdl \/ BeginMultiTxnOperation \/ EndMultiTxnOperation
           \/ Upload \/ StopCreateChangeset \/ RestartTxnSession \/ UNCHANGED vars
  <2>1. UNCHANGED <<txns, conf, disk, job>>
    BY <1>2 DEF EditNext, Edit, EditDdl, BeginMultiTxnOperation, EndMultiTxnOperation,
       Upload, StopCreateChangeset, RestartTxnSession
  <2> QED BY <1>1, <2>1, RebasingIsStaged
<1>3. CASE SaveChanges
  <2>1. \/ SaveUntracked(txns, parent, FALSE) /\ UNCHANGED job
        \/ SaveRefused /\ UNCHANGED job
    BY <1>3 DEF SaveChanges, SaveTracked, SaveFails, Rebasing
  <2>2. txns' = txns /\ conf' = conf /\ disk'.txns = txns' /\ disk'.conf = conf'
    <3>1. CASE SaveUntracked(txns, parent, FALSE)
      BY <3>1 DEF SaveUntracked, Persist
    <3>2. CASE SaveRefused
      BY <1>1, <3>2 DEF SaveRefused
    <3> QED BY <2>1, <3>1, <3>2
  <2> QED BY <1>1, <2>1, <2>2, RebasingIsStaged
<1>4. CASE AbandonChanges
  BY <1>1, <1>4, RollbackIsStaged DEF AbandonChanges
<1>5. CASE DiscardLocalChanges
  BY <1>5, DiscardIsStaged DEF Local
<1>6. CASE Crash
  BY <1>6, CrashIsStaged
<1> QED BY <1>1, <1>2, <1>3, <1>4, <1>5, <1>6, StepsInPull

(* Applying or reversing a changeset, in a pull or outside one.            *)
LEMMA AppliedIsStaged ==
    ASSUME Steady, PullInv, MayMerge, driver = "Out", UNCHANGED driver,
           UNCHANGED <<txns, conf, curr, reversed, editVars, job>>,
           Persist \/ (~InProgress /\ UNCHANGED disk)
    PROVE  StageInv'
<1> USE DEF PullInv
<1>1. job.op = "None" /\ ~HasChanges /\ conf.stage \in {"None", "Merging"}
  BY DEF MayMerge, ClientReady, Rebasing, PullTypeInv, TypeInv, FileOK, Confs, Stages
<1>2. CASE UNCHANGED disk
  BY <1>2, UnchangedIsStaged
<1>3. CASE conf.stage = "None" /\ Persist
  <2>1. Local /\ conf.inProgress = NoTxn /\ IdInv
    BY <1>1, <1>3, CallsApart DEF StageInv, WorkStage, IdStage
  <2>2. Settled
    BY <2>1, ReadyIsSettled DEF Steady, MayMerge
  <2>3. disk'.txns = txns /\ disk'.conf = conf /\ LiveKept(disk'.txns, txns')
    BY <1>3, PersistKeepsLive DEF Persist
  <2>4. Settled'
    BY <2>2, <2>3 DEF Settled
  <2>5. IdInv'
    BY <1>1, <2>4, SettledIsInv
  <2>6. Local' /\ disk'.conf.inProgress = NoTxn
    BY <1>3, <2>1, <2>3 DEF Local
  <2> QED BY <1>1, <2>1, <2>5, <2>6, LocalIsStaged
<1>4. CASE conf.stage = "Merging" /\ Persist
  <2>1. /\ conf.inProgress = NoTxn /\ AllReversed(txns) /\ AllBefore(txns, conf.end)
        /\ disk'.conf = conf /\ disk'.txns = txns /\ ~HasChanges'
    BY <1>1, <1>4 DEF StageInv, WorkStage, IdStage, Persist, HasChanges, HasDataChanges
  <2> QED BY <1>1, <1>4, <2>1, MergedIsStaged
<1> QED BY <1>1, <1>2, <1>3, <1>4

(* Merging, reversing changesets, and what another briefcase does.         *)
LEMMA MergeIsStaged ==
    ASSUME Steady, PullInv, UNCHANGED driver, driver = "Out",
           \/ \E fastForward \in BOOLEAN : MergeChangeset(fastForward)
           \/ MergeFails \/ ReverseChangeset \/ OtherPushes
    PROVE  StageInv' /\ DdlRows'
<1> USE DEF PullInv
<1>1. CASE \E fastForward \in BOOLEAN : MergeChangeset(fastForward)
  <2>1. /\ MayMerge /\ UNCHANGED <<txns, conf, curr, reversed, editVars, job>>
        /\ Persist \/ (~InProgress /\ UNCHANGED disk)
    BY <1>1 DEF MergeChangeset, Apply
  <2>2. StageInv'
    BY <2>1, AppliedIsStaged
  <2> QED BY <2>1, <2>2, KeptDdlRows
<1>2. CASE ReverseChangeset
  <2>1. MayMerge /\ Persist /\ UNCHANGED <<txns, conf, curr, reversed, editVars, job>>
    BY <1>2 DEF ReverseChangeset, Apply
  <2>2. StageInv'
    BY <2>1, AppliedIsStaged
  <2> QED BY <2>1, <2>2, KeptDdlRows
<1>3. CASE OtherPushes
  <2>1. UNCHANGED <<txns, conf, disk, curr, reversed, editVars, job>>
    BY <1>3 DEF OtherPushes
  <2> QED BY <2>1, UnchangedIsStaged, KeptDdlRows
<1>4. CASE MergeFails
  <2>1. /\ job.op = "None" /\ ~Rebasing /\ Rollback
        /\ UNCHANGED <<disk, curr, reversed, job>>
    BY <1>4 DEF MergeFails, MayMerge, ClientReady
  <2>2. disk.conf.stage = "None" => IdInv'
    <3>1. SUFFICES ASSUME disk.conf.stage = "None" PROVE IdInv'
      OBVIOUS
    <3>2. CASE conf.stage = "None"
      <4>1. IdInv
        BY <2>1, <3>2, CallsApart DEF StageInv, IdStage
      <4> QED BY <2>1, <4>1, RollbackSettles, SettledIsInv
    <3>3. CASE conf.stage = "Merging"
      BY <2>1, <3>1, <3>3, RollbackFindsRoom DEF StageInv, IdStage
    <3> QED BY <2>1, <3>2, <3>3 DEF Rebasing, PullTypeInv, TypeInv, FileOK, Confs, Stages
  <2>3. StageInv'
    BY <2>1, <2>2, RollbackIsStaged
  <2> QED BY <2>1, <2>3, KeptDdlRows
<1> QED BY <1>1, <1>2, <1>3, <1>4

-------------------------------------------------------------------------------
(***************************************************************************)
(* The rebase loop.                                                        *)
(***************************************************************************)
Ids == TxnIds \cup {NoTxn}

(* What is after an id and before none of those after it is the next.      *)
LEMMA IdsInOrder ==
    /\ \A a, b \in Ids : Before(a, b) => ~Before(b, a)
    /\ \A a, b, c \in Ids : Before(a, b) /\ ~Before(c, b) => Before(a, c)
    /\ \A a, b \in Ids : ~Before(a, b) /\ ~Before(b, a) => a = b
    /\ \A a \in TxnIds : Before(NoTxn, a)
  BY DEF Ids, TxnIds, NoTxn, Before

LEMMA NextSplits ==
    ASSUME NEW table, IsFiniteTable(table), NEW from \in Ids, RebasedTo(table, from),
           NEW id, IsNext(table, from, id)
    PROVE  id \in DOMAIN table /\ table[id].deleted /\ RebasedBelow(table, id)
<1>1. DOMAIN table \subseteq Ids
  BY DEF IsFiniteTable, IsTable, Ids
<1>2. /\ id \in DOMAIN table /\ Before(from, id)
      /\ \A i \in DOMAIN table : Before(from, i) => ~Before(i, id)
  BY DEF IsNext, IsFirst, IdsAfter
<1>3. ASSUME NEW i \in DOMAIN table PROVE Before(from, i) <=> ~Before(i, id)
  BY <1>1, <1>2, IdsInOrder
<1> QED BY <1>2, <1>3 DEF RebasedTo, RebasedBelow

(* Nothing is rebased yet when no row is live, all is when none is after.  *)
LEMMA NoneRebased ==
    ASSUME NEW table, IsFiniteTable(table), AllReversed(table)
    PROVE  RebasedTo(table, NoTxn)
<1>1. DOMAIN table \subseteq TxnIds
  BY DEF IsFiniteTable, IsTable
<1> QED BY <1>1, IdsInOrder DEF AllReversed, RebasedTo

(* A loop that may fail has rebased nothing.                               *)
LEMMA MayFailIsEarly ==
    ASSUME Steady, MayFail
    PROVE  AllReversed(txns)
  BY DEF Steady, MayFail, HasPendingTxns, AllReversed

LEMMA RebaseBeginIsStaged ==
    ASSUME Steady, PullInv, PullMergeRebaseBegin
    PROVE  StageInv' /\ DdlRows'
<1> USE DEF PullInv
<1>1. /\ job.op = "None" /\ driver = "Out" /\ driver' = "Next" /\ conf.stage # "None"
      /\ HasChanges => MayFail
      /\ conf' = [conf EXCEPT !.stage = "Rebasing"]
      /\ UNCHANGED <<txns, curr, reversed, editVars, job>>
  BY DEF PullMergeRebaseBegin, ClientReady, InProgress
<1>2. IF Rebasing \/ HasDataChanges THEN disk' = disk
      ELSE disk'.txns = txns /\ disk'.conf = conf'
  BY DEF PullMergeRebaseBegin
<1>3. conf \in Confs /\ disk.conf \in Confs /\ IsFiniteTable(txns) /\ IsFiniteTable(disk.txns)
  BY DEF PullTypeInv, TypeInv, FileOK, DiskOK
<1>4. conf'.stage = "Rebasing" /\ conf'.inProgress = conf.inProgress /\ conf'.end = conf.end
  BY <1>1, <1>3 DEF Confs
<1>5. AllBefore(txns, conf.end)
  BY <1>1 DEF StageInv, IdStage
<1>6. /\ RebasedTo(txns, conf.inProgress) /\ disk'.conf = conf' /\ disk'.txns = txns
      /\ HasChanges => AllReversed(txns)
  <2>1. CASE conf.stage = "Rebasing"
    <3>1. disk.conf = conf /\ disk.txns = txns /\ RebasedTo(txns, conf.inProgress)
      BY <1>1, <2>1 DEF StageInv, WorkStage, LoopStage, FileStage
    <3>2. conf' = conf
      BY <1>1, <1>3, <2>1 DEF Confs
    <3>3. disk' = disk
      BY <1>2, <2>1 DEF Rebasing
    <3>4. HasChanges => AllReversed(txns)
      BY <1>1, MayFailIsEarly
    <3> QED BY <3>1, <3>2, <3>3, <3>4
  <2>2. CASE conf.stage = "Merging"
    <3>1. AllReversed(txns) /\ conf.inProgress = NoTxn /\ ~HasChanges
      BY <2>2 DEF StageInv, WorkStage
    <3>2. RebasedTo(txns, conf.inProgress)
      BY <1>3, <3>1, NoneRebased
    <3>3. disk'.conf = conf' /\ disk'.txns = txns
      BY <1>2, <2>2, <3>1 DEF Rebasing, HasChanges
    <3> QED BY <3>1, <3>2, <3>3
  <2> QED BY <1>1, <1>3, <2>1, <2>2 DEF Confs, Stages
<1>7. HasChanges' = HasChanges
  BY <1>1 DEF HasChanges, HasDataChanges
<1>8. FileStage'
  BY <1>1, <1>4, <1>6 DEF FileStage
<1>9. WorkStage'
  BY <1>1, <1>4, <1>6 DEF WorkStage
<1>10. LoopStage'
  BY <1>1, <1>4, <1>6, <1>7 DEF LoopStage
<1>11. IdStage'
  BY <1>1, <1>4, <1>5, <1>6 DEF IdStage, Local
<1>12. DdlRows'
  BY <1>1, <1>6 DEF DdlRows
<1> QED BY <1>8, <1>9, <1>10, <1>11, <1>12 DEF StageInv

(* What holds inside the loop.                                             *)
LEMMA InsideLoop ==
    ASSUME PullInv, driver # "Out"
    PROVE  /\ conf.stage = "Rebasing" /\ job.op = "None" /\ disk.conf = conf
           /\ DOMAIN disk.txns = DOMAIN txns
           /\ AllBefore(txns, conf.end) /\ AllBefore(disk.txns, conf.end)
           /\ IsFiniteTable(txns) /\ IsFiniteTable(disk.txns) /\ conf \in Confs
           /\ conf.inProgress \in Ids
  BY DEF PullInv, StageInv, WorkStage, LoopStage, IdStage, PullTypeInv, TypeInv,
         FileOK, DiskOK, Confs, Ids

LEMMA RebaseNextIsStaged ==
    ASSUME PullInv, PullMergeRebaseNext
    PROVE  StageInv' /\ DdlRows'
<1> USE DEF PullInv
<1>1. driver = "Next" /\ ~HasChanges /\ Persist /\ UNCHANGED <<txns, curr, reversed, editVars, job>>
  BY DEF PullMergeRebaseNext
<1>2. PICK id \in DOMAIN txns \cup {NoTxn} :
          /\ NextToRebase(id) /\ conf' = [conf EXCEPT !.inProgress = id]
          /\ driver' = IF id = NoTxn THEN "End" ELSE "Reinstate"
  BY DEF PullMergeRebaseNext
<1>3. /\ conf.stage = "Rebasing" /\ job.op = "None"
      /\ AllBefore(txns, conf.end) /\ IsFiniteTable(txns) /\ conf \in Confs
      /\ conf.inProgress \in Ids
  BY <1>1, InsideLoop
<1>4. conf'.stage = "Rebasing" /\ conf'.inProgress = id /\ conf'.end = conf.end
  BY <1>2, <1>3 DEF Confs
<1>5. disk'.conf = conf' /\ disk'.txns = txns
  BY <1>1 DEF Persist
<1>6. RebasedTo(txns, conf.inProgress)
  BY <1>1 DEF StageInv, LoopStage
<1>7. WorkStage' /\ IdStage' /\ DdlRows'
  BY <1>1, <1>3, <1>4, <1>5 DEF WorkStage, IdStage, Local, DdlRows
<1>8. ~HasChanges' /\ ~ddl'
  BY <1>1 DEF HasChanges, HasDataChanges
<1>9. NoTxn \notin DOMAIN txns
  BY <1>3 DEF IsFiniteTable, IsTable, TxnIds, NoTxn
<1>10. CASE id = NoTxn
  <2>1. \A i \in DOMAIN txns : ~Before(conf.inProgress, i)
    BY <1>2, <1>9, <1>10 DEF NextToRebase, IsNext, IsFirst, IdsAfter
  <2>2. \A i \in DOMAIN txns : ~txns[i].deleted
    BY <1>6, <2>1 DEF RebasedTo
  <2>3. driver' = "End"
    BY <1>2, <1>10
  <2>4. LoopStage'
    BY <1>1, <1>4, <1>5, <1>10, <2>2, <2>3 DEF LoopStage
  <2>5. FileStage'
    <3>1. CASE DOMAIN txns = {}
      BY <1>4, <1>5, <3>1 DEF FileStage, RebasedTo
    <3>2. CASE DOMAIN txns # {}
      <4>1. HasPendingTxns(txns)
        BY <2>2, <3>2 DEF HasPendingTxns
      <4>2. InMidRebase'
        BY <1>4, <1>5, <1>9, <1>10, <4>1 DEF InMidRebase, HasPendingTxns
      <4> QED BY <1>4, <1>5, <2>3, <4>2 DEF FileStage
    <3> QED BY <3>1, <3>2
  <2> QED BY <1>7, <2>4, <2>5 DEF StageInv
<1>11. CASE id # NoTxn
  <2>1. IsNext(txns, conf.inProgress, id)
    BY <1>2, <1>11 DEF NextToRebase
  <2>2. id \in DOMAIN txns /\ txns[id].deleted /\ RebasedBelow(txns, id)
    BY <1>3, <1>6, <2>1, NextSplits
  <2>3. driver' = "Reinstate"
    BY <1>2, <1>11
  <2>4. LoopStage'
    BY <1>1, <1>4, <1>5, <1>8, <2>2, <2>3 DEF LoopStage
  <2>5. InMidRebase'
    BY <1>4, <1>5, <2>2 DEF InMidRebase
  <2>6. FileStage'
    BY <1>4, <1>5, <2>3, <2>5 DEF FileStage
  <2> QED BY <1>7, <2>4, <2>6 DEF StageInv
<1> QED BY <1>10, <1>11

(* The loop is left, by an exception or at its end, and given up.          *)
LEMMA LoopLeftIsStaged ==
    ASSUME PullInv,
           \/ PullMergeRebaseNextFails \/ PullMergeRebaseAbortTxn \/ PullMergeRebaseEnd
    PROVE  StageInv' /\ DdlRows'
<1> USE DEF PullInv
<1>0. /\ conf.stage = "Rebasing" /\ job.op = "None" /\ disk.conf = conf
      /\ AllBefore(txns, conf.end) /\ AllBefore(disk.txns, conf.end)
      /\ IsFiniteTable(txns) /\ IsFiniteTable(disk.txns) /\ conf \in Confs
  BY InsideLoop DEF PullMergeRebaseNextFails, PullMergeRebaseAbortTxn,
     PullMergeRebaseEnd, EndWithCurr
<1>1. CASE PullMergeRebaseNextFails
  <2>1. driver = "Next" /\ HasChanges /\ driver' = "Failed" /\ UNCHANGED vars
    BY <1>1 DEF PullMergeRebaseNextFails
  <2>2. AllReversed(disk.txns)
    BY <2>1 DEF StageInv, LoopStage
  <2>3. FileStage'
    BY <2>1 DEF StageInv, FileStage, InMidRebase
  <2>4. WorkStage'
    BY <2>1 DEF StageInv, WorkStage, HasChanges, HasDataChanges
  <2>5. LoopStage'
    BY <1>0, <2>1, <2>2 DEF LoopStage
  <2>6. IdStage'
    BY <1>0, <2>1 DEF StageInv, IdStage, Local, HasChanges, HasDataChanges
  <2> QED BY <2>1, <2>3, <2>4, <2>5, <2>6, KeptDdlRows DEF StageInv
<1>2. CASE PullMergeRebaseAbortTxn
  <2>1. /\ driver = "Failed" /\ driver' = "Out" /\ txns' = disk.txns
        /\ conf' = [conf EXCEPT !.inProgress = NoTxn] /\ Persist /\ UNCHANGED job
    BY <1>2 DEF PullMergeRebaseAbortTxn
  <2>2. conf'.stage = "Rebasing" /\ conf'.inProgress = NoTxn /\ conf'.end = conf.end
    BY <1>0, <2>1 DEF Confs
  <2>3. AllReversed(disk.txns)
    BY <2>1 DEF StageInv, LoopStage
  <2>4. RebasedTo(disk.txns, NoTxn)
    BY <1>0, <2>3, NoneRebased
  <2>5. disk'.conf = conf' /\ disk'.txns = txns'
    BY <2>1 DEF Persist
  <2>6. StageInv'
    BY <1>0, <2>1, <2>2, <2>4, <2>5, RebasingIsStaged
  <2> QED BY <2>1, <2>5, <2>6 DEF DdlRows
<1>3. CASE PullMergeRebaseEnd
  <2>1. /\ driver = "End" /\ driver' = "Out" /\ curr' = conf.end /\ reversed' = <<>>
        /\ conf' = [conf EXCEPT !.stage = "None", !.end = NoTxn]
        /\ Persist /\ UNCHANGED <<txns, job>>
    BY <1>3 DEF PullMergeRebaseEnd, EndWithCurr
  <2>2. conf.inProgress = NoTxn
    BY <2>1 DEF StageInv, LoopStage
  <2>3. conf'.stage = "None" /\ conf'.inProgress = NoTxn
    BY <1>0, <2>1, <2>2 DEF Confs
  <2>4. disk'.conf = conf' /\ disk'.txns = txns' /\ LiveKept(disk'.txns, txns')
    BY <2>1, PersistKeepsLive DEF Persist
  <2>5. Settled'
    BY <1>0, <2>1, <2>4, AllBeforeIsFreed, EmptyIsStacked DEF Settled
  <2>6. IdInv'
    BY <1>0, <2>1, <2>5, SettledIsInv
  <2>7. StageInv'
    BY <1>0, <2>1, <2>3, <2>4, <2>6, LocalIsStaged DEF Local
  <2> QED BY <2>1, <2>7, KeptDdlRows
<1> QED BY <1>1, <1>2, <1>3

(* A Txn is reinstated, or could not be.                                   *)
LEMMA ReinstatedIsStaged ==
    ASSUME Steady, PullInv,
           PullMergeRebaseReinstateTxn \/ PullMergeRebaseReinstateFails
    PROVE  StageInv' /\ DdlRows'
<1> USE DEF PullInv
<1>0. /\ conf.stage = "Rebasing" /\ job.op = "None" /\ disk.conf = conf
      /\ AllBefore(txns, conf.end) /\ driver = "Reinstate"
  BY InsideLoop DEF PullMergeRebaseReinstateTxn, PullMergeRebaseReinstateFails
<1>a. RebasedBelow(txns, conf.inProgress) /\ txns = disk.txns /\ ~ddl
  BY <1>0 DEF StageInv, LoopStage
<1>1. CASE PullMergeRebaseReinstateTxn
  <2>1. PICK replaced : db' = Merged(RebasedRow.change, replaced)
    BY <1>1 DEF PullMergeRebaseReinstateTxn
  <2>2. /\ tracked' = [k \in {key \in Keys : db'[key] # db[key]} |-> db[k]]
        /\ driver' = "Update" /\ UNCHANGED <<txns, conf, disk, curr, reversed, ddl, lastSave, job>>
    BY <1>1 DEF PullMergeRebaseReinstateTxn
  <2>3. RebasedRow.type = "Ddl" => ~HasDataChanges'
    <3>1. SUFFICES ASSUME RebasedRow.type = "Ddl" PROVE DOMAIN tracked' = {}
      BY DEF HasDataChanges
    <3>2. conf.inProgress \in DOMAIN txns
      BY <1>0 DEF PullTypeInv, Driving
    <3>3. DOMAIN RebasedRow.change = {}
      BY <3>1, <3>2 DEF DdlRows, DdlEmpty, RebasedRow
    <3>4. \A key \in Keys : db'[key] = db[key]
      BY <2>1, <3>3 DEF Merged
    <3> QED BY <2>2, <3>4
  <2>4. FileStage'
    BY <1>0, <2>2 DEF StageInv, FileStage, InMidRebase
  <2>5. WorkStage'
    BY <1>0, <2>2 DEF StageInv, WorkStage
  <2>6. LoopStage'
    BY <1>0, <1>a, <2>2, <2>3 DEF LoopStage, RebasedRow
  <2>7. IdStage'
    BY <1>0, <2>2 DEF StageInv, IdStage, Local
  <2> QED BY <2>2, <2>4, <2>5, <2>6, <2>7, KeptDdlRows DEF StageInv
<1>2. CASE PullMergeRebaseReinstateFails
  <2>1. MayFail /\ Rollback /\ driver' = "Failed" /\ UNCHANGED <<disk, job>>
    BY <1>2 DEF PullMergeRebaseReinstateFails
  <2>2. AllReversed(txns)
    BY <2>1, MayFailIsEarly
  <2>3. txns' = txns /\ conf' = conf
    BY <1>0, <1>a, <2>1 DEF Rollback
  <2>4. FileStage'
    BY <1>0, <2>1, <2>3 DEF StageInv, FileStage, InMidRebase
  <2>5. WorkStage'
    BY <1>0, <1>a, <2>1, <2>3 DEF WorkStage
  <2>6. LoopStage'
    BY <1>0, <1>a, <2>1, <2>2, <2>3 DEF LoopStage
  <2>7. IdStage'
    BY <1>0, <1>a, <2>1, <2>3 DEF IdStage, Local
  <2> QED BY <2>1, <2>4, <2>5, <2>6, <2>7, KeptDdlRows DEF StageInv
<1> QED BY <1>1, <1>2

(* One more Txn rebased: live again, or erased.                            *)
LEMMA OneMoreRebased ==
    ASSUME NEW table, IsFiniteTable(table), NEW id \in DOMAIN table, RebasedBelow(table, id),
           NEW new, DOMAIN new \subseteq DOMAIN table,
           id \in DOMAIN new => ~new[id].deleted,
           \A i \in DOMAIN new : i # id => new[i] = table[i]
    PROVE  RebasedTo(new, id)
<1>1. DOMAIN table \subseteq Ids
  BY DEF IsFiniteTable, IsTable, Ids
<1>2. ASSUME NEW i \in DOMAIN new PROVE new[i].deleted <=> Before(id, i)
  <2>1. CASE i = id
    BY <1>1, <2>1, IdsInOrder
  <2>2. CASE i # id
    <3>1. new[i].deleted <=> ~Before(i, id)
      BY <2>2 DEF RebasedBelow
    <3> QED BY <1>1, <2>2, <3>1, IdsInOrder
  <2> QED BY <2>1, <2>2
<1> QED BY <1>2 DEF RebasedTo

(* The changeset of the Txn is updated.                                    *)
LEMMA UpdatedIsStaged ==
    ASSUME PullInv, PullMergeRebaseUpdateTxn
    PROVE  StageInv' /\ DdlRows'
<1> USE DEF PullInv
<1>0. /\ conf.stage = "Rebasing" /\ job.op = "None" /\ disk.conf = conf
      /\ AllBefore(txns, conf.end) /\ IsFiniteTable(txns) /\ driver = "Update"
      /\ RebasedRow.type # "Ddl"
  BY InsideLoop DEF PullMergeRebaseUpdateTxn
<1> DEFINE id == conf.inProgress
<1>1. RebasedBelow(txns, id) /\ ~ddl /\ id \in DOMAIN txns
  BY <1>0 DEF StageInv, LoopStage, PullTypeInv, Driving
<1>2. PICK state \in PropagatedByRebase : txns' = UpdatedTxns(Difference(BeforeEdits, state))
  BY DEF PullMergeRebaseUpdateTxn
<1>3. /\ tracked' = EmptyMap /\ curr' = conf.inProgress /\ driver' = "Next" /\ Persist
      /\ UNCHANGED <<conf, reversed, ddl, job>>
  BY DEF PullMergeRebaseUpdateTxn
<1>4. /\ DOMAIN txns' \subseteq DOMAIN txns
      /\ id \in DOMAIN txns' => ~txns'[id].deleted /\ txns'[id].type # "Ddl"
      /\ \A i \in DOMAIN txns' : i # id => txns'[i] = txns[i]
  <2> DEFINE change == Difference(BeforeEdits, state)
             row == [RebasedRow EXCEPT !.change = change, !.deleted = FALSE]
  <2>1. CASE DOMAIN change = {}
    <3>1. txns' = Keep(txns, DOMAIN txns \ {id})
      BY <1>2, <2>1 DEF UpdatedTxns
    <3> QED BY <3>1 DEF Keep
  <2>2. CASE DOMAIN change # {}
    <3>1. txns' = Insert(txns, id, row)
      BY <1>2, <2>2 DEF UpdatedTxns
    <3>2. RebasedRow \in Rows
      BY <1>0, <1>1 DEF IsFiniteTable, IsTable, RebasedRow
    <3>3. ~row.deleted /\ row.type # "Ddl"
      BY <1>0, <3>2 DEF Rows
    <3> HIDE DEF row
    <3> QED BY <1>1, <3>1, <3>3 DEF Insert
  <2> QED BY <2>1, <2>2
<1>5. RebasedTo(txns', id)
  BY <1>0, <1>1, <1>4, OneMoreRebased
<1>6. disk'.txns = txns' /\ disk'.conf = conf'
  BY <1>3 DEF Persist
<1>7. ~HasChanges'
  BY <1>1, <1>3 DEF HasChanges, HasDataChanges, EmptyMap
<1>8. FileStage'
  BY <1>0, <1>3, <1>5, <1>6 DEF FileStage
<1>9. WorkStage'
  BY <1>0, <1>3, <1>6 DEF WorkStage
<1>10. LoopStage'
  BY <1>0, <1>3, <1>5, <1>7 DEF LoopStage
<1>11. IdStage'
  <2>1. AllBefore(txns', conf.end)
    BY <1>0, <1>4 DEF AllBefore
  <2> QED BY <1>0, <1>3, <1>6, <2>1 DEF IdStage, Local
<1>12. DdlRows'
  <2>1. DdlEmpty(txns')
    BY <1>4 DEF DdlRows, DdlEmpty
  <2> QED BY <1>6, <2>1 DEF DdlRows
<1> QED BY <1>8, <1>9, <1>10, <1>11, <1>12 DEF StageInv

(* A DDL Txn is marked live, or the update of another fails.               *)
LEMMA MarkedIsStaged ==
    ASSUME Steady, PullInv,
           PullMergeSetTxnActive \/ PullMergeRebaseUpdateFails
    PROVE  StageInv' /\ DdlRows'
<1> USE DEF PullInv
<1>0. /\ conf.stage = "Rebasing" /\ job.op = "None" /\ disk.conf = conf
      /\ AllBefore(txns, conf.end) /\ AllBefore(disk.txns, conf.end)
      /\ IsFiniteTable(txns) /\ driver = "Update"
  BY InsideLoop DEF PullMergeSetTxnActive, PullMergeRebaseUpdateFails
<1> DEFINE id == conf.inProgress
<1>a. RebasedBelow(txns, id) /\ txns = disk.txns /\ ~ddl /\ id \in DOMAIN txns
  BY <1>0 DEF StageInv, LoopStage, PullTypeInv, Driving
<1>1. CASE PullMergeSetTxnActive
  <2>1. /\ txns' = SetDeleted(txns, id, FALSE) /\ driver' = "Next"
        /\ RebasedRow.type = "Ddl"
        /\ UNCHANGED <<conf, disk, reversed, editVars, job>>
    BY <1>1 DEF PullMergeSetTxnActive
  <2>2. /\ DOMAIN txns' = DOMAIN txns /\ ~txns'[id].deleted
        /\ \A i \in DOMAIN txns : i # id => txns'[i] = txns[i]
    <3>1. /\ DOMAIN SetDeleted(txns, id, FALSE) = DOMAIN txns
          /\ ~SetDeleted(txns, id, FALSE)[id].deleted
          /\ \A i \in DOMAIN txns : i # id => SetDeleted(txns, id, FALSE)[i] = txns[i]
      BY <1>0, <1>a, RowLive
    <3> QED BY <2>1, <3>1
  <2>3. RebasedTo(txns', id)
    BY <1>0, <1>a, <2>2, OneMoreRebased
  <2>4. HasChanges' => AllReversed(disk.txns)
    BY <1>0, <1>a, <2>1 DEF StageInv, LoopStage, HasChanges, HasDataChanges
  <2>5. FileStage'
    BY <1>0, <2>1 DEF StageInv, FileStage, InMidRebase
  <2>6. WorkStage'
    BY <1>0, <1>a, <2>1, <2>2 DEF WorkStage
  <2>7. LoopStage'
    BY <1>0, <2>1, <2>3, <2>4 DEF LoopStage
  <2>8. IdStage'
    <3>1. AllBefore(txns', conf.end)
      BY <1>0, <2>2 DEF AllBefore
    <3> QED BY <1>0, <2>1, <3>1 DEF IdStage, Local
  <2>9. DdlRows'
    <3>1. DdlEmpty(txns')
      BY <1>0, <1>a, <2>1, SetDeletedIsDdlEmpty DEF DdlRows
    <3> QED BY <2>1, <3>1 DEF DdlRows
  <2> QED BY <2>5, <2>6, <2>7, <2>8, <2>9 DEF StageInv
<1>2. CASE PullMergeRebaseUpdateFails
  <2>1. /\ ~HasPendingTxns(txns) /\ driver' = "Failed"
        /\ UNCHANGED <<txns, conf, disk, reversed, job>>
    BY <1>2 DEF PullMergeRebaseUpdateFails
  <2>2. AllReversed(disk.txns)
    BY <1>a, <2>1 DEF HasPendingTxns, AllReversed
  <2>3. FileStage'
    BY <1>0, <2>1 DEF StageInv, FileStage, InMidRebase
  <2>4. WorkStage'
    BY <1>0, <1>a, <2>1 DEF WorkStage
  <2>5. LoopStage'
    BY <1>0, <2>1, <2>2 DEF LoopStage
  <2>6. IdStage'
    BY <1>0, <2>1 DEF IdStage, Local
  <2> QED BY <2>1, <2>3, <2>4, <2>5, <2>6, KeptDdlRows DEF StageInv
<1> QED BY <1>1, <1>2

(* The edits of the client to the Txn being rebased.                       *)
LEMMA EditRebasedIsStaged ==
    ASSUME Steady, PullInv, driver = "Update", UNCHANGED driver, MayEditRebased, EditNext
    PROVE  StageInv'
<1> USE DEF PullInv
<1>0. /\ conf.stage = "Rebasing" /\ job.op = "None" /\ disk.conf = conf
      /\ AllBefore(txns, conf.end) /\ AllBefore(disk.txns, conf.end)
  BY InsideLoop
<1>1. RebasedBelow(txns, conf.inProgress) /\ txns = disk.txns /\ ~ddl
  BY DEF StageInv, LoopStage
<1>2. UNCHANGED <<txns, conf, disk, curr, reversed, ddl, lastSave, job>>
  BY DEF EditNext, Edit
<1>3. RebasedRow.type = "Ddl" => AllReversed(txns)
  BY MayFailIsEarly DEF MayEditRebased
<1>4. FileStage'
  BY <1>0, <1>2 DEF StageInv, FileStage, InMidRebase
<1>5. WorkStage'
  BY <1>0, <1>1, <1>2 DEF WorkStage
<1>6. LoopStage'
  BY <1>0, <1>1, <1>2, <1>3 DEF LoopStage, RebasedRow
<1>7. IdStage'
  BY <1>0, <1>2 DEF IdStage, Local
<1> QED BY <1>4, <1>5, <1>6, <1>7 DEF StageInv

-------------------------------------------------------------------------------
(***************************************************************************)
(* The invariant, and what it says.                                        *)
(***************************************************************************)
LEMMA PullInvInit == PullInit => PullInv
<1> SUFFICES ASSUME PullInit PROVE PullInv
  OBVIOUS
<1>1. /\ txns = EmptyMap /\ disk.txns = EmptyMap /\ conf = NoConf /\ disk.conf = NoConf
      /\ job.op = "None" /\ driver = "Out" /\ Init
  BY DEF PullInit, Init, Idle
<1>2. FileStage /\ WorkStage /\ LoopStage
  BY <1>1 DEF FileStage, WorkStage, LoopStage, NoConf
<1>3. IdStage
  BY <1>1, IdInvInit DEF IdStage, NoConf
<1>4. DdlRows
  BY <1>1 DEF DdlRows, DdlEmpty, EmptyMap
<1> QED BY <1>2, <1>3, <1>4, PullTypeInit DEF PullInv, StageInv

(* The calls of TxnManager, wherever a pull has got to.                    *)
LEMMA TxnCallIsStaged ==
    ASSUME Steady, PullInv, TxnCall
    PROVE  StageInv'
<1>1. [Next]_vars /\ UNCHANGED driver
  BY DEF TxnCall
<1>2. CASE driver = "Update" /\ MayEditRebased /\ EditNext
  BY <1>1, <1>2, EditRebasedIsStaged
<1>3. CASE driver = "Out" /\ Local /\ job.op = "PullReverse"
  <2>1. CASE Crash
    BY <1>1, <1>3, <2>1, CrashIsStaged
  <2>2. CASE UNCHANGED vars
    BY <1>1, <2>2, UnchangedIsStaged DEF PullInv
  <2> QED BY <1>1, <1>3, <2>1, <2>2, StepsOfCalls
<1>4. CASE driver = "Out" /\ Local /\ job.op # "PullReverse"
  BY <1>1, <1>4, LocalStep
<1>5. CASE driver = "Out" /\ ~Local /\ job.op = "Discard"
  BY <1>1, <1>5, DiscardingIsStaged
<1>6. CASE driver = "Out" /\ ~Local /\ job.op # "Discard"
  <2>1. conf.stage \in Stages
    BY DEF PullInv, PullTypeInv, TypeInv, FileOK, Confs
  <2>2. conf.stage # "None"
    BY <1>6 DEF PullInv, StageInv, WorkStage, Local
  <2>3. job.op = "None"
    BY <1>6, <2>2, CallsApart
  <2> QED BY <1>1, <1>6, <2>1, <2>2, <2>3, MergingStep, RebasingStep DEF Stages
<1> QED BY <1>2, <1>3, <1>4, <1>5, <1>6 DEF TxnCall

LEMMA LoopCallIsStaged ==
    ASSUME Steady, PullInv, LoopCall
    PROVE  StageInv' /\ DdlRows'
  BY RebaseBeginIsStaged, RebaseNextIsStaged, LoopLeftIsStaged, ReinstatedIsStaged,
     UpdatedIsStaged, MarkedIsStaged DEF LoopCall, RebaseStep

(* A crash that may happen does not fall in the middle of a rebase.        *)
LEMMA PullCrashIsStaged ==
    ASSUME Steady, PullInv, PullCrash
    PROVE  StageInv' /\ DdlRows'
<1>1. Crash /\ driver' = "Out" /\ ~InMidRebase
  BY DEF PullCrash, Steady
<1>2. StageInv'
  BY <1>1, CrashIsStaged
<1>3. DdlRows'
  BY <1>1, KeptDdlRows DEF Crash, PullInv
<1> QED BY <1>2, <1>3

LEMMA PullInvStep == Steady /\ PullInv /\ [PullNext]_pullVars => PullInv'
<1> SUFFICES ASSUME Steady, PullInv, [PullNext]_pullVars PROVE PullInv'
  OBVIOUS
<1>1. PullTypeInv'
  BY PullTypeStep DEF PullInv
<1>2. CASE TxnCall
  <2>1. DdlRows'
    BY <1>2, TxnStepKeepsDdlRows DEF TxnCall, PullInv, PullTypeInv
  <2> QED BY <1>1, <1>2, <2>1, TxnCallIsStaged DEF PullInv
<1>3. CASE PullCall
  BY <1>1, <1>3, PullReverseIsStaged, MergeIsStaged DEF PullCall, PullInv
<1>4. CASE LoopCall
  BY <1>1, <1>4, LoopCallIsStaged DEF PullInv
<1>5. CASE PullCrash
  BY <1>1, <1>5, PullCrashIsStaged DEF PullInv
<1>6. CASE UNCHANGED pullVars
  <2>1. UNCHANGED vars /\ UNCHANGED driver
    BY <1>6 DEF pullVars
  <2> QED BY <1>1, <2>1, UnchangedIsStaged, KeptDdlRows DEF PullInv
<1> QED BY <1>2, <1>3, <1>4, <1>5, <1>6, PullSteps

LEMMA PullInvariant ==
    ASSUME Steady
    PROVE  PullSpec => []PullInv
<1>1. PullInv /\ [PullNext]_pullVars => PullInv'
  BY PullInvStep
<1> QED BY <1>1, PullInvInit, PTL DEF PullSpec

(* RebasedInOrder: a rebase reinstates the local Txns in the order they    *)
(* were made in; while one is being reinstated or updated those before it  *)
(* are live and those after it reversed (rebaseLocalTxns).                 *)
THEOREM RebaseIsInOrder ==
    ASSUME Steady
    PROVE  PullSpec => []RebasedInOrder
<1>1. PullInv => RebasedInOrder
  BY DEF PullInv, StageInv, LoopStage, RebasedInOrder, RebasedBelow
<1> QED BY <1>1, PullInvariant, PTL

(* NextIdIsFreeAfterPull: the id recorded when a pull began, which         *)
(* RebaseEnd makes the next one again, is past every Txn that was rebased; *)
(* between pulls SaveTxn's INSERT never meets a live row.                  *)
THEOREM NextIdIsFreeOncePulled ==
    ASSUME Steady
    PROVE  PullSpec => []NextIdIsFreeAfterPull
<1>1. PullInv => NextIdIsFreeAfterPull
  <2> SUFFICES ASSUME PullInv, job.op = "None", ~InProgress PROVE Freed(txns, curr)
    BY DEF NextIdIsFreeAfterPull, Freed
  <2>1. Local
    BY CallsApart DEF InProgress
  <2> QED BY <2>1 DEF PullInv, StageInv, IdStage, IdInv, WorkFreed
<1> QED BY <1>1, PullInvariant, PTL

(* RebaseLeavesNoneReversed: when a rebase ends no Txn it should have      *)
(* reinstated is still reversed, for the next save to delete.              *)
THEOREM NoneIsLeftReversed ==
    ASSUME Steady
    PROVE  PullSpec => RebaseLeavesNoneReversed
<1> DEFINE Left == driver = "End" /\ conf'.stage = "None" =>
                       \A id \in DOMAIN disk'.txns : ~disk'.txns[id].deleted
<1>1. PullInv /\ [PullNext]_pullVars => [Left]_pullVars
  <2> SUFFICES ASSUME PullInv, [PullNext]_pullVars, driver = "End", conf'.stage = "None",
                      ~UNCHANGED pullVars
               PROVE  \A id \in DOMAIN disk'.txns : ~disk'.txns[id].deleted
    OBVIOUS
  <2>1. /\ conf.stage = "Rebasing" /\ disk.conf = conf
        /\ \A id \in DOMAIN txns : ~txns[id].deleted
    BY InsideLoop DEF PullInv, StageInv, LoopStage
  <2>2. ~PullCrash
    BY <2>1 DEF PullCrash, Crash, Rollback
  <2>3. LoopCall
    BY <2>2, PullSteps DEF TxnCall, PullCall
  <2>4. PullMergeRebaseEnd
    BY <2>3 DEF LoopCall, RebaseStep, PullMergeRebaseBegin, PullMergeRebaseNext,
       PullMergeRebaseNextFails, PullMergeRebaseReinstateTxn, PullMergeRebaseUpdateTxn,
       PullMergeSetTxnActive, PullMergeRebaseReinstateFails, PullMergeRebaseUpdateFails,
       PullMergeRebaseAbortTxn
  <2>5. disk'.txns = txns
    BY <2>4 DEF PullMergeRebaseEnd, EndWithCurr, Persist
  <2> QED BY <2>1, <2>5
<1> HIDE DEF Left
<1>2. PullSpec => [][Left]_pullVars
  BY <1>1, PullInvariant, PTL DEF PullSpec
<1> QED BY <1>2 DEF Left, RebaseLeavesNoneReversed

(* A step that commits Txns in the middle of a pull commits those the file *)
(* holds, without the one being rebased at most.                           *)
LEMMA FileKeepsTxns ==
    ASSUME Steady, PullInv, [PullNext]_pullVars
    PROVE  \/ disk.conf.stage = "None" \/ disk'.conf.stage = "None"
           \/ DOMAIN disk.txns \ DOMAIN disk'.txns \subseteq {disk.conf.inProgress}
<1> SUFFICES ASSUME disk.conf.stage # "None"
             PROVE  \/ disk'.conf.stage = "None"
                    \/ DOMAIN disk.txns \ DOMAIN disk'.txns \subseteq {disk.conf.inProgress}
  OBVIOUS
<1> USE DEF PullInv
<1>1. /\ ~Local
      /\ job.op = "None" \/ job.op = "Discard"
      /\ conf.stage = "None" => job.op = "Discard"
  BY CallsApart DEF Local, StageInv, WorkStage, PullTypeInv, TypeInv, FileOK, Confs, Stages
<1>2. conf.stage \in Stages
  BY DEF PullTypeInv, TypeInv, FileOK, Confs
<1>3. conf.stage = "Merging" /\ job.op = "None" => disk.txns = txns
  <2>1. disk.conf.stage \in Stages
    BY DEF PullTypeInv, TypeInv, DiskOK, Confs
  <2> QED BY <2>1 DEF StageInv, WorkStage, Stages
<1>4. conf.stage = "Rebasing" /\ driver = "Out" => disk.txns = txns
  BY DEF StageInv, LoopStage
<1>5. CASE TxnCall
  <2>1. [Next]_vars
    BY <1>5 DEF TxnCall
  <2>2. CASE EditNext
    BY <2>2 DEF EditNext, Edit
  <2>3. CASE job.op = "Discard"
    <3>1. DiscardReversed => disk'.conf.stage = "None"
      BY DEF DiscardReversed, Persist, NoConf
    <3> QED BY <2>1, <2>3, <3>1, StepsOfCalls DEF Crash, DiscardStep, DiscardFails
  <2>4. CASE job.op = "None" /\ driver = "Out"
    <3>1. conf.stage # "None" /\ disk.txns = txns
      BY <1>1, <1>2, <1>3, <1>4, <2>4 DEF Stages
    <3>2. SaveChanges => disk'.txns = disk.txns
      <4>1. SaveUntracked(txns, parent, FALSE) => disk'.txns = disk.txns
        BY <3>1 DEF SaveUntracked, Persist
      <4>2. conf.stage = "Merging" => NothingToSave
        BY NoChangesNothingToSave DEF StageInv, WorkStage
      <4> QED BY <1>2, <3>1, <4>1, <4>2
              DEF SaveChanges, SaveTracked, SaveFails, SaveRefused, Rebasing, Stages
    <3>3. DiscardLocalChanges \/ Crash => disk' = disk
      BY DEF DiscardLocalChanges, Crash
    <3>4. EditDdl \/ AbandonChanges \/ RestartTxnSession \/ BeginMultiTxnOperation
          \/ EndMultiTxnOperation \/ Upload \/ StopCreateChangeset \/ UNCHANGED vars
              => disk' = disk
      BY DEF EditDdl, AbandonChanges, RestartTxnSession, BeginMultiTxnOperation,
             EndMultiTxnOperation, Upload, StopCreateChangeset
    <3> QED BY <2>1, <2>2, <2>4, <3>1, <3>2, <3>3, <3>4, StepsInPull
  <2> QED BY <1>1, <1>5, <2>2, <2>3, <2>4, CallsApart DEF TxnCall
<1>6. CASE PullCall
  <2>1. CASE PullMergeReverseLocalChanges \/ PullReverseStep \/ PullReverseDone
             \/ PullReverseFails \/ MergeFails \/ OtherPushes
    BY <2>1 DEF PullMergeReverseLocalChanges, PullReverseStep, PullReverseDone,
       PullReverseFails, MergeFails, OtherPushes
  <2>2. CASE \/ \E fastForward \in BOOLEAN : MergeChangeset(fastForward)
             \/ ReverseChangeset
    <3>1. MayMerge /\ txns' = txns /\ (Persist \/ disk' = disk)
      BY <2>2 DEF MergeChangeset, ReverseChangeset, Apply
    <3>2. disk.txns = txns
      BY <1>1, <1>2, <1>3, <3>1 DEF MayMerge, ClientReady, Rebasing, Stages
    <3> QED BY <3>1, <3>2 DEF Persist
  <2> QED BY <1>6, <2>1, <2>2 DEF PullCall
<1>7. CASE LoopCall
  <2>1. CASE PullMergeRebaseBegin
    <3>1. disk' = disk \/ disk'.txns = txns
      BY <2>1 DEF PullMergeRebaseBegin
    <3>2. disk.txns = txns
      BY <1>1, <1>2, <1>3, <1>4, <2>1 DEF PullMergeRebaseBegin, ClientReady, Stages
    <3> QED BY <3>1, <3>2
  <2>2. CASE PullMergeRebaseNext
    <3>1. disk'.txns = txns /\ driver = "Next"
      BY <2>2 DEF PullMergeRebaseNext, Persist
    <3> QED BY <3>1, InsideLoop
  <2>3. CASE PullMergeRebaseAbortTxn
    BY <2>3 DEF PullMergeRebaseAbortTxn, Persist
  <2>4. CASE PullMergeRebaseEnd
    <3>1. disk'.conf = [conf EXCEPT !.stage = "None", !.end = NoTxn] /\ driver = "End"
      BY <2>4 DEF PullMergeRebaseEnd, EndWithCurr, Persist
    <3> QED BY <3>1, InsideLoop DEF Confs
  <2>5. CASE PullMergeRebaseUpdateTxn
    <3>1. /\ driver = "Update" /\ disk'.txns = txns'
          /\ \E state \in PropagatedByRebase :
                txns' = UpdatedTxns(Difference(BeforeEdits, state))
      BY <2>5 DEF PullMergeRebaseUpdateTxn, Persist
    <3>2. DOMAIN txns \ {conf.inProgress} \subseteq DOMAIN txns'
      BY <3>1 DEF UpdatedTxns, Keep, Insert
    <3>3. disk.conf = conf /\ DOMAIN disk.txns = DOMAIN txns
      BY <3>1, InsideLoop
    <3> QED BY <3>1, <3>2, <3>3
  <2>6. CASE PullMergeRebaseNextFails \/ PullMergeRebaseReinstateTxn \/ PullMergeSetTxnActive
             \/ PullMergeRebaseReinstateFails \/ PullMergeRebaseUpdateFails
    BY <2>6 DEF PullMergeRebaseNextFails, PullMergeRebaseReinstateTxn, PullMergeSetTxnActive,
       PullMergeRebaseReinstateFails, PullMergeRebaseUpdateFails
  <2> QED BY <1>7, <2>1, <2>2, <2>3, <2>4, <2>5, <2>6 DEF LoopCall, RebaseStep
<1>8. CASE PullCrash \/ UNCHANGED pullVars
  BY <1>8 DEF PullCrash, Crash, pullVars
<1> QED BY <1>5, <1>6, <1>7, <1>8, PullSteps

(* OnlyRebasedTxnLeaves: from the first changeset merged to the end of the *)
(* rebase no local Txn leaves the file but the one being rebased.          *)
THEOREM NoOtherTxnLeaves ==
    ASSUME Steady
    PROVE  PullSpec => OnlyRebasedTxnLeaves
<1> DEFINE Leaves == disk.conf.stage # "None" /\ disk'.conf.stage # "None" =>
               DOMAIN disk.txns \ DOMAIN disk'.txns \subseteq {disk.conf.inProgress}
<1>1. PullInv /\ [PullNext]_pullVars => [Leaves]_pullVars
  BY FileKeepsTxns
<1> HIDE DEF Leaves
<1>2. PullSpec => [][Leaves]_pullVars
  BY <1>1, PullInvariant, PTL DEF PullSpec
<1> QED BY <1>2 DEF Leaves, OnlyRebasedTxnLeaves

-------------------------------------------------------------------------------
(***************************************************************************)
(* What the Txns record, through pulls.  A briefcase outside a pull is as  *)
(* RecordProofs says, with a past that may hold pulls; in one, its file is *)
(* recorded at every step, what has been reversed or rebased so far leads  *)
(* to the open database, and nothing is undone or pushed.  No mishap of    *)
(* MishapKinds is allowed: each breaks a property this module proves.      *)
(***************************************************************************)

(* A client that makes no call known to do harm, and no crash in the middle *)
(* of a rebase.                                                            *)
NoMishap == Mishaps = {}

(* Outside a pull the briefcase is as RecordProofs says: its past may hold *)
(* a pull, but no changeset was made from a past that does.                *)
Calling == Local /\ job.op # "PullReverse"
CallsRecorded == RecordInv(IF creating.active THEN "Whole" ELSE "Rebased")

(* No live Txn is past the id that the session was at when a pull began.   *)
NotAfterCurr(table) == \A i \in DOMAIN table : ~table[i].deleted => ~Before(curr, i)

(* The file: recorded always; as outside a pull until a pull is committed.  *)
FileRecord ==
    /\ DiskRecorded /\ Chained(WithoutReversed(disk.txns), hub[disk.parent])
    /\ ~Calling /\ disk.conf.stage = "None" => FileInv("Rebased")
    /\ disk.conf.stage = "Rebasing" => NotAfterCurr(disk.txns)
CallRecord == Calling => CallsRecorded

(* In a pull nothing is pushed, undone or redone.                          *)
PullingRecord ==
    ~Calling => ~creating.active /\ ~creating.uploaded /\ ~Failed /\ reversed = <<>>

(* Reversing the local Txns, for a pull or to discard them.                *)
ReversalRecord ==
    job.op = "PullReverse" \/ (job.op = "Discard" /\ ~Local) =>
        Chained(txns, hub[parent]) /\ IsAt(job.at)

(* Merging: the database is the version of the hub that was merged last.   *)
MergeRecord == conf.stage = "Merging" /\ job.op = "None" => db = hub[parent]

(* Rebasing: the Txns rebased so far lead from that version to it.         *)
LoopRecord ==
    conf.stage = "Rebasing" /\ driver # "Failed" =>
        /\ BeforeEditsRecorded /\ Chained(WithoutReversed(txns), hub[parent])
        /\ driver \in {"Reinstate", "End"} => DOMAIN tracked = {}
        /\ NotAfterCurr(txns)

PullRecordInv ==
    /\ RowsInFile /\ FileRecord /\ CallRecord /\ PullingRecord
    /\ ReversalRecord /\ MergeRecord /\ LoopRecord

-------------------------------------------------------------------------------
(* Such a client makes none of the calls the other theorems exclude.       *)
LEMMA NoMishapIsCareful ==
    ASSUME NoMishap
    PROVE  Steady /\ Careful /\ AbandonsFailure /\ KeepsSession /\ KeepsPushed
  BY DEF NoMishap, Steady, Careful, AbandonsFailure, KeepsSession, KeepsPushed

(* The calls of a client outside the rebase loop that are those of         *)
(* TxnManager, each with the undo a pull leaves it.                        *)
LocalCall ==
    /\ driver = "Out" /\ UNCHANGED driver
    /\ \/ EditNext \/ EditDdl \/ SaveChanges \/ AbandonChanges
       \/ BeginMultiTxnOperation \/ EndMultiTxnOperation \/ RestartTxnSession
       \/ \E count \in 1..MaxTxns : ReverseTxns(count)
       \/ \E pos \in Positions : UndoTo(pos)
       \/ CancelNothing
       \/ ReverseStep \/ ReverseDone \/ ReverseFails
       \/ ReinstateTxn \/ ReinstateStep \/ ReinstateDone \/ ReinstateFails
       \/ PushNext \/ DiscardNext
EditRebased == driver = "Update" /\ UNCHANGED driver /\ MayEditRebased /\ EditNext

LEMMA StepsApart ==
    ASSUME [PullNext]_pullVars
    PROVE  LocalCall \/ EditRebased \/ PullCall \/ LoopCall \/ PullCrash \/ UNCHANGED pullVars
<1>1. ASSUME driver = "Out", ClientNext, UNCHANGED driver
      PROVE  LocalCall \/ PullCall
  BY <1>1 DEF ClientNext, LocalCall, PullCall
<1>2. CASE driver = "Out" /\ EditNext /\ UNCHANGED driver
  BY <1>2 DEF LocalCall
<1> QED BY <1>1, <1>2 DEF PullNext, EditRebased, LoopCall

LEMMA LocalCallIsStep ==
    ASSUME LocalCall
    PROVE  Next
<1>1. EditNext => Next
  BY DEF EditNext, Next
<1> QED BY <1>1 DEF LocalCall, UndoTo, Next, UndoNext

(* The steps of a pull commit the open table too, or leave the file alone. *)
LEMMA PullRowsAreCommitted ==
    ASSUME PullTypeInv, [PullNext]_pullVars
    PROVE  RowsCommitted
<1>1. /\ Persist => RowsCommitted
      /\ Rollback /\ UNCHANGED disk => RowsCommitted
      /\ UNCHANGED <<txns, disk>> => RowsCommitted
  BY DEF Persist, Rollback, RowsCommitted
<1>2. \A table : DOMAIN WithoutReversed(table) \subseteq DOMAIN table
  BY DEF WithoutReversed, Keep
<1>3. \A id, flag : DOMAIN SetDeleted(txns, id, flag) = DOMAIN txns
  BY DEF SetDeleted
<1>4. Next => RowsCommitted
  BY RowsAreCommitted
<1>5. CASE LocalCall \/ EditRebased \/ PullCrash \/ UNCHANGED pullVars
  <2>1. LocalCall \/ EditRebased \/ PullCrash => Next
    BY LocalCallIsStep DEF EditRebased, EditNext, PullCrash, Next
  <2>2. UNCHANGED pullVars => UNCHANGED <<txns, disk>>
    BY DEF pullVars
  <2> QED BY <1>1, <1>4, <1>5, <2>1, <2>2
<1>6. CASE PullCall
  <2>1. CASE PullMergeReverseLocalChanges
    <3>1. txns' = WithoutReversed(txns) /\ UNCHANGED disk
      BY <2>1 DEF PullMergeReverseLocalChanges
    <3> QED BY <1>2, <3>1 DEF RowsCommitted
  <2>2. CASE PullReverseStep
    <3>1. DOMAIN txns' = DOMAIN txns /\ UNCHANGED disk
      BY <1>3, <2>2 DEF PullReverseStep
    <3> QED BY <3>1 DEF RowsCommitted
  <2>3. CASE PullReverseDone \/ PullReverseFails
    BY <1>1, <2>3 DEF PullReverseDone, PullReverseFails
  <2>4. CASE \E fastForward \in BOOLEAN : MergeChangeset(fastForward)
    BY <1>1, <2>4 DEF MergeChangeset, Apply
  <2>5. CASE MergeFails \/ ReverseChangeset \/ OtherPushes
    BY <1>1, <2>5 DEF MergeFails, ReverseChangeset, OtherPushes, Apply
  <2> QED BY <1>6, <2>1, <2>2, <2>3, <2>4, <2>5 DEF PullCall
<1>7. CASE LoopCall
  <2>1. CASE PullMergeRebaseBegin
    <3>1. UNCHANGED txns /\ (UNCHANGED disk \/ disk'.txns = txns)
      BY <2>1 DEF PullMergeRebaseBegin
    <3> QED BY <3>1 DEF RowsCommitted
  <2>2. CASE PullMergeRebaseNext \/ PullMergeRebaseUpdateTxn \/ PullMergeRebaseEnd
             \/ PullMergeRebaseAbortTxn
    BY <1>1, <2>2 DEF PullMergeRebaseNext, PullMergeRebaseUpdateTxn, PullMergeRebaseEnd,
       EndWithCurr, PullMergeRebaseAbortTxn
  <2>3. CASE PullMergeRebaseNextFails \/ PullMergeRebaseReinstateTxn
             \/ PullMergeRebaseReinstateFails \/ PullMergeRebaseUpdateFails
    BY <1>1, <2>3 DEF PullMergeRebaseNextFails, PullMergeRebaseReinstateTxn,
       PullMergeRebaseReinstateFails, PullMergeRebaseUpdateFails
  <2>4. CASE PullMergeSetTxnActive
    <3>1. DOMAIN txns' = DOMAIN txns /\ UNCHANGED disk
      BY <1>3, <2>4 DEF PullMergeSetTxnActive
    <3> QED BY <3>1 DEF RowsCommitted
  <2> QED BY <1>7, <2>1, <2>2, <2>3, <2>4 DEF LoopCall, RebaseStep
<1> QED BY <1>5, <1>6, <1>7, StepsApart

-------------------------------------------------------------------------------
(***************************************************************************)
(* Outside a pull.                                                         *)
(***************************************************************************)

(* A briefcase in order is one that a rebase could have left, but for a    *)
(* push.                                                                   *)
LEMMA RecordedAgain ==
    ASSUME NEW past \in {"Whole", "Rebased"}, RecordInv(past)'
    PROVE  CallsRecorded'
<1>1. "Rebased" # "Whole"
  OBVIOUS
<1>2. CASE creating'.active
  <2>1. past = "Whole"
    BY <1>1, <1>2 DEF RecordInv, PushInv
  <2> QED BY <1>2, <2>1 DEF CallsRecorded
<1>3. CASE ~creating'.active
  <2>1. \A table, id, ranges : Complete(table, id, ranges, past)
                                  => Complete(table, id, ranges, "Rebased")
    BY <1>1 DEF Complete
  <2>2. \A table, base, id, ranges : Sound(table, base, id, ranges, past)
                                        => Sound(table, base, id, ranges, "Rebased")
    BY <2>1 DEF Sound
  <2>3. FileInv("Rebased")' /\ OpenInv("Rebased")' /\ PushInv("Rebased")'
    BY <1>1, <1>3, <2>1, <2>2 DEF RecordInv, FileInv, OpenInv, PushInv
  <2>4. Resting("Rebased")' /\ Reversing("Rebased")'
    BY <1>1, <2>2 DEF RecordInv, Resting, Reversing
  <2>5. RecordInv("Rebased")'
    BY <2>3, <2>4 DEF RecordInv
  <2> QED BY <1>3, <2>5 DEF CallsRecorded
<1> QED BY <1>2, <1>3

(* Outside a pull that is all there is to show.                            *)
LEMMA CallingIsRecorded ==
    ASSUME TypeInv', Calling', RowsInFile', CallsRecorded'
    PROVE  PullRecordInv'
<1>1. DiskRecorded' /\ Chained(WithoutReversed(disk'.txns), hub'[disk'.parent])
  <2>1. PICK past \in {"Whole", "Rebased"} : RecordInv(past)'
    BY DEF CallsRecorded
  <2>2. Chained(disk'.txns, hub'[disk'.parent]) /\ DiskRecorded'
    BY <2>1 DEF RecordInv, FileInv
  <2>3. IsFiniteTable(disk'.txns)
    BY DEF TypeInv, DiskOK
  <2>4. CASE job'.op = "DeleteAll"
    <3>1. \A i \in DOMAIN disk'.txns : disk'.txns[i].deleted
      BY <2>1, <2>4 DEF RecordInv, Deleting
    <3> QED BY <2>2, <2>3, <3>1, WithoutReversedRows DEF Chained
  <2>5. CASE job'.op # "DeleteAll"
    <3>1. LiveFirst(disk'.txns)
      BY <2>1, <2>5 DEF RecordInv, FileInv, Sound
    <3> QED BY <2>2, <2>3, <3>1, WithoutReversedIsChained
  <2> QED BY <2>4, <2>5
<1>2. FileRecord' /\ CallRecord' /\ PullingRecord'
  BY <1>1 DEF FileRecord, CallRecord, PullingRecord, Calling, Local
<1>3. ReversalRecord' /\ MergeRecord' /\ LoopRecord'
  BY DEF Calling, Local, ReversalRecord, MergeRecord, LoopRecord
<1> QED BY <1>2, <1>3 DEF PullRecordInv

(* The same with the conclusion of a lemma of RecordProofs.                *)
LEMMA RecordedOutside ==
    ASSUME NEW past \in {"Whole", "Rebased"}, TypeInv', Calling', RowsInFile', RecordInv(past)'
    PROVE  PullRecordInv'
  BY RecordedAgain, CallingIsRecorded

LEMMA LocalStaysLocal ==
    ASSUME TypeInv, Local, [Next]_vars
    PROVE  Local'
<1>1. conf \in Confs /\ disk.conf \in Confs
  BY DEF TypeInv, FileOK, DiskOK
<1> QED BY <1>1, TxnStepMoves DEF ConfMoves, Local, NoConf, Confs

(* The calls of TxnManager outside a pull.                                 *)
LEMMA LocalCallIsRecorded ==
    ASSUME NoMishap, PullInv, PullInv', PullRecordInv, RowsInFile', Calling, LocalCall
    PROVE  PullRecordInv'
<1>1. AbandonsFailure /\ KeepsSession /\ KeepsPushed /\ "UndoPastErased" \notin Mishaps
  BY NoMishapIsCareful DEF NoMishap
<1>2. TypeInv /\ TypeInv' /\ RowsInFile /\ Next
  BY LocalCallIsStep DEF PullInv, PullTypeInv, PullRecordInv
<1>3. PICK past \in {"Whole", "Rebased"} : RecordInv(past)
  BY DEF PullRecordInv, CallRecord, CallsRecorded
<1>4. Calling'
  BY <1>2, LocalStaysLocal, NoStepPullReverses DEF Calling, TypeInv
<1>5. \E outcome \in {"Whole", "Rebased"} : RecordInv(outcome)'
  <2>1. CASE job.op = "DeleteAll"
    <3>1. Crash \/ UNCHANGED vars \/ DeleteAllTxns
      BY <1>2, <2>1, StepsOfCalls
    <3>2. CASE UNCHANGED vars
      BY <1>3, <3>2, UnchangedKeepsRecordInv DEF Failed, BeforeEdits, Original
    <3> QED BY <1>2, <1>3, <3>1, <3>2, CrashKeepsRecordInv, DeleteAllTxnsKeepsRecordInv
  <2>2. CASE job.op # "DeleteAll"
    <3>1. IdInv
      BY <2>2 DEF PullInv, StageInv, IdStage, Calling
    <3>2. CASE EditNext \/ EditDdl \/ AbandonChanges \/ BeginMultiTxnOperation
               \/ EndMultiTxnOperation \/ RestartTxnSession
      BY <1>1, <1>2, <1>3, <3>2, SessionActionsKeepRecordInv DEF EditNext
    <3>3. CASE SaveChanges
      BY <1>1, <1>2, <1>3, <3>1, <3>3, SaveChangesKeepsRecordInv
    <3>4. CASE \/ \E count \in 1..MaxTxns : ReverseTxns(count)
               \/ \E pos \in Positions : UndoTo(pos)
               \/ CancelNothing
      <4>1. \A pos : UndoTo(pos) => pos \in DOMAIN txns /\ (ReverseTo(pos) \/ CancelTo(pos))
        BY <1>1 DEF UndoTo
      <4> QED BY <1>1, <1>2, <1>3, <3>4, <4>1, StartOfUndoKeepsRecordInv
    <3>5. CASE ReverseStep \/ ReverseDone \/ ReverseFails
      BY <1>2, <1>3, <3>1, <3>5, ReverseStepKeepsRecordInv, ReverseDoneKeepsRecordInv,
         ReverseFailsKeepsRecordInv
    <3>6. CASE ReinstateTxn \/ ReinstateStep \/ ReinstateDone \/ ReinstateFails
      BY <1>1, <1>2, <1>3, <3>1, <3>6, ReinstateKeepsRecordInv
    <3>7. CASE PushNext
      BY <1>1, <1>2, <1>3, <3>1, <3>7, PushKeepsRecordInv
    <3>8. CASE DiscardNext
      BY <1>1, <1>2, <1>3, <3>1, <3>8, DiscardKeepsRecordInv
    <3> QED BY <3>2, <3>3, <3>4, <3>5, <3>6, <3>7, <3>8 DEF LocalCall
  <2> QED BY <2>1, <2>2
<1> QED BY <1>2, <1>4, <1>5, RecordedOutside

-------------------------------------------------------------------------------
(***************************************************************************)
(* Reversing the local Txns.                                               *)
(***************************************************************************)

(* The version of the hub the Txns of a table start from.                  *)
LEMMA ParentsAreStates ==
    ASSUME PullTypeInv
    PROVE  /\ hub[parent] \in States /\ hub[disk.parent] \in States
           /\ IsFiniteTable(txns) /\ IsFiniteTable(disk.txns) /\ ParentsOK
  BY ElementOfSeq DEF PullTypeInv, TypeInv, HubOK, FileOK, DiskOK, Versions, ParentsOK

(* A call that deletes Txns is not one of a pull.                          *)
LEMMA PullDeletesNothing ==
    ASSUME PullInv, ~Calling
    PROVE  job.op # "DeleteAll"
<1> SUFFICES ASSUME job.op = "DeleteAll" PROVE FALSE
  OBVIOUS
<1>1. conf.stage = "None"
  BY CallsApart
<1> QED BY <1>1 DEF Calling, Local, PullInv, StageInv, WorkStage

(* The file, in the midst of a pull that leaves it alone.                  *)
LEMMA FileStaysRecorded ==
    ASSUME PullInv, PullRecordInv, ~Calling, UNCHANGED <<disk, curr, hub>>,
           ~creating'.active, reversed' = <<>>
    PROVE  FileRecord'
<1>1. job.op # "DeleteAll" /\ reversed = <<>>
  BY PullDeletesNothing DEF PullRecordInv, PullingRecord
<1>2. FileRecord
  BY DEF PullRecordInv
<1>3. DiskRecorded' /\ Chained(WithoutReversed(disk'.txns), hub'[disk'.parent])
  BY <1>2 DEF FileRecord, DiskRecorded
<1>4. disk.conf.stage = "None" => FileInv("Rebased")'
  BY <1>1, <1>2, <1>3 DEF FileRecord, FileInv, Packaged
<1>5. disk.conf.stage = "Rebasing" => NotAfterCurr(disk.txns)'
  BY <1>2 DEF FileRecord, NotAfterCurr
<1> QED BY <1>3, <1>4, <1>5 DEF FileRecord

(* What there is to show while local Txns are reversed.                    *)
LEMMA ReversalIsRecorded ==
    ASSUME RowsInFile', FileRecord', job'.op # "None", conf'.stage # "Rebasing",
           job'.op = "PullReverse" \/ ~Local',
           ~creating'.active, ~creating'.uploaded, reversed' = <<>>,
           Chained(txns', hub'[parent']), IsAt(job.at)'
    PROVE  PullRecordInv'
<1>1. ~Failed' /\ ~Calling'
  BY DEF IsAt, Calling
<1> QED BY <1>1 DEF PullRecordInv, CallRecord, PullingRecord, ReversalRecord, MergeRecord,
                    LoopRecord

(* A pull begins: the redo stack goes, and the live Txns are a line.       *)
LEMMA PullBeginsRecorded ==
    ASSUME NoMishap, PullInv, PullInv', PullRecordInv, RowsInFile', PullMergeReverseLocalChanges
    PROVE  PullRecordInv'
<1>1. /\ ClientReady /\ conf.stage = "None" /\ ~HasChanges
      /\ txns' = WithoutReversed(txns) /\ reversed' = <<>>
      /\ job' = [Idle EXCEPT !.op = "PullReverse", !.at = curr]
      /\ UNCHANGED <<db, conf, parent, disk, curr, editVars, creating, hub>>
  BY DEF PullMergeReverseLocalChanges, InProgress
<1>2. ~creating.active
  BY DEF NoMishap, PullMergeReverseLocalChanges
<1>3. Local /\ job.op = "None" /\ TypeInv /\ Calling
  BY <1>1, CallsApart DEF ClientReady, PullInv, PullTypeInv, Calling
<1>4. RecordInv("Rebased")
  BY <1>2, <1>3 DEF PullRecordInv, CallRecord, CallsRecorded
<1>5. Rest("Rebased") /\ ~Failed
  BY <1>1, <1>4, NoMishapIsCareful, ReadyIsAtRest
<1>6. ~creating.uploaded
  BY <1>2, <1>5 DEF Rest, PushInv
<1>7. job'.op = "PullReverse" /\ job'.at = curr
  BY <1>1 DEF Idle
<1>8. AllBefore(txns', curr)
  BY <1>1, <1>7 DEF PullInv, StageInv, IdStage
<1>9. IsFiniteTable(txns) /\ IsFiniteTable(txns')
  BY DEF PullInv, PullTypeInv, TypeInv, FileOK
<1>10. Chained(txns', hub[parent])
  BY <1>1, <1>5, <1>9, WithoutReversedIsChained DEF Rest, Sound
<1>11. IsAt(curr)'
  <2>1. AllLive(txns')
    BY <1>1, <1>9, WithoutReversedRows
  <2>2. CutAt(txns', curr)
    BY <1>8, <2>1 DEF AllLive, CutAt, AllBefore
  <2>3. DOMAIN tracked = {}
    BY <1>1 DEF HasChanges, HasDataChanges
  <2>4. db = Replay(txns', hub[parent])
    BY <1>1, <1>3, <1>5, <2>3, NothingTracked DEF Rest, BeforeEditsRecorded
  <2>5. db = StateAt(txns', hub[parent], curr)
    BY <1>8, <2>4, ReplayIsStateAt DEF AllBefore
  <2> QED BY <1>1, <1>5, <2>2, <2>3, <2>5 DEF IsAt, Failed
<1>12. FileRecord'
  <2>1. DiskRecorded' /\ Chained(WithoutReversed(disk'.txns), hub'[disk'.parent])
    BY <1>1 DEF PullRecordInv, FileRecord, DiskRecorded
  <2>2. Chained(disk.txns, hub[disk.parent])
        /\ Sound(disk.txns, hub[disk.parent], curr, <<>>, "Rebased")
    BY <1>5, DroppingRedoIsSound DEF Rest, Sound
  <2>3. FileInv("Rebased")'
    BY <1>1, <1>2, <2>1, <2>2 DEF FileInv, Packaged
  <2> QED BY <1>1, <1>3, <2>1, <2>3 DEF FileRecord, Local
<1>13. IsAt(job.at)'
  BY <1>1, <1>7, <1>11 DEF IsAt
<1> QED BY <1>1, <1>2, <1>6, <1>7, <1>10, <1>12, <1>13, ReversalIsRecorded

(* One Txn is reversed.                                                    *)
Reversal ==
    \E id \in IdsBefore(txns, job.at) :
        /\ IsPrevious(txns, job.at, id)
        /\ db' = ApplySkipping(Invert(txns[id].change), db)
        /\ txns' = SetDeleted(txns, id, TRUE)
        /\ job' = [job EXCEPT !.at = id]

LEMMA ReversalStepIsRecorded ==
    ASSUME PullInv, PullRecordInv, RowsInFile',
           job.op = "PullReverse" \/ (job.op = "Discard" /\ ~Local), Reversal,
           UNCHANGED <<conf, parent, disk, txnVars, editVars, creating, hub>>
    PROVE  PullRecordInv'
<1>1. PICK id \in IdsBefore(txns, job.at) :
          /\ IsPrevious(txns, job.at, id)
          /\ db' = ApplySkipping(Invert(txns[id].change), db)
          /\ txns' = SetDeleted(txns, id, TRUE)
          /\ job' = [job EXCEPT !.at = id]
  BY DEF Reversal
<1>2. TypeInv /\ ~Calling /\ Chained(txns, hub[parent]) /\ IsAt(job.at)
  BY DEF PullInv, PullTypeInv, PullRecordInv, ReversalRecord, Calling, Local
<1>3. ~creating.active /\ ~creating.uploaded /\ reversed = <<>>
  BY <1>2 DEF PullRecordInv, PullingRecord
<1>4. IsFiniteTable(txns) /\ id \in DOMAIN txns /\ id \in TxnIds /\ job.at \in TxnIds
      /\ hub[parent] \in States
  <2>1. IsFiniteTable(txns) /\ id \in DOMAIN txns /\ id \in TxnIds /\ Before(id, job.at)
    BY <1>2 DEF TypeInv, FileOK, IdsBefore, IsFiniteTable, IsTable
  <2>2. job.at \in TxnIds \cup {NoTxn}
    BY <1>2 DEF TypeInv, JobOK
  <2>3. hub[parent] \in States
    BY ParentsAreStates DEF PullInv
  <2> QED BY <2>1, <2>2, <2>3 DEF NoTxn, Before, TxnIds
<1>5. job'.op = job.op /\ job'.at = id
  BY <1>1, <1>2 DEF TypeInv, JobOK
<1>6. /\ Chained(txns', hub[parent])
      /\ StateAt(txns', hub[parent], id) = StateAt(txns, hub[parent], id)
  <2>1. /\ Chained(SetDeleted(txns, id, TRUE), hub[parent])
        /\ \A at : StateAt(SetDeleted(txns, id, TRUE), hub[parent], at)
                      = StateAt(txns, hub[parent], at)
    BY <1>2, <1>4, MarkingKeepsChain
  <2> QED BY <1>1, <2>1
<1>7. CutAt(txns', id)
  BY <1>1, <1>2, <1>4, ReversingMovesCut DEF IsAt
<1>8. db' = StateAt(txns', hub[parent], id)
  BY <1>1, <1>2, <1>4, <1>6, UndoingTxnIsExact DEF IsAt
<1>9. IsAt(job.at)'
  BY <1>2, <1>5, <1>7, <1>8 DEF IsAt, Failed
<1>10. FileRecord'
  BY <1>2, <1>3, FileStaysRecorded
<1>11. conf'.stage # "Rebasing"
  BY DEF PullInv, StageInv, WorkStage
<1>12. job'.op = "PullReverse" \/ ~Local'
  BY <1>5 DEF Local
<1> QED BY <1>3, <1>5, <1>6, <1>9, <1>10, <1>11, <1>12, ReversalIsRecorded

(* All are reversed: the database is the version that is the parent.       *)
LEMMA PullReversedIsRecorded ==
    ASSUME PullInv, PullRecordInv, RowsInFile', PullReverseDone
    PROVE  PullRecordInv'
<1>1. /\ job.op = "PullReverse" /\ IdsBefore(txns, job.at) = {}
      /\ conf' = [conf EXCEPT !.stage = "Merging", !.end = curr] /\ job' = Idle
      /\ UNCHANGED <<db, txns, parent, disk, txnVars, editVars, creating, hub>>
  BY DEF PullReverseDone
<1>2. ~Calling /\ IsAt(job.at)
  BY <1>1 DEF Calling, PullRecordInv, ReversalRecord
<1>3. conf'.stage = "Merging" /\ job'.op = "None"
  BY <1>1 DEF PullInv, PullTypeInv, TypeInv, FileOK, Confs, Idle
<1>4. hub[parent] \in States
  BY ParentsAreStates DEF PullInv
<1>5. db = hub[parent]
  <2>1. \A i \in DOMAIN txns : ~Before(i, job.at)
    BY <1>1 DEF IdsBefore
  <2> QED BY <1>2, <1>4, <2>1, NothingBefore DEF IsAt
<1>6. ~creating.active /\ ~creating.uploaded /\ reversed = <<>> /\ ~Failed
  BY <1>2 DEF PullRecordInv, PullingRecord
<1>7. FileRecord'
  BY <1>1, <1>2, <1>6, FileStaysRecorded
<1>8. ~Calling'
  BY <1>3 DEF Calling, Local
<1> QED BY <1>1, <1>3, <1>5, <1>6, <1>7, <1>8 DEF PullRecordInv, CallRecord, PullingRecord,
           ReversalRecord, MergeRecord, LoopRecord, Failed

(* A pull given up while the file is as it was before it began.            *)
LEMMA PullUndoneIsRecorded ==
    ASSUME PullInv, PullInv', PullRecordInv, RowsInFile', ~Calling, disk.conf.stage = "None",
           Rollback, UNCHANGED <<disk, txnVars, creating, hub>>, job'.op = "None"
    PROVE  PullRecordInv'
<1>1. FileInv("Rebased") /\ ~creating.active /\ ~creating.uploaded /\ reversed = <<>>
  BY DEF PullRecordInv, FileRecord, PullingRecord
<1>2. job.op # "DeleteAll" /\ TypeInv' /\ ParentsOK
  BY PullDeletesNothing, ParentsAreStates DEF PullInv, PullTypeInv
<1>3. PushInv("Rebased") /\ IsStack(reversed, curr)
  BY <1>1, EmptyIsStack DEF PushInv
<1>4. Rest("Rebased")' /\ ~Failed'
  BY <1>1, <1>2, <1>3, RollbackOnFileRests
<1>5. RecordInv("Rebased")'
  BY <1>4, RestIsInv
<1>6. Calling'
  BY DEF Calling, Local, Rollback
<1> QED BY <1>2, <1>5, <1>6, RecordedOutside

-------------------------------------------------------------------------------
(***************************************************************************)
(* Falling back on a file that holds a pull.                               *)
(***************************************************************************)

(* What there is to show while changesets are merged, and while Txns are   *)
(* rebased.                                                                *)
LEMMA MergingIsRecorded ==
    ASSUME RowsInFile', FileRecord', conf'.stage = "Merging", job'.op = "None",
           ~creating'.active, ~creating'.uploaded, ~Failed', reversed' = <<>>,
           db' = hub'[parent']
    PROVE  PullRecordInv'
  BY DEF PullRecordInv, CallRecord, PullingRecord, ReversalRecord, MergeRecord, LoopRecord,
         Calling, Local

LEMMA RebasingIsRecorded ==
    ASSUME RowsInFile', FileRecord', conf'.stage = "Rebasing", job'.op = "None",
           ~creating'.active, ~creating'.uploaded, ~Failed', reversed' = <<>>, LoopRecord'
    PROVE  PullRecordInv'
  BY DEF PullRecordInv, CallRecord, PullingRecord, ReversalRecord, MergeRecord,
         Calling, Local

(* The file a merge leaves: no Txn is live.                                *)
LEMMA MergedFileIsRecorded ==
    ASSUME PullInv', disk'.conf.stage = "Merging", disk'.db = hub'[disk'.parent]
    PROVE  FileRecord'
<1>1. hub'[disk'.parent] \in States /\ IsFiniteTable(disk'.txns)
  BY ElementOfSeq DEF PullInv, PullTypeInv, TypeInv, DiskOK, HubOK, Versions
<1>2. \A i \in DOMAIN disk'.txns : disk'.txns[i].deleted
  BY DEF PullInv, StageInv, FileStage, AllReversed
<1>3. DiskRecorded'
  BY <1>1, <1>2, AllReversedLeadsNowhere DEF DiskRecorded
<1>4. DOMAIN WithoutReversed(disk'.txns) = {}
  BY <1>1, <1>2, WithoutReversedRows
<1>5. Chained(WithoutReversed(disk'.txns), hub'[disk'.parent])
  BY <1>4 DEF Chained
<1> QED BY <1>3, <1>5 DEF FileRecord, Calling, Local

(* A rollback to it, or a crash.                                           *)
LEMMA FallenBackIsRecorded ==
    ASSUME PullInv, PullInv', PullRecordInv, RowsInFile', disk.conf.stage # "None",
           Rollback, UNCHANGED <<disk, hub>>, job'.op = "None",
           ~creating'.active, ~creating'.uploaded, reversed' = <<>>,
           disk.conf.stage = "Rebasing" => NotAfterCurr(disk.txns)'
    PROVE  PullRecordInv'
<1>1. /\ db' = disk.db /\ txns' = disk.txns /\ parent' = disk.parent /\ conf' = disk.conf
      /\ DOMAIN tracked' = {} /\ ~Failed'
  BY EmptyMapIsEmpty DEF Rollback, Failed
<1>2. DiskRecorded /\ Chained(WithoutReversed(disk.txns), hub[disk.parent])
  BY DEF PullRecordInv, FileRecord
<1>3. FileRecord'
  BY <1>2 DEF FileRecord, DiskRecorded
<1>4. CASE disk.conf.stage = "Merging"
  <2>1. \A i \in DOMAIN disk.txns : disk.txns[i].deleted
    BY <1>4 DEF PullInv, StageInv, FileStage, AllReversed
  <2>2. disk.db = hub[disk.parent]
    BY <1>2, <2>1, ParentsAreStates, AllReversedLeadsNowhere DEF DiskRecorded, PullInv
  <2> QED BY <1>1, <1>3, <1>4, <2>2, MergingIsRecorded
<1>5. CASE disk.conf.stage = "Rebasing"
  <2>1. BeforeEdits' = db'
    BY <1>1, NothingTrackedNext DEF PullInv, PullTypeInv
  <2>2. BeforeEditsRecorded'
    BY <1>1, <1>2, <2>1 DEF BeforeEditsRecorded, DiskRecorded
  <2>3. LoopRecord'
    BY <1>1, <1>2, <1>5, <2>2 DEF LoopRecord, NotAfterCurr
  <2> QED BY <1>1, <1>3, <1>5, <2>3, RebasingIsRecorded
<1>6. disk.conf.stage \in Stages
  BY DEF PullInv, PullTypeInv, TypeInv, DiskOK, Confs
<1> QED BY <1>4, <1>5, <1>6 DEF Stages

(* A pull that fails or is abandoned, wherever it has got to.              *)
LEMMA RollbackIsRecorded ==
    ASSUME PullInv, PullInv', PullRecordInv, RowsInFile', ~Calling,
           Rollback, UNCHANGED <<disk, txnVars, creating, hub>>, job'.op = "None"
    PROVE  PullRecordInv'
<1>1. CASE disk.conf.stage = "None"
  BY <1>1, PullUndoneIsRecorded
<1>2. CASE disk.conf.stage # "None"
  <2>1. disk.conf.stage = "Rebasing" => NotAfterCurr(disk.txns)'
    BY DEF PullRecordInv, FileRecord, NotAfterCurr
  <2> QED BY <1>2, <2>1, FallenBackIsRecorded DEF PullRecordInv, PullingRecord
<1> QED BY <1>1, <1>2

(* A new session follows the live Txns.                                    *)
LEMMA NewSessionIsAfter ==
    ASSUME NEW table, IsFiniteTable(table), curr' \in NewSessions(table)
    PROVE  NotAfterCurr(table)'
<1>1. AllBefore(table, curr')
  BY NewSessionIsPast
<1>2. curr' \in TxnIds /\ DOMAIN table \subseteq TxnIds
  BY NewSessionIsId DEF IsFiniteTable, IsTable
<1> QED BY <1>1, <1>2, BeforeIsTotal DEF AllBefore, NotAfterCurr

(* A crash, outside a pull or in one.                                      *)
LEMMA CrashIsRecorded ==
    ASSUME PullInv, PullInv', PullRecordInv, RowsInFile', Crash
    PROVE  PullRecordInv'
<1>1. TypeInv /\ TypeInv' /\ ParentsOK /\ IsFiniteTable(disk.txns)
  BY ParentsAreStates DEF PullInv, PullTypeInv
<1>2. /\ Rollback /\ UNCHANGED <<disk, hub>> /\ job'.op = "None" /\ reversed' = <<>>
      /\ ~creating'.active /\ ~creating'.uploaded /\ curr' \in NewSessions(disk.txns)
  BY DEF Crash, Idle, NotCreating
<1>3. CASE Calling
  <2>1. PICK past \in {"Whole", "Rebased"} : RecordInv(past)
    BY <1>3 DEF PullRecordInv, CallRecord, CallsRecorded
  <2>2. RecordInv(past)'
    BY <1>1, <2>1, CrashKeepsRecordInv
  <2>3. Calling'
    BY <1>2, <1>3 DEF Calling, Local, Rollback
  <2> QED BY <1>1, <2>2, <2>3, RecordedOutside
<1>4. CASE ~Calling /\ disk.conf.stage = "None"
  <2>1. FileInv("Rebased") /\ Deleting
    BY <1>4, PullDeletesNothing DEF PullRecordInv, FileRecord, Deleting
  <2>2. RecordInv("Rebased")'
    BY <1>1, <2>1, CrashFallsOnFile
  <2>3. Calling'
    BY <1>2, <1>4 DEF Calling, Local, Rollback
  <2> QED BY <1>1, <2>2, <2>3, RecordedOutside
<1>5. CASE disk.conf.stage # "None"
  <2>1. NotAfterCurr(disk.txns)'
    BY <1>1, <1>2, NewSessionIsAfter DEF NotAfterCurr
  <2> QED BY <1>2, <1>5, <2>1, FallenBackIsRecorded
<1> QED BY <1>3, <1>4, <1>5

-------------------------------------------------------------------------------
(***************************************************************************)
(* Merging.                                                                *)
(***************************************************************************)

(* Calls that leave everything alone but what only the client sees.        *)
LEMMA UnchangedIsRecorded ==
    ASSUME PullRecordInv, ~Calling,
           UNCHANGED <<fileVars, disk, curr, reversed, editVars, creating, job, hub, driver>>
    PROVE  PullRecordInv'
<1>1. RowsInFile' /\ MergeRecord' /\ ~Calling'
  BY DEF PullRecordInv, RowsInFile, MergeRecord, Calling, Local
<1>2. FileRecord'
  BY DEF PullRecordInv, FileRecord, DiskRecorded, FileInv, Calling, Local, NotAfterCurr
<1>3. PullingRecord' /\ ReversalRecord'
  BY DEF PullRecordInv, PullingRecord, ReversalRecord, Calling, Local, IsAt, Failed
<1>4. LoopRecord'
  BY DEF PullRecordInv, LoopRecord, BeforeEditsRecorded, BeforeEdits, Original, NotAfterCurr
<1> QED BY <1>1, <1>2, <1>3, <1>4 DEF PullRecordInv, CallRecord

(* The session is restarted in the middle of a pull.                       *)
LEMMA RestartFileIsRecorded ==
    ASSUME PullInv, PullRecordInv, conf.stage # "None",
           job.op = "None", UNCHANGED <<conf, disk, creating, job, hub>>, reversed' = <<>>,
           NEW table, IsFiniteTable(table), curr' \in NewSessions(table),
           disk.conf.stage = "Rebasing" => table = disk.txns
    PROVE  FileRecord'
<1>1. DiskRecorded' /\ Chained(WithoutReversed(disk'.txns), hub'[disk'.parent])
  BY DEF PullRecordInv, FileRecord, DiskRecorded
<1>2. ASSUME disk.conf.stage = "None" PROVE FileInv("Rebased")'
  <2>1. FileInv("Rebased") /\ Sound(disk.txns, hub[disk.parent], curr, reversed, "Rebased")
    BY <1>2 DEF PullRecordInv, FileRecord, FileInv, Calling, Local
  <2>2. Sound(disk.txns, hub[disk.parent], curr', <<>>, "Rebased")
    BY <2>1, NewSessionIsStart, NewSessionIsSound DEF Sound
  <2> QED BY <1>1, <2>1, <2>2 DEF FileInv
<1>3. disk.conf.stage = "Rebasing" => NotAfterCurr(disk.txns)'
  BY NewSessionIsAfter DEF NotAfterCurr
<1> QED BY <1>1, <1>2, <1>3 DEF FileRecord

(* A pull that is discarded, wherever it has got to.                       *)
LEMMA DiscardInPullIsRecorded ==
    ASSUME NoMishap, PullInv, PullInv', PullRecordInv, RowsInFile', conf.stage # "None",
           DiscardLocalChanges
    PROVE  PullRecordInv'
<1>1. ~Calling /\ ~creating.active /\ ~creating.uploaded
  BY DEF Calling, Local, PullRecordInv, PullingRecord
<1>2. /\ db' = disk.db /\ parent' = disk.parent /\ txns' = WithoutReversed(disk.txns)
      /\ reversed' = <<>> /\ DOMAIN tracked' = {} /\ ~Failed'
      /\ job'.op = "Discard" /\ job'.at = <<curr[1] + 1, 0>>
      /\ UNCHANGED <<disk, curr, creating, hub>> /\ conf'.stage # "Rebasing"
  <2>1. disk.conf \in Confs
    BY DEF PullInv, PullTypeInv, TypeInv, DiskOK
  <2> QED BY <2>1, EmptyMapIsEmpty DEF DiscardLocalChanges, Failed, Idle, Confs
<1>3. CASE disk.conf.stage = "None"
  <2>1. conf.stage = "Merging" /\ Freed(disk.txns, curr)
    <3>1. conf.stage \in Stages
      BY DEF PullInv, PullTypeInv, TypeInv, FileOK, Confs
    <3>2. conf.stage # "Rebasing"
      BY <1>3 DEF PullInv, StageInv, WorkStage
    <3> QED BY <1>3, <3>1, <3>2 DEF Stages, PullInv, StageInv, IdStage
  <2>2. FileInv("Rebased") /\ PushInv("Rebased") /\ ParentsOK /\ KeepsPushed
    BY <1>1, <1>3, ParentsAreStates, NoMishapIsCareful
       DEF PullRecordInv, FileRecord, PushInv, PullInv
  <2>3. TypeInv /\ TypeInv'
    BY DEF PullInv, PullTypeInv
  <2>4. RecordInv("Rebased")'
    BY <2>1, <2>2, <2>3, DiscardBeginsOnFile
  <2>5. Calling'
    BY <1>2, <1>3 DEF Calling, Local, DiscardLocalChanges
  <2> QED BY <2>3, <2>4, <2>5, RecordedOutside
<1>4. CASE disk.conf.stage # "None"
  <2>1. IsFiniteTable(disk.txns) /\ curr \in TxnIds
    BY ParentsAreStates DEF PullInv, PullTypeInv, TypeInv, SessionOK
  <2>2. \A i \in DOMAIN txns' : Before(i, job'.at) /\ ~txns'[i].deleted
    <3> SUFFICES ASSUME NEW i \in DOMAIN txns' PROVE Before(i, job'.at) /\ ~txns'[i].deleted
      OBVIOUS
    <3>1. i \in DOMAIN disk.txns /\ ~disk.txns[i].deleted /\ ~txns'[i].deleted
      <4>1. /\ DOMAIN WithoutReversed(disk.txns) = {r \in DOMAIN disk.txns : ~disk.txns[r].deleted}
            /\ \A r \in DOMAIN WithoutReversed(disk.txns) :
                  WithoutReversed(disk.txns)[r] = disk.txns[r]
        BY <2>1, WithoutReversedRows
      <4>2. txns' = WithoutReversed(disk.txns)
        BY <1>2
      <4> QED BY <4>1, <4>2
    <3>2. disk.conf.stage = "Rebasing"
      <4>1. disk.conf.stage \in Stages /\ disk.conf.stage # "Merging"
        BY <3>1 DEF PullInv, StageInv, FileStage, AllReversed, PullTypeInv, TypeInv, DiskOK, Confs
      <4> QED BY <1>4, <4>1 DEF Stages
    <3>3. ~Before(curr, i) /\ i \in TxnIds
      BY <2>1, <3>1, <3>2 DEF PullRecordInv, FileRecord, NotAfterCurr, IsFiniteTable, IsTable
    <3>4. Before(i, <<curr[1] + 1, 0>>)
      BY <2>1, <3>3 DEF Before, TxnIds
    <3> QED BY <1>2, <3>1, <3>4
  <2>3. Chained(txns', hub'[parent']) /\ db' = Replay(txns', hub'[parent'])
    BY <1>2 DEF PullRecordInv, FileRecord, DiskRecorded
  <2>4. db' = StateAt(txns', hub'[parent'], job'.at) /\ CutAt(txns', job'.at)
    BY <2>2, <2>3, ReplayIsStateAt DEF CutAt
  <2>5. IsAt(job.at)'
    BY <1>2, <2>4 DEF IsAt
  <2>6. FileRecord'
    BY <1>1, <1>2, FileStaysRecorded
  <2>7. ~Local'
    BY <1>2, <1>4 DEF Local
  <2> QED BY <1>1, <1>2, <2>3, <2>5, <2>6, <2>7, ReversalIsRecorded
<1> QED BY <1>3, <1>4

(* The Txns of a pull that is being discarded.                             *)
LEMMA DiscardingIsRecorded ==
    ASSUME NoMishap, PullInv, PullInv', PullRecordInv, RowsInFile', job.op = "Discard", ~Local,
           driver = "Out", UNCHANGED driver, [Next]_vars
    PROVE  PullRecordInv'
<1>1. ~Calling /\ TypeInv /\ TypeInv'
  BY DEF Calling, PullInv, PullTypeInv
<1>2. CASE Crash
  BY <1>2, CrashIsRecorded
<1>3. CASE UNCHANGED vars
  BY <1>1, <1>3, UnchangedIsRecorded
<1>4. CASE DiscardStep
  BY <1>4, ReversalStepIsRecorded DEF DiscardStep, Reversal
<1>5. CASE DiscardFails
  <2>1. Rollback /\ job'.op = "None" /\ UNCHANGED <<disk, txnVars, creating, hub>>
    BY <1>5 DEF DiscardFails, Idle
  <2> QED BY <1>1, <2>1, RollbackIsRecorded
<1>6. CASE DiscardReversed
  <2>1. Chained(txns, hub[parent]) /\ IsAt(job.at) /\ ~Failed /\ reversed = <<>>
        /\ ~creating.active /\ ~creating.uploaded
    BY <1>1 DEF PullRecordInv, ReversalRecord, PullingRecord
  <2>2. PushInv("Rebased") /\ ParentsOK
    BY <2>1, ParentsAreStates DEF PushInv, PullInv
  <2>3. OpenInv("Rebased")
    BY <2>1 DEF OpenInv, Packaged, Complete
  <2>4. RecordInv("Rebased")'
    BY <1>1, <1>6, <2>1, <2>2, <2>3, DiscardReversedRecords
  <2>5. Calling'
    BY <1>6 DEF Calling, Local, DiscardReversed, Persist, NoConf, Idle
  <2> QED BY <1>1, <2>4, <2>5, RecordedOutside
<1> QED BY <1>2, <1>3, <1>4, <1>5, <1>6, StepsOfCalls

(* The calls of TxnManager while changesets are merged.                    *)
LEMMA MergingCallIsRecorded ==
    ASSUME NoMishap, PullInv, PullInv', PullRecordInv, RowsInFile',
           conf.stage = "Merging", job.op = "None", LocalCall
    PROVE  PullRecordInv'
<1>1. ~Calling /\ TypeInv /\ TypeInv' /\ ~HasChanges /\ disk.conf.stage # "Rebasing"
      /\ driver = "Out" /\ UNCHANGED driver
  BY DEF Calling, Local, PullInv, PullTypeInv, StageInv, WorkStage, LocalCall
<1>2. ~creating.active /\ ~creating.uploaded /\ ~Failed /\ reversed = <<>> /\ db = hub[parent]
  BY <1>1 DEF PullRecordInv, PullingRecord, MergeRecord
<1>3. CASE SaveChanges
  <2>1. NothingToSave /\ ~Rebasing
    BY <1>1, NoChangesNothingToSave DEF Rebasing
  <2>2. SaveUntracked(txns, parent, FALSE) /\ UNCHANGED <<creating, job, hub>>
    BY <1>3, <2>1 DEF SaveChanges, SaveTracked, SaveFails, SaveRefused
  <2>3. /\ UNCHANGED <<db, txns, parent, conf, curr, reversed>> /\ ~Failed'
        /\ disk'.conf = conf /\ disk'.db = db /\ disk'.parent = parent
    BY <2>2 DEF SaveUntracked, SettleSession, Persist, Failed
  <2>4. FileRecord'
    BY <1>2, <2>2, <2>3, MergedFileIsRecorded
  <2> QED BY <1>2, <2>2, <2>3, <2>4, MergingIsRecorded
<1>4. CASE AbandonChanges
  <2>1. Rollback /\ UNCHANGED <<disk, txnVars, creating, hub>> /\ job'.op = "None"
    BY <1>4 DEF AbandonChanges
  <2> QED BY <1>1, <2>1, RollbackIsRecorded
<1>5. CASE RestartTxnSession
  <2>1. /\ curr' \in NewSessions(txns) /\ reversed' = <<>>
        /\ UNCHANGED <<fileVars, disk, editVars, creating, job, hub>>
    BY <1>5 DEF RestartTxnSession
  <2>2. IsFiniteTable(txns)
    BY <1>1 DEF TypeInv, FileOK
  <2>3. FileRecord'
    BY <1>1, <2>1, <2>2, RestartFileIsRecorded
  <2> QED BY <1>2, <2>1, <2>3, MergingIsRecorded DEF Failed
<1>6. CASE BeginMultiTxnOperation \/ EndMultiTxnOperation \/ UNCHANGED vars
  <2>1. UNCHANGED <<fileVars, disk, curr, reversed, editVars, creating, job, hub, driver>>
    BY <1>1, <1>6 DEF BeginMultiTxnOperation, EndMultiTxnOperation
  <2> QED BY <1>1, <2>1, UnchangedIsRecorded
<1>7. CASE Upload \/ StopCreateChangeset
  BY <1>2, <1>7 DEF Upload, StopCreateChangeset
<1>8. CASE DiscardLocalChanges
  BY <1>8, DiscardInPullIsRecorded
<1>9. CASE Crash
  BY <1>9, CrashIsRecorded
<1> QED BY <1>3, <1>4, <1>5, <1>6, <1>7, <1>8, <1>9, NoMishapIsCareful, LocalCallIsStep,
           StepsInPull

-------------------------------------------------------------------------------
(***************************************************************************)
(* Rebasing.                                                               *)
(***************************************************************************)

(* A COMMIT in the rebase loop.                                            *)
LEMMA LoopCommitIsRecorded ==
    ASSUME PullTypeInv', LoopRecord', conf'.stage = "Rebasing", driver' # "Failed",
           DOMAIN tracked' = {},
           disk'.db = db', disk'.txns = txns', disk'.parent = parent', disk'.conf = conf'
    PROVE  FileRecord'
<1>1. BeforeEdits' = db'
  BY NothingTrackedNext DEF PullTypeInv
<1>2. DiskRecorded' /\ Chained(WithoutReversed(disk'.txns), hub'[disk'.parent])
  BY <1>1 DEF LoopRecord, BeforeEditsRecorded, DiskRecorded
<1>3. NotAfterCurr(disk.txns)'
  BY DEF LoopRecord, NotAfterCurr
<1> QED BY <1>2, <1>3 DEF FileRecord

(* The calls of TxnManager while the rebase loop is not running.           *)
LEMMA RebasingCallIsRecorded ==
    ASSUME NoMishap, PullInv, PullInv', PullRecordInv, RowsInFile',
           conf.stage = "Rebasing", LocalCall
    PROVE  PullRecordInv'
<1>1. /\ ~Calling /\ TypeInv /\ TypeInv' /\ PullTypeInv' /\ job.op = "None"
      /\ disk.conf = conf /\ txns = disk.txns /\ driver = "Out" /\ UNCHANGED driver
  BY DEF Calling, Local, PullInv, PullTypeInv, StageInv, WorkStage, LoopStage, LocalCall
<1>2. /\ ~creating.active /\ ~creating.uploaded /\ ~Failed /\ reversed = <<>>
      /\ BeforeEditsRecorded /\ Chained(WithoutReversed(txns), hub[parent])
      /\ NotAfterCurr(txns)
  BY <1>1 DEF PullRecordInv, PullingRecord, LoopRecord
<1>3. ASSUME BeforeEdits' = BeforeEdits, lastSave' # "PropagateChangesFailed",
             UNCHANGED <<txns, conf, parent, disk, curr, reversed, creating, job, hub>>
      PROVE  PullRecordInv'
  <2>1. LoopRecord' /\ ~Failed'
    BY <1>1, <1>2, <1>3 DEF LoopRecord, BeforeEditsRecorded, NotAfterCurr, Failed
  <2>2. FileRecord'
    BY <1>1, <1>2, <1>3, FileStaysRecorded
  <2> QED BY <1>1, <1>2, <1>3, <2>1, <2>2, RebasingIsRecorded
<1>4. CASE EditNext
  <2>1. PICK key \in Keys, value \in Values : Edit(key, value)
    BY <1>4 DEF EditNext
  <2>2. UNCHANGED <<txns, conf, parent, disk, curr, reversed, lastSave, creating, job, hub>>
    BY <2>1 DEF Edit
  <2> QED BY <1>1, <1>2, <1>3, <2>1, <2>2, EditKeepsBeforeEdits DEF Failed
<1>5. CASE EditDdl \/ (SaveRefused /\ UNCHANGED <<creating, job, hub>>)
  <2>1. /\ UNCHANGED <<fileVars, tracked, disk, curr, reversed, creating, job, hub>>
        /\ UNCHANGED lastSave \/ lastSave' = "RebaseInProgress"
    BY <1>5 DEF EditDdl, SaveRefused
  <2>2. BeforeEdits' = BeforeEdits
    BY <2>1 DEF BeforeEdits, Original
  <2> QED BY <1>2, <1>3, <2>1, <2>2 DEF Failed
<1>6. CASE SaveUntracked(txns, parent, FALSE) /\ UNCHANGED <<creating, job, hub>>
  <2>1. /\ UNCHANGED <<db, txns, parent, conf, curr, reversed, creating, job, hub>> /\ ~Failed'
        /\ DOMAIN tracked' = {} /\ disk'.db = db' /\ disk'.txns = txns'
        /\ disk'.parent = parent' /\ disk'.conf = conf' /\ NothingToSave
    BY <1>6, EmptyMapIsEmpty DEF SaveUntracked, SettleSession, Persist, Failed
  <2>2. BeforeEdits' = BeforeEdits
    BY <1>1, <2>1, NothingToSaveIsRecorded, NothingTrackedNext
  <2>3. LoopRecord'
    BY <1>1, <1>2, <2>1, <2>2 DEF LoopRecord, BeforeEditsRecorded, NotAfterCurr
  <2>4. FileRecord'
    BY <1>1, <2>1, <2>3, LoopCommitIsRecorded
  <2> QED BY <1>1, <1>2, <2>1, <2>3, <2>4, RebasingIsRecorded
<1>7. CASE AbandonChanges
  <2>1. Rollback /\ UNCHANGED <<disk, txnVars, creating, hub>> /\ job'.op = "None"
    BY <1>7 DEF AbandonChanges
  <2> QED BY <1>1, <2>1, RollbackIsRecorded
<1>8. CASE RestartTxnSession
  <2>1. /\ curr' \in NewSessions(txns) /\ reversed' = <<>>
        /\ UNCHANGED <<fileVars, disk, editVars, creating, job, hub>>
    BY <1>8 DEF RestartTxnSession
  <2>2. IsFiniteTable(txns)
    BY <1>1 DEF TypeInv, FileOK
  <2>3. FileRecord'
    BY <1>1, <2>1, <2>2, RestartFileIsRecorded
  <2>4. NotAfterCurr(txns)'
    BY <2>1, <2>2, NewSessionIsAfter DEF NotAfterCurr
  <2>5. LoopRecord'
    BY <1>1, <1>2, <2>1, <2>4 DEF LoopRecord, BeforeEditsRecorded, BeforeEdits, Original
  <2> QED BY <1>1, <1>2, <2>1, <2>3, <2>5, RebasingIsRecorded DEF Failed
<1>9. CASE BeginMultiTxnOperation \/ EndMultiTxnOperation \/ UNCHANGED vars
  <2>1. UNCHANGED <<fileVars, disk, curr, reversed, editVars, creating, job, hub, driver>>
    BY <1>1, <1>9 DEF BeginMultiTxnOperation, EndMultiTxnOperation
  <2> QED BY <1>1, <2>1, UnchangedIsRecorded
<1>10. CASE Upload \/ StopCreateChangeset
  BY <1>2, <1>10 DEF Upload, StopCreateChangeset
<1>11. CASE DiscardLocalChanges
  BY <1>11, DiscardInPullIsRecorded
<1>12. CASE Crash
  BY <1>12, CrashIsRecorded
<1>13. SaveChanges => \/ SaveUntracked(txns, parent, FALSE) /\ UNCHANGED <<creating, job, hub>>
                      \/ SaveRefused /\ UNCHANGED <<creating, job, hub>>
  BY DEF SaveChanges, SaveTracked, SaveFails, Rebasing
<1>14. \/ EditNext \/ EditDdl \/ SaveChanges \/ AbandonChanges \/ RestartTxnSession
       \/ BeginMultiTxnOperation \/ EndMultiTxnOperation \/ Upload \/ StopCreateChangeset
       \/ DiscardLocalChanges \/ Crash \/ UNCHANGED vars
  BY <1>1, NoMishapIsCareful, LocalCallIsStep, StepsInPull
<1> QED BY <1>4, <1>5, <1>6, <1>7, <1>8, <1>9, <1>10, <1>11, <1>12, <1>13, <1>14

-------------------------------------------------------------------------------
(***************************************************************************)
(* What another briefcase pushes.                                          *)
(***************************************************************************)

(* The hub keeps the versions it had.                                      *)
KeepsVersions ==
    /\ Len(hub) \in Nat /\ Len(hub') \in Nat /\ Len(hub) <= Len(hub')
    /\ \A n \in 1..Len(hub) : hub'[n] = hub[n]

LEMMA OtherPushesKeepsVersions ==
    ASSUME TypeInv, TypeInv', OtherPushes
    PROVE  KeepsVersions
<1>1. PICK key \in Keys, value \in Values :
          hub' = Append(hub, [hub[Len(hub)] EXCEPT ![key] = value])
  BY DEF OtherPushes
<1> DEFINE version == [hub[Len(hub)] EXCEPT ![key] = value]
<1>2. hub' = Append(hub, version) /\ hub \in Seq(States) /\ hub' \in Seq(States)
  BY <1>1 DEF TypeInv, HubOK
<1> HIDE DEF version
<1>3. Len(hub') = Len(hub) + 1 /\ Len(hub) \in Nat
  <2>1. \A n \in 1..Len(hub') : hub'[n] \in States
    BY <1>2, ElementOfSeq
  <2> QED BY <1>2, <2>1, LenProperties
<1>4. \A n \in 1..Len(hub) : hub'[n] = hub[n]
  BY <1>2, <1>3
<1> QED BY <1>3, <1>4 DEF KeepsVersions

(* A push of this briefcase is about versions that the hub keeps.          *)
LEMMA PackagedOnGrownHub ==
    ASSUME NEW table, Packaged(table, creating, hub), KeepsVersions,
           creating.active => creating.parent \in 1..Len(hub),
           creating.active /\ creating.uploaded => creating.parent + 1 \in 1..Len(hub)
    PROVE  Packaged(table, creating, hub')
  BY DEF Packaged, KeepsVersions

LEMMA OtherPushKeepsRecordInv ==
    ASSUME NEW past, TypeInv, RecordInv(past), job.op = "None", KeepsVersions,
           UNCHANGED <<fileVars, disk, txnVars, editVars, creating, job>>
    PROVE  RecordInv(past)'
<1>1. ParentsOK' /\ hub'[parent] = hub[parent] /\ hub'[disk.parent] = hub[disk.parent]
  BY DEF RecordInv, ParentsOK, KeepsVersions
<1>2. /\ creating.active => creating.parent \in 1..Len(hub)
      /\ creating.active /\ creating.uploaded => creating.parent + 1 \in 1..Len(hub)
  BY DEF RecordInv, PushInv, ParentsOK
<1>3. FileInv(past)'
  BY <1>1, <1>2, PackagedOnGrownHub DEF RecordInv, FileInv, DiskRecorded
<1>4. Failed' = Failed /\ BeforeEdits' = BeforeEdits
  BY DEF Failed, BeforeEdits, Original
<1>5. OpenInv(past)'
  BY <1>1, <1>2, <1>4, PackagedOnGrownHub DEF RecordInv, OpenInv
<1>6. Resting(past)'
  BY <1>1, <1>4 DEF RecordInv, Resting, BeforeEditsRecorded
<1>7. PushInv(past)'
  BY DEF RecordInv, PushInv, KeepsVersions
<1>8. IsStack(reversed', curr') /\ FailedHasNoRedo'
  BY <1>4 DEF RecordInv, FailedHasNoRedo
<1>9. Reversing(past)' /\ Reinstating' /\ Discarding' /\ Deleting'
  BY DEF Reversing, Reinstating, Discarding, Deleting
<1> QED BY <1>1, <1>3, <1>5, <1>6, <1>7, <1>8, <1>9 DEF RecordInv

(* Outside a pull or in one.                                               *)
LEMMA OtherPushIsRecorded ==
    ASSUME PullInv, PullInv', PullRecordInv, RowsInFile', OtherPushes, UNCHANGED driver
    PROVE  PullRecordInv'
<1>1. /\ TypeInv /\ TypeInv' /\ KeepsVersions /\ job.op = "None"
      /\ UNCHANGED <<fileVars, disk, txnVars, editVars, creating, job, driver>>
  BY OtherPushesKeepsVersions DEF PullInv, PullTypeInv, OtherPushes
<1>2. hub'[parent] = hub[parent] /\ hub'[disk.parent] = hub[disk.parent]
  BY <1>1 DEF PullInv, PullTypeInv, Versions, KeepsVersions
<1>3. CASE Calling
  <2>1. PICK past \in {"Whole", "Rebased"} : RecordInv(past)
    BY <1>3 DEF PullRecordInv, CallRecord, CallsRecorded
  <2>2. RecordInv(past)'
    BY <1>1, <2>1, OtherPushKeepsRecordInv
  <2>3. Calling'
    BY <1>1, <1>3 DEF Calling, Local
  <2> QED BY <1>1, <2>2, <2>3, RecordedOutside
<1>4. CASE ~Calling
  <2>1. ~creating.active /\ ~creating.uploaded /\ ~Calling'
    BY <1>1, <1>4 DEF PullRecordInv, PullingRecord, Calling, Local
  <2>2. ~Failed' /\ reversed' = <<>> /\ PullingRecord' /\ CallRecord'
    BY <1>1, <1>4, <2>1 DEF PullRecordInv, PullingRecord, CallRecord, Failed
  <2>3. FileRecord'
    BY <1>1, <1>2, <1>4, <2>1
       DEF PullRecordInv, FileRecord, DiskRecorded, FileInv, Packaged, NotAfterCurr
  <2>4. ReversalRecord' /\ MergeRecord'
    BY <1>1, <1>2 DEF PullRecordInv, ReversalRecord, MergeRecord
  <2>5. BeforeEdits' = BeforeEdits
    BY <1>1 DEF BeforeEdits, Original
  <2>6. LoopRecord'
    BY <1>1, <1>2, <2>5 DEF PullRecordInv, LoopRecord, BeforeEditsRecorded, NotAfterCurr
  <2> QED BY <2>2, <2>3, <2>4, <2>6 DEF PullRecordInv
<1> QED BY <1>3, <1>4

-------------------------------------------------------------------------------
(***************************************************************************)
(* Applying and reversing changesets.                                      *)
(***************************************************************************)

(* Txns that touch nothing two versions differ in follow on from either.   *)
Untouched(table, from, to) ==
    \A i \in DOMAIN table : DOMAIN table[i].change \cap DOMAIN Difference(from, to) = {}

LEMMA UntouchedLeadAlike ==
    ASSUME NEW table, NEW from, NEW to, Untouched(table, from, to)
    PROVE  /\ \A id : \A k \in Keys :
                 StateAt(table, to, id)[k] =
                     IF k \in DOMAIN Difference(from, to) THEN to[k]
                     ELSE StateAt(table, from, id)[k]
           /\ \A k \in Keys :
                 Replay(table, to)[k] =
                     IF k \in DOMAIN Difference(from, to) THEN to[k] ELSE Replay(table, from)[k]
           /\ \A k \in DOMAIN Difference(from, to) : Replay(table, from)[k] = from[k]
<1>1. \A k \in DOMAIN Difference(from, to) : k \in Keys /\ Writers(table, k) = {}
  BY DEF Untouched, Writers, Difference
<1>2. \A k \in Keys : k \notin DOMAIN Difference(from, to) => to[k] = from[k]
  BY DEF Difference
<1>3. ASSUME NEW k \in Keys, NEW S \in SUBSET Writers(table, k)
      PROVE  /\ k \in DOMAIN Difference(from, to) => /\ ValueFrom(table, S, to, k) = to[k]
                                                     /\ ValueFrom(table, S, from, k) = from[k]
             /\ k \notin DOMAIN Difference(from, to) =>
                    ValueFrom(table, S, to, k) = ValueFrom(table, S, from, k)
  <2>1. CASE k \in DOMAIN Difference(from, to)
    <3>1. S = {}
      BY <1>1, <1>3, <2>1
    <3> QED BY <2>1, <3>1 DEF ValueFrom
  <2>2. CASE k \notin DOMAIN Difference(from, to)
    BY <1>2, <2>2 DEF ValueFrom
  <2> QED BY <2>1, <2>2
<1>4. \A k \in Keys : \A id : {i \in Writers(table, k) : Before(i, id)} \in SUBSET Writers(table, k)
  OBVIOUS
<1>5. \A id : \A k \in Keys :
          StateAt(table, to, id)[k] = IF k \in DOMAIN Difference(from, to) THEN to[k]
                                      ELSE StateAt(table, from, id)[k]
  BY <1>3, <1>4 DEF StateAt
<1>6. \A k \in Keys :
          /\ Replay(table, to)[k] = IF k \in DOMAIN Difference(from, to) THEN to[k]
                                    ELSE Replay(table, from)[k]
          /\ k \in DOMAIN Difference(from, to) => Replay(table, from)[k] = from[k]
  BY <1>3 DEF Replay
<1> QED BY <1>1, <1>5, <1>6

LEMMA UntouchedStayChained ==
    ASSUME NEW table, IsFiniteTable(table), NEW from, NEW to, Untouched(table, from, to),
           Chained(table, from)
    PROVE  Chained(table, to)
<1> SUFFICES ASSUME NEW id \in DOMAIN table, NEW key \in DOMAIN table[id].change
             PROVE  table[id].change[key].old = StateAt(table, to, id)[key]
  BY DEF Chained
<1>1. key \in Keys
  BY DEF IsFiniteTable, IsTable, Rows, Changes
<1>2. key \notin DOMAIN Difference(from, to)
  BY DEF Untouched
<1> QED BY <1>1, <1>2, UntouchedLeadAlike DEF Chained

(* A merge that finds every row as it expects it leads to the next version. *)
LEMMA MergeWithoutConflict ==
    ASSUME NEW change, NEW replaced, Conflicts(change) = {}
    PROVE  Merged(change, replaced)
               = [k \in Keys |-> IF k \in DOMAIN change THEN change[k].new ELSE db[k]]
  BY DEF Merged

LEMMA NoConflictOnVersion ==
    ASSUME NEW from, NEW to, \A k \in DOMAIN Difference(from, to) : db[k] = from[k]
    PROVE  Conflicts(Difference(from, to)) = {}
<1>1. \A k \in DOMAIN Difference(from, to) : Difference(from, to)[k].old = from[k]
  BY DEF Difference
<1> QED BY <1>1 DEF Conflicts

(* In a pull.                                                              *)
LEMMA AppliedInPullIsRecorded ==
    ASSUME PullInv, PullInv', PullRecordInv, RowsInFile', conf.stage = "Merging",
           job.op = "None", NEW version \in 1..Len(hub), NEW fastForward,
           Apply(Difference(hub[parent], hub[version]), fastForward, version), Persist
    PROVE  PullRecordInv'
<1>1. ~Calling
  BY DEF Calling, Local
<1>2. ~creating.active /\ ~creating.uploaded /\ ~Failed /\ reversed = <<>> /\ db = hub[parent]
  BY <1>1 DEF PullRecordInv, PullingRecord, MergeRecord
<1>3. hub[parent] \in States /\ hub[version] \in States
  BY ElementOfSeq, ParentsAreStates DEF PullInv, PullTypeInv, TypeInv, HubOK
<1>4. Conflicts(Difference(hub[parent], hub[version])) = {}
  BY <1>2, NoConflictOnVersion
<1>5. db' = hub[version]
  BY <1>2, <1>3, <1>4, MergeWithoutConflict, DifferenceLeadsThere DEF Apply
<1>6. UNCHANGED <<txns, conf, txnVars, editVars, creating, job, hub>> /\ parent' = version
  BY DEF Apply
<1>7. FileRecord'
  BY <1>5, <1>6, MergedFileIsRecorded DEF Persist
<1> QED BY <1>2, <1>5, <1>6, <1>7, MergingIsRecorded DEF Failed

(* Outside one: no Txn touches what the changeset does.                    *)
LEMMA AppliedOutsideIsRecorded ==
    ASSUME NoMishap, PullInv, PullInv', PullRecordInv, RowsInFile', Calling, MayMerge,
           NEW version \in 1..Len(hub), NEW fastForward,
           Apply(Difference(hub[parent], hub[version]), fastForward, version),
           Persist \/ UNCHANGED disk
    PROVE  PullRecordInv'
<1>1. /\ TypeInv /\ TypeInv' /\ conf.stage = "None" /\ ClientReady
      /\ ~creating.active /\ DOMAIN tracked = {}
  BY DEF PullInv, PullTypeInv, Calling, Local, MayMerge, HasChanges, HasDataChanges
<1>2. Rest("Rebased") /\ job.op = "None" /\ ~Failed
  BY <1>1, NoMishapIsCareful, ReadyIsAtRest DEF PullRecordInv, CallRecord, CallsRecorded
<1>3. hub[parent] \in States /\ hub[version] \in States /\ IsFiniteTable(txns)
  BY ElementOfSeq, ParentsAreStates DEF PullInv, PullTypeInv, TypeInv, HubOK
<1>4. Untouched(txns, hub[parent], hub[version])
  <2>1. MayMergeOutsidePull(Difference(hub[parent], hub[version]), fastForward)
    BY <1>1 DEF Apply, InProgress
  <2>2. \A i \in DOMAIN txns :
            DOMAIN txns[i].change \cap DOMAIN Difference(hub[parent], hub[version]) = {}
    BY <2>1 DEF MayMergeOutsidePull, NoMishap, Touched
  <2> QED BY <2>2 DEF Untouched
<1>5. Untouched(WithoutReversed(txns), hub[parent], hub[version])
  <2>1. /\ DOMAIN WithoutReversed(txns) = {i \in DOMAIN txns : ~txns[i].deleted}
        /\ \A i \in DOMAIN WithoutReversed(txns) : WithoutReversed(txns)[i] = txns[i]
    BY <1>3, WithoutReversedRows
  <2> QED BY <1>4, <2>1 DEF Untouched
<1>6. db = Replay(WithoutReversed(txns), hub[parent])
  BY <1>1, <1>2, NothingTracked DEF Rest, BeforeEditsRecorded
<1>7. Conflicts(Difference(hub[parent], hub[version])) = {}
  BY <1>5, <1>6, UntouchedLeadAlike, NoConflictOnVersion
<1>8. /\ UNCHANGED <<txns, conf, txnVars, editVars, creating, job, hub>> /\ parent' = version
      /\ db' = [k \in Keys |-> IF k \in DOMAIN Difference(hub[parent], hub[version])
                               THEN Difference(hub[parent], hub[version])[k].new ELSE db[k]]
  BY <1>7, MergeWithoutConflict DEF Apply
<1>9. db' = Replay(WithoutReversed(txns), hub[version])
  <2>1. \A k \in Keys : db'[k] = Replay(WithoutReversed(txns), hub[version])[k]
    <3> SUFFICES ASSUME NEW k \in Keys
                 PROVE  db'[k] = Replay(WithoutReversed(txns), hub[version])[k]
      OBVIOUS
    <3>1. k \in DOMAIN Difference(hub[parent], hub[version]) =>
              Difference(hub[parent], hub[version])[k].new = hub[version][k]
      BY DEF Difference
    <3> QED BY <1>5, <1>6, <1>8, <3>1, UntouchedLeadAlike
  <2> QED BY <1>8, <2>1 DEF Replay
<1>10. Sound(txns, hub[version], curr, reversed, "Rebased")
  BY <1>2, <1>3, <1>4, UntouchedStayChained DEF Rest, Sound
<1>11. BeforeEditsRecorded' /\ ~Failed'
  <2>1. BeforeEdits' = db'
    BY <1>1, <1>8, NothingTrackedNext
  <2> QED BY <1>2, <1>8, <1>9, <2>1 DEF BeforeEditsRecorded, Failed
<1>12. disk'.conf.stage = "None"
  BY <1>1, <1>8 DEF Persist, Calling, Local
<1>13. Rest("Rebased")'
  <2>1. PushInv("Rebased")' /\ IsStack(reversed, curr)'
    BY <1>1, <1>2, <1>8 DEF Rest, PushInv
  <2>2. /\ ParentsOK' /\ DiskRecorded'
        /\ Sound(disk'.txns, hub[disk'.parent], curr, reversed, "Rebased")
    BY <1>2, <1>8, <1>9, <1>10 DEF Rest, ParentsOK, DiskRecorded, Persist
  <2> QED BY <1>1, <1>8, <1>10, <1>11, <2>1, <2>2 DEF Rest, Packaged
<1>14. RecordInv("Rebased")'
  BY <1>2, <1>8, <1>11, <1>13, RestIsInv
<1>15. Calling'
  BY <1>1, <1>2, <1>8, <1>12 DEF Calling, Local
<1> QED BY <1>1, <1>14, <1>15, RecordedOutside

(* Merging and reversing changesets, and failing to.                       *)
LEMMA MergeIsRecorded ==
    ASSUME NoMishap, PullInv, PullInv', PullRecordInv, RowsInFile',
           (\E fastForward \in BOOLEAN : MergeChangeset(fastForward)) \/ ReverseChangeset
    PROVE  PullRecordInv'
<1>1. PICK version \in Nat, fastForward \in BOOLEAN :
          /\ version \in 1..Len(hub) /\ MayMerge
          /\ Apply(Difference(hub[parent], hub[version]), fastForward, version)
          /\ InProgress => Persist
          /\ Persist \/ UNCHANGED disk
  <2>1. parent \in 1..Len(hub) /\ Len(hub) \in Nat
    BY DEF PullInv, PullTypeInv, Versions, TypeInv, HubOK
  <2>2. CASE \E fastForward \in BOOLEAN : MergeChangeset(fastForward)
    <3>1. parent + 1 \in 1..Len(hub)
      BY <2>1, <2>2 DEF MergeChangeset
    <3> QED BY <2>2, <3>1 DEF MergeChangeset
  <2>3. CASE ReverseChangeset
    <3>1. parent - 1 \in 1..Len(hub)
      BY <2>1, <2>3 DEF ReverseChangeset
    <3>2. /\ MayMerge /\ Persist
          /\ Apply(Difference(hub[parent], hub[parent - 1]), FALSE, parent - 1)
      BY <2>3 DEF ReverseChangeset
    <3>3. parent - 1 \in Nat /\ FALSE \in BOOLEAN
      BY <2>1, <3>1
    <3> QED BY <3>1, <3>2, <3>3
  <2> QED BY <2>2, <2>3
<1>2. job.op = "None"
  BY <1>1 DEF MayMerge, ClientReady
<1>3. CASE conf.stage = "None"
  <2>1. Calling
    BY <1>2, <1>3, CallsApart DEF Calling
  <2> QED BY <1>1, <2>1, AppliedOutsideIsRecorded
<1>4. CASE conf.stage # "None"
  <2>1. conf.stage = "Merging"
    BY <1>1, <1>4 DEF MayMerge, Rebasing, PullInv, PullTypeInv, TypeInv, FileOK, Confs, Stages
  <2> QED BY <1>1, <1>2, <2>1, AppliedInPullIsRecorded DEF InProgress
<1> QED BY <1>3, <1>4

LEMMA MergeFailsIsRecorded ==
    ASSUME PullInv, PullInv', PullRecordInv, RowsInFile', MergeFails
    PROVE  PullRecordInv'
<1>1. /\ Rollback /\ job.op = "None" /\ UNCHANGED <<disk, txnVars, creating, job, hub>>
      /\ TypeInv'
  BY DEF MergeFails, MayMerge, ClientReady, PullInv, PullTypeInv
<1>2. CASE Calling
  <2>1. PICK past \in {"Whole", "Rebased"} : RecordInv(past)
    BY <1>2 DEF PullRecordInv, CallRecord, CallsRecorded
  <2>2. RecordInv(past)'
    BY <1>1, <2>1, RollbackRests, RestIsInv
  <2>3. Calling'
    BY <1>1, <1>2 DEF Calling, Local, Rollback
  <2> QED BY <1>1, <2>2, <2>3, RecordedOutside
<1> QED BY <1>1, <1>2, RollbackIsRecorded

(* The calls of a pull that are not of the rebase loop.                    *)
LEMMA PullCallIsRecorded ==
    ASSUME NoMishap, PullInv, PullInv', PullRecordInv, RowsInFile', PullCall
    PROVE  PullRecordInv'
<1>1. CASE PullMergeReverseLocalChanges
  BY <1>1, PullBeginsRecorded
<1>2. CASE PullReverseStep
  BY <1>2, ReversalStepIsRecorded DEF PullReverseStep, Reversal
<1>3. CASE PullReverseDone
  BY <1>3, PullReversedIsRecorded
<1>4. CASE PullReverseFails
  <2>1. ~Calling /\ Rollback /\ UNCHANGED <<disk, txnVars, creating, hub>> /\ job'.op = "None"
    BY <1>4 DEF PullReverseFails, Calling, Idle
  <2> QED BY <2>1, RollbackIsRecorded
<1>5. CASE (\E fastForward \in BOOLEAN : MergeChangeset(fastForward)) \/ ReverseChangeset
  BY <1>5, MergeIsRecorded
<1>6. CASE MergeFails
  BY <1>6, MergeFailsIsRecorded
<1>7. CASE OtherPushes
  BY <1>7, OtherPushIsRecorded DEF PullCall
<1> QED BY <1>1, <1>2, <1>3, <1>4, <1>5, <1>6, <1>7 DEF PullCall

-------------------------------------------------------------------------------
(***************************************************************************)
(* The rebase loop.                                                        *)
(***************************************************************************)

(* What holds while Txns are rebased.                                      *)
LEMMA LoopIsPulling ==
    ASSUME PullInv, PullRecordInv, conf.stage = "Rebasing"
    PROVE  /\ TypeInv /\ ~Calling /\ job.op = "None" /\ disk.conf = conf /\ conf \in Confs
           /\ ~creating.active /\ ~creating.uploaded /\ ~Failed /\ reversed = <<>>
           /\ hub[parent] \in States /\ IsFiniteTable(txns)
<1>1. TypeInv /\ ~Calling /\ job.op = "None" /\ disk.conf = conf /\ conf \in Confs
  BY DEF PullInv, PullTypeInv, TypeInv, FileOK, StageInv, WorkStage, Calling, Local
<1>2. ~creating.active /\ ~creating.uploaded /\ ~Failed /\ reversed = <<>>
  BY <1>1 DEF PullRecordInv, PullingRecord
<1>3. hub[parent] \in States /\ IsFiniteTable(txns)
  BY ParentsAreStates DEF PullInv
<1> QED BY <1>1, <1>2, <1>3

LEMMA LoopIsRebasing ==
    ASSUME PullInv, driver # "Out"
    PROVE  conf.stage = "Rebasing"
  BY DEF PullInv, StageInv, LoopStage

(* A step of the loop that leaves the file alone, and one that commits.    *)
LEMMA LoopStepIsRecorded ==
    ASSUME PullInv, PullRecordInv, RowsInFile', conf.stage = "Rebasing", LoopRecord',
           UNCHANGED <<conf, disk, curr, reversed, creating, lastSave, job, hub>>
    PROVE  PullRecordInv'
<1>1. ~Calling /\ job.op = "None" /\ ~creating.active /\ ~creating.uploaded /\ ~Failed
      /\ reversed = <<>>
  BY LoopIsPulling
<1>2. FileRecord'
  BY <1>1, FileStaysRecorded
<1> QED BY <1>1, <1>2, RebasingIsRecorded DEF Failed

LEMMA LoopCommitKeepsRecord ==
    ASSUME PullTypeInv', RowsInFile', LoopRecord', conf'.stage = "Rebasing",
           driver' # "Failed", DOMAIN tracked' = {}, Persist, job.op = "None",
           ~creating.active, ~creating.uploaded, ~Failed', reversed' = <<>>,
           UNCHANGED <<creating, job>>
    PROVE  PullRecordInv'
<1>1. disk'.db = db' /\ disk'.txns = txns' /\ disk'.parent = parent' /\ disk'.conf = conf'
  BY DEF Persist
<1>2. FileRecord'
  BY <1>1, LoopCommitIsRecorded
<1> QED BY <1>2, RebasingIsRecorded

(* The loop begins: on the version merged last, or where it had got to.    *)
LEMMA RebaseBeginIsRecorded ==
    ASSUME PullInv, PullInv', PullRecordInv, RowsInFile', PullMergeRebaseBegin
    PROVE  PullRecordInv'
<1>1. /\ conf.stage # "None" /\ job.op = "None" /\ driver = "Out" /\ driver' = "Next"
      /\ conf' = [conf EXCEPT !.stage = "Rebasing"] /\ conf \in Confs /\ PullTypeInv'
      /\ TypeInv /\ TypeInv'
      /\ UNCHANGED <<db, txns, parent, txnVars, editVars, creating, job, hub>>
  BY DEF PullMergeRebaseBegin, InProgress, ClientReady, PullInv, PullTypeInv, TypeInv, FileOK
<1>2. CASE conf.stage = "Merging"
  <2>1. ~Calling /\ ~HasChanges /\ AllReversed(txns) /\ DOMAIN tracked = {}
    BY <1>2 DEF Calling, Local, PullInv, StageInv, WorkStage, HasChanges, HasDataChanges
  <2>2. /\ ~creating.active /\ ~creating.uploaded /\ ~Failed /\ reversed = <<>>
        /\ db = hub[parent]
    BY <1>1, <1>2, <2>1 DEF PullRecordInv, PullingRecord, MergeRecord
  <2>3. Persist
    BY <1>1, <1>2, <2>1 DEF PullMergeRebaseBegin, Rebasing, HasDataChanges, Persist
  <2>4. hub[parent] \in States /\ IsFiniteTable(txns)
    BY ParentsAreStates DEF PullInv
  <2>5. /\ Replay(WithoutReversed(txns), hub[parent]) = hub[parent]
        /\ DOMAIN WithoutReversed(txns) = {}
    BY <2>1, <2>4, AllReversedLeadsNowhere, WithoutReversedRows DEF AllReversed
  <2>6. BeforeEdits' = db'
    BY <1>1, <2>1, NothingTrackedNext
  <2>7. BeforeEditsRecorded'
    BY <1>1, <2>2, <2>5, <2>6 DEF BeforeEditsRecorded
  <2>8. Chained(WithoutReversed(txns), hub[parent]) /\ NotAfterCurr(txns)'
    BY <1>1, <2>1, <2>5 DEF Chained, NotAfterCurr, AllReversed
  <2>9. LoopRecord' /\ conf'.stage = "Rebasing"
    BY <1>1, <2>7, <2>8 DEF LoopRecord, Confs
  <2> QED BY <1>1, <2>1, <2>2, <2>3, <2>9, LoopCommitKeepsRecord DEF Failed
<1>3. CASE conf.stage = "Rebasing"
  <2>1. UNCHANGED <<conf, disk>>
    BY <1>1, <1>3 DEF PullMergeRebaseBegin, Rebasing, Confs
  <2>2. LoopRecord'
    BY <1>1, <1>3, <2>1 DEF PullRecordInv, LoopRecord, BeforeEditsRecorded, BeforeEdits,
       Original, NotAfterCurr
  <2> QED BY <1>1, <1>3, <2>1, <2>2, LoopStepIsRecorded
<1> QED BY <1>1, <1>2, <1>3 DEF Confs, Stages

(* The next Txn is chosen.                                                 *)
LEMMA RebaseNextIsRecorded ==
    ASSUME PullInv, PullInv', PullRecordInv, RowsInFile', PullMergeRebaseNext
    PROVE  PullRecordInv'
<1>1. /\ driver = "Next" /\ DOMAIN tracked = {} /\ driver' # "Failed" /\ Persist
      /\ UNCHANGED <<db, txns, parent, txnVars, editVars, creating, job, hub>>
  BY DEF PullMergeRebaseNext, HasChanges, HasDataChanges
<1>2. conf.stage = "Rebasing" /\ PullTypeInv'
  BY <1>1, LoopIsRebasing DEF PullInv
<1>3. /\ ~creating.active /\ ~creating.uploaded /\ ~Failed /\ reversed = <<>>
      /\ job.op = "None" /\ conf \in Confs
  BY <1>2, LoopIsPulling
<1>4. conf'.stage = "Rebasing"
  <2>1. PICK id : conf' = [conf EXCEPT !.inProgress = id]
    BY DEF PullMergeRebaseNext
  <2> QED BY <1>2, <1>3, <2>1 DEF Confs
<1>5. LoopRecord'
  BY <1>1, <1>2 DEF PullRecordInv, LoopRecord, BeforeEditsRecorded, BeforeEdits, Original,
     NotAfterCurr
<1> QED BY <1>1, <1>2, <1>3, <1>4, <1>5, LoopCommitKeepsRecord DEF Failed

(* The loop is left by an exception.                                       *)
LEMMA LoopFailsIsRecorded ==
    ASSUME PullInv, PullInv', PullRecordInv, RowsInFile',
           \/ PullMergeRebaseNextFails \/ PullMergeRebaseReinstateFails
           \/ PullMergeRebaseUpdateFails
    PROVE  PullRecordInv'
<1>1. conf.stage = "Rebasing" /\ driver' = "Failed"
  BY LoopIsRebasing
     DEF PullMergeRebaseNextFails, PullMergeRebaseReinstateFails, PullMergeRebaseUpdateFails
<1>2. CASE PullMergeRebaseNextFails \/ PullMergeRebaseUpdateFails
  <2>1. UNCHANGED <<conf, disk, curr, reversed, creating, lastSave, job, hub>>
    BY <1>2 DEF PullMergeRebaseNextFails, PullMergeRebaseUpdateFails
  <2> QED BY <1>1, <2>1, LoopStepIsRecorded DEF LoopRecord
<1>3. CASE PullMergeRebaseReinstateFails
  <2>1. Rollback /\ UNCHANGED <<disk, txnVars, creating, job, hub>>
    BY <1>3 DEF PullMergeRebaseReinstateFails
  <2>2. ~Calling /\ job'.op = "None"
    BY <1>1, <2>1, LoopIsPulling
  <2> QED BY <2>1, <2>2, RollbackIsRecorded
<1> QED BY <1>2, <1>3

(* A Txn is reinstated: what it changes is tracked, like edits.            *)
LEMMA ReinstatedIsRecorded ==
    ASSUME PullInv, PullRecordInv, RowsInFile', PullMergeRebaseReinstateTxn
    PROVE  PullRecordInv'
<1>1. /\ driver = "Reinstate" /\ driver' = "Update"
      /\ tracked' = [k \in {key \in Keys : db'[key] # db[key]} |-> db[k]]
      /\ UNCHANGED <<txns, conf, parent, disk, txnVars, ddl, lastSave, creating, job, hub>>
  BY DEF PullMergeRebaseReinstateTxn
<1>2. conf.stage = "Rebasing" /\ TypeInv /\ db \in States
  BY <1>1, LoopIsRebasing DEF PullInv, PullTypeInv, TypeInv, FileOK
<1>3. /\ DOMAIN tracked = {} /\ BeforeEditsRecorded
      /\ Chained(WithoutReversed(txns), hub[parent]) /\ NotAfterCurr(txns)
  BY <1>1, <1>2 DEF PullRecordInv, LoopRecord
<1>4. BeforeEdits = db
  BY <1>2, <1>3, NothingTracked
<1>5. BeforeEdits' = db
  <2>1. \A k \in Keys : (IF k \in DOMAIN tracked' THEN tracked'[k] ELSE db'[k]) = db[k]
    BY <1>1
  <2>2. BeforeEdits' = [k \in Keys |-> db[k]]
    BY <2>1 DEF BeforeEdits, Original
  <2> QED BY <1>2, <2>2 DEF States
<1>6. LoopRecord'
  BY <1>1, <1>3, <1>4, <1>5 DEF LoopRecord, BeforeEditsRecorded, NotAfterCurr
<1> QED BY <1>1, <1>2, <1>6, LoopStepIsRecorded

(* The client edits what has been reinstated.                              *)
LEMMA EditRebasedIsRecorded ==
    ASSUME PullInv, PullRecordInv, RowsInFile', EditRebased
    PROVE  PullRecordInv'
<1>1. PICK key \in Keys, value \in Values : Edit(key, value)
  BY DEF EditRebased, EditNext
<1>2. /\ driver = "Update" /\ UNCHANGED driver
      /\ UNCHANGED <<txns, conf, parent, disk, curr, reversed, lastSave, creating, job, hub>>
  BY <1>1 DEF Edit, EditRebased
<1>3. conf.stage = "Rebasing" /\ TypeInv
  BY <1>2, LoopIsRebasing DEF PullInv, PullTypeInv
<1>4. BeforeEdits' = BeforeEdits
  BY <1>1, <1>3, EditKeepsBeforeEdits
<1>5. LoopRecord'
  BY <1>2, <1>3, <1>4 DEF PullRecordInv, LoopRecord, BeforeEditsRecorded, NotAfterCurr
<1> QED BY <1>2, <1>3, <1>5, LoopStepIsRecorded

(* The reversed Txns of a table where one of them is made live again.      *)
LEMMA InsertedLive ==
    ASSUME NEW table, IsFiniteTable(table), NEW id \in TxnIds,
           NEW row \in Rows, ~row.deleted
    PROVE  WithoutReversed(Insert(table, id, row)) = Insert(WithoutReversed(table), id, row)
<1>1. IsFiniteTable(Insert(table, id, row))
  BY InsertIsTable
<1>2. /\ DOMAIN WithoutReversed(table) = {i \in DOMAIN table : ~table[i].deleted}
      /\ \A i \in DOMAIN WithoutReversed(table) : WithoutReversed(table)[i] = table[i]
  BY WithoutReversedRows
<1>3. DOMAIN Insert(table, id, row) = DOMAIN table \cup {id}
      /\ \A i \in DOMAIN table \cup {id} :
            Insert(table, id, row)[i] = IF i = id THEN row ELSE table[i]
  BY DEF Insert
<1> DEFINE new == Insert(table, id, row)
           live == {i \in DOMAIN new : ~new[i].deleted}
<1>4. live = DOMAIN WithoutReversed(table) \cup {id}
  BY <1>2, <1>3
<1>5. DOMAIN new \cap live = live
  OBVIOUS
<1>6. WithoutReversed(new) = [i \in live |-> new[i]]
  BY <1>5 DEF WithoutReversed, Keep
<1>7. \A i \in live : new[i] = IF i = id THEN row ELSE WithoutReversed(table)[i]
  BY <1>2, <1>3, <1>4
<1> QED BY <1>4, <1>6, <1>7 DEF Insert

(* One more Txn that leads on from where the live ones lead.               *)
LEMMA OneMoreLeadsOn ==
    ASSUME NEW table, IsFiniteTable(table), NEW id \in TxnIds, RebasedBelow(table, id),
           NEW row \in Rows, ~row.deleted, NEW base, NEW to \in States,
           Chained(WithoutReversed(table), base),
           Leads(row.change, Replay(WithoutReversed(table), base), to)
    PROVE  /\ Chained(WithoutReversed(Insert(table, id, row)), base)
           /\ Replay(WithoutReversed(Insert(table, id, row)), base) = to
<1>1. IsFiniteTable(WithoutReversed(table))
      /\ \A i \in DOMAIN WithoutReversed(table) : Before(i, id)
  <2>1. IsFiniteTable(WithoutReversed(table))
        /\ DOMAIN WithoutReversed(table) = {i \in DOMAIN table : ~table[i].deleted}
    BY WithoutReversedRows
  <2> QED BY <2>1 DEF RebasedBelow
<1>2. WithoutReversed(Insert(table, id, row)) = Insert(WithoutReversed(table), id, row)
  BY InsertedLive
<1>3. Chained(Insert(WithoutReversed(table), id, row), base)
  BY <1>1, InsertKeepsChain DEF Leads
<1>4. \A key \in Keys : Replay(Insert(WithoutReversed(table), id, row), base)[key] = to[key]
  BY <1>1, InsertLeadsOn DEF Leads
<1>5. Replay(Insert(WithoutReversed(table), id, row), base) = to
  BY <1>4 DEF Replay, States
<1> QED BY <1>2, <1>3, <1>5

(* The Txns that have been rebased are no further than the one done last.  *)
LEMMA RebasedIsNotAfter ==
    ASSUME PullInv', driver' = "Next", curr' = conf'.inProgress
    PROVE  NotAfterCurr(txns)'
  BY DEF PullInv, StageInv, LoopStage, RebasedTo, NotAfterCurr

(* The changeset of the Txn is what it and the client have changed.        *)
LEMMA UpdatedIsRecorded ==
    ASSUME PullInv, PullInv', PullRecordInv, RowsInFile', PullMergeRebaseUpdateTxn
    PROVE  PullRecordInv'
<1>1. /\ driver = "Update" /\ driver' = "Next" /\ tracked' = EmptyMap /\ Persist
      /\ curr' = conf.inProgress
      /\ UNCHANGED <<conf, parent, reversed, multi, ddl, lastSave, creating, job, hub>>
  BY DEF PullMergeRebaseUpdateTxn
<1>2. conf.stage = "Rebasing" /\ PullTypeInv' /\ TypeInv' /\ db' \in States
  BY <1>1, LoopIsRebasing DEF PullInv, PullTypeInv, TypeInv, FileOK
<1>3. /\ TypeInv /\ ~creating.active /\ ~creating.uploaded /\ ~Failed /\ reversed = <<>>
      /\ job.op = "None" /\ IsFiniteTable(txns) /\ hub[parent] \in States
  BY <1>2, LoopIsPulling
<1>4. /\ BeforeEdits = Replay(WithoutReversed(txns), hub[parent])
      /\ Chained(WithoutReversed(txns), hub[parent])
  BY <1>1, <1>2 DEF PullRecordInv, LoopRecord, BeforeEditsRecorded
<1>5. RebasedBelow(txns, conf.inProgress) /\ conf.inProgress \in DOMAIN txns
      /\ conf.inProgress \in TxnIds /\ RebasedRow \in Rows
  BY <1>1, <1>3
     DEF PullInv, StageInv, LoopStage, PullTypeInv, Driving, IsFiniteTable, IsTable, RebasedRow
<1>6. BeforeEdits \in States
  BY <1>3, BeforeEditsIsState DEF TypeInv
<1> DEFINE change == Difference(BeforeEdits, db')
           row == [RebasedRow EXCEPT !.change = change, !.deleted = FALSE]
<1>7. txns' = UpdatedTxns(change)
  BY DEF PullMergeRebaseUpdateTxn
<1>8. change \in Changes /\ Leads(change, BeforeEdits, db')
  BY <1>2, <1>6, DifferenceIsChange, DifferenceLeads
<1>9. row \in Rows /\ ~row.deleted /\ row.change = change
  BY <1>5, <1>8 DEF Rows
<1> HIDE DEF row, change
<1>10. /\ Chained(WithoutReversed(txns'), hub[parent])
       /\ Replay(WithoutReversed(txns'), hub[parent]) = db'
  <2>1. CASE DOMAIN change = {}
    <3>1. txns' = Keep(txns, DOMAIN txns \ {conf.inProgress})
      BY <1>7, <2>1 DEF UpdatedTxns
    <3>2. txns[conf.inProgress].deleted
      <4>1. ~Before(conf.inProgress, conf.inProgress)
        BY <1>5 DEF Before, TxnIds
      <4> QED BY <1>5, <4>1 DEF RebasedBelow
    <3>3. WithoutReversed(txns') = WithoutReversed(txns)
      <4>1. /\ DOMAIN txns' = DOMAIN txns \ {conf.inProgress}
            /\ \A i \in DOMAIN txns' : txns'[i] = txns[i]
        BY <3>1 DEF Keep
      <4>2. {i \in DOMAIN txns' : ~txns'[i].deleted} = {i \in DOMAIN txns : ~txns[i].deleted}
        BY <3>2, <4>1
      <4> DEFINE live == {i \in DOMAIN txns : ~txns[i].deleted}
      <4>3. DOMAIN txns' \cap live = live /\ DOMAIN txns \cap live = live
        BY <4>1, <4>2
      <4>4. \A i \in live : txns'[i] = txns[i]
        BY <4>1, <4>3
      <4>5. WithoutReversed(txns') = [i \in live |-> txns'[i]]
        BY <4>2, <4>3 DEF WithoutReversed, Keep
      <4>6. WithoutReversed(txns) = [i \in live |-> txns[i]]
        BY <4>3 DEF WithoutReversed, Keep
      <4> QED BY <4>4, <4>5, <4>6
    <3>4. BeforeEdits = db'
      <4>1. \A k \in Keys : BeforeEdits[k] = db'[k]
        BY <1>8, <2>1 DEF Leads
      <4> QED BY <1>2, <1>6, <4>1 DEF States
    <3> QED BY <1>4, <3>3, <3>4
  <2>2. CASE DOMAIN change # {}
    <3>1. txns' = Insert(txns, conf.inProgress, row)
      BY <1>7, <2>2 DEF UpdatedTxns, row
    <3> QED BY <1>2, <1>3, <1>4, <1>5, <1>8, <1>9, <3>1, OneMoreLeadsOn
  <2> QED BY <2>1, <2>2
<1>11. DOMAIN tracked' = {}
  BY <1>1, EmptyMapIsEmpty
<1>12. BeforeEdits' = db'
  BY <1>2, <1>11, NothingTrackedNext
<1>13. NotAfterCurr(txns)'
  BY <1>1, RebasedIsNotAfter
<1>14. LoopRecord'
  BY <1>1, <1>10, <1>12, <1>13 DEF LoopRecord, BeforeEditsRecorded
<1> QED BY <1>1, <1>2, <1>3, <1>11, <1>14, LoopCommitKeepsRecord DEF Failed

(* A DDL Txn changes no data, and leads nowhere.                           *)
LEMMA MarkedIsRecorded ==
    ASSUME PullInv, PullInv', PullRecordInv, RowsInFile', PullMergeSetTxnActive
    PROVE  PullRecordInv'
<1>1. /\ driver = "Update" /\ driver' = "Next" /\ RebasedRow.type = "Ddl"
      /\ txns' = SetDeleted(txns, conf.inProgress, FALSE) /\ curr' = conf.inProgress
      /\ UNCHANGED <<db, conf, parent, disk, reversed, multi, editVars, creating, job, hub>>
  BY DEF PullMergeSetTxnActive
<1>2. conf.stage = "Rebasing"
  BY <1>1, LoopIsRebasing
<1>3. /\ TypeInv /\ ~Calling /\ ~creating.active /\ ~creating.uploaded /\ ~Failed
      /\ reversed = <<>> /\ job.op = "None" /\ IsFiniteTable(txns) /\ disk.conf = conf
  BY <1>2, LoopIsPulling
<1>4. BeforeEditsRecorded /\ Chained(WithoutReversed(txns), hub[parent])
  BY <1>1, <1>2 DEF PullRecordInv, LoopRecord
<1>5. /\ RebasedBelow(txns, conf.inProgress) /\ conf.inProgress \in DOMAIN txns
      /\ conf.inProgress \in TxnIds /\ RebasedRow \in Rows /\ txns = disk.txns
      /\ DOMAIN RebasedRow.change = {}
  BY <1>1, <1>3
     DEF PullInv, StageInv, LoopStage, PullTypeInv, Driving, IsFiniteTable, IsTable, RebasedRow,
         DdlRows, DdlEmpty
<1> DEFINE row == [RebasedRow EXCEPT !.deleted = FALSE]
<1>6. row \in Rows /\ ~row.deleted /\ row.change = RebasedRow.change
  BY <1>5 DEF Rows
<1>7. txns' = Insert(txns, conf.inProgress, row)
  <2>1. txns = [i \in DOMAIN txns |-> txns[i]]
    BY <1>3 DEF IsFiniteTable, IsTable
  <2>2. SetDeleted(txns, conf.inProgress, FALSE)
           = [i \in DOMAIN txns |-> IF i = conf.inProgress THEN row ELSE txns[i]]
    BY <1>5, <2>1 DEF SetDeleted, RebasedRow
  <2> QED BY <1>1, <1>5, <2>2 DEF Insert
<1> HIDE DEF row
<1>8. BeforeEdits' = BeforeEdits /\ BeforeEdits \in States
  BY <1>1, <1>3, BeforeEditsIsState DEF BeforeEdits, Original, TypeInv
<1>9. Leads(row.change, BeforeEdits, BeforeEdits)
  BY <1>5, <1>6 DEF Leads
<1>10. /\ Chained(WithoutReversed(txns'), hub[parent])
       /\ Replay(WithoutReversed(txns'), hub[parent]) = BeforeEdits
  BY <1>3, <1>4, <1>5, <1>6, <1>7, <1>8, <1>9, OneMoreLeadsOn DEF BeforeEditsRecorded
<1>11. NotAfterCurr(txns)'
  BY <1>1, RebasedIsNotAfter
<1>12. LoopRecord' /\ ~Failed'
  BY <1>1, <1>3, <1>8, <1>10, <1>11 DEF LoopRecord, BeforeEditsRecorded, Failed
<1>13. FileRecord'
  <2>1. DiskRecorded' /\ Chained(WithoutReversed(disk'.txns), hub'[disk'.parent])
    BY <1>1 DEF PullRecordInv, FileRecord, DiskRecorded
  <2>2. NotAfterCurr(disk.txns)'
    <3>1. \A i \in DOMAIN disk.txns : ~disk.txns[i].deleted => Before(i, conf.inProgress)
      BY <1>5 DEF RebasedBelow
    <3>2. DOMAIN disk.txns \subseteq Ids /\ conf.inProgress \in Ids
      BY <1>3, <1>5 DEF IsFiniteTable, IsTable, Ids
    <3>3. \A i \in DOMAIN disk.txns : ~disk.txns[i].deleted => ~Before(conf.inProgress, i)
      BY <3>1, <3>2, IdsInOrder
    <3> QED BY <1>1, <3>3 DEF NotAfterCurr
  <2> QED BY <1>1, <1>2, <1>3, <2>1, <2>2 DEF FileRecord
<1> QED BY <1>1, <1>2, <1>3, <1>12, <1>13, RebasingIsRecorded

(* The loop is given up.                                                   *)
LEMMA AbortIsRecorded ==
    ASSUME PullInv, PullInv', PullRecordInv, RowsInFile', PullMergeRebaseAbortTxn
    PROVE  PullRecordInv'
<1>1. /\ driver = "Failed" /\ driver' = "Out" /\ lastSave' = "OK" /\ tracked' = EmptyMap
      /\ db' = disk.db /\ txns' = disk.txns /\ parent' = disk.parent
      /\ conf' = [conf EXCEPT !.inProgress = NoTxn] /\ Persist
      /\ UNCHANGED <<txnVars, creating, job, hub>>
  BY DEF PullMergeRebaseAbortTxn
<1>2. conf.stage = "Rebasing" /\ PullTypeInv' /\ TypeInv'
  BY <1>1, LoopIsRebasing DEF PullInv, PullTypeInv
<1>3. /\ ~creating.active /\ ~creating.uploaded /\ reversed = <<>>
      /\ job.op = "None" /\ disk.conf = conf /\ conf \in Confs
  BY <1>2, LoopIsPulling
<1>4. DOMAIN tracked' = {} /\ ~Failed' /\ conf'.stage = "Rebasing"
  BY <1>1, <1>2, <1>3, EmptyMapIsEmpty DEF Failed, Confs
<1>5. BeforeEdits' = db'
  BY <1>2, <1>4, NothingTrackedNext
<1>6. /\ DiskRecorded /\ Chained(WithoutReversed(disk.txns), hub[disk.parent])
      /\ NotAfterCurr(disk.txns)
  BY <1>2, <1>3 DEF PullRecordInv, FileRecord
<1>7. LoopRecord'
  BY <1>1, <1>5, <1>6 DEF LoopRecord, BeforeEditsRecorded, DiskRecorded, NotAfterCurr
<1> QED BY <1>1, <1>2, <1>3, <1>4, <1>7, LoopCommitKeepsRecord

(* The loop ends: every Txn is live, before the id the pull began at.      *)
LEMMA RebaseEndIsRecorded ==
    ASSUME PullInv, PullInv', PullRecordInv, RowsInFile', PullMergeRebaseEnd
    PROVE  PullRecordInv'
<1>1. /\ driver = "End" /\ curr' = conf.end /\ reversed' = <<>> /\ Persist
      /\ conf' = [conf EXCEPT !.stage = "None", !.end = NoTxn]
      /\ UNCHANGED <<db, txns, parent, multi, editVars, creating, job, hub>>
  BY DEF PullMergeRebaseEnd, EndWithCurr
<1>2. conf.stage = "Rebasing" /\ TypeInv' /\ parent' \in 1..Len(hub')
  BY <1>1, LoopIsRebasing DEF PullInv, PullTypeInv, Versions
<1>3. /\ TypeInv /\ ~creating.active /\ ~creating.uploaded /\ ~Failed /\ job.op = "None"
      /\ IsFiniteTable(txns) /\ conf \in Confs
  BY <1>2, LoopIsPulling
<1>4. /\ DOMAIN tracked = {} /\ BeforeEditsRecorded
      /\ Chained(WithoutReversed(txns), hub[parent])
  BY <1>1, <1>2 DEF PullRecordInv, LoopRecord
<1>5. AllLive(txns) /\ AllBefore(txns, conf.end)
  BY <1>1, <1>2, <1>3 DEF PullInv, StageInv, LoopStage, IdStage, AllLive
<1>6. WithoutReversed(txns) = txns
  BY <1>3, <1>5, NothingToDelete
<1>7. Sound(txns, hub[parent], conf.end, <<>>, "Rebased")
  <2>1. LiveFirst(txns) /\ CutAt(txns, conf.end)
    BY <1>5 DEF AllLive, AllBefore, LiveFirst, CutAt
  <2>2. Complete(txns, conf.end, <<>>, "Rebased")
    BY DEF Complete
  <2> QED BY <1>4, <1>6, <2>1, <2>2 DEF Sound
<1>8. db' = Replay(WithoutReversed(txns'), hub'[parent'])
  BY <1>1, <1>3, <1>4, NothingTracked DEF BeforeEditsRecorded
<1>9. PushInv("Rebased")' /\ Packaged(txns', creating', hub') /\ IsStack(reversed', curr')
  BY <1>1, <1>3, EmptyIsStack DEF PushInv, Packaged
<1>10. Rest("Rebased")'
  BY <1>1, <1>2, <1>4, <1>7, <1>8, <1>9, CommitRests
<1>11. RecordInv("Rebased")'
  BY <1>1, <1>3, <1>10, RestIsInv DEF Failed
<1>12. Calling'
  BY <1>1, <1>3 DEF Calling, Local, Persist, Confs
<1> QED BY <1>2, <1>11, <1>12, RecordedOutside

LEMMA LoopCallIsRecorded ==
    ASSUME PullInv, PullInv', PullRecordInv, RowsInFile', LoopCall
    PROVE  PullRecordInv'
  BY RebaseBeginIsRecorded, RebaseNextIsRecorded, LoopFailsIsRecorded, ReinstatedIsRecorded,
     UpdatedIsRecorded, MarkedIsRecorded, AbortIsRecorded, RebaseEndIsRecorded
     DEF LoopCall, RebaseStep

-------------------------------------------------------------------------------
(***************************************************************************)
(* The invariant, and what it says.                                        *)
(***************************************************************************)

(* The calls of TxnManager, wherever a pull has got to.                    *)
LEMMA TxnCallIsRecorded ==
    ASSUME NoMishap, PullInv, PullInv', PullRecordInv, RowsInFile', LocalCall
    PROVE  PullRecordInv'
<1>1. Next /\ driver = "Out" /\ UNCHANGED driver
  BY LocalCallIsStep DEF LocalCall
<1>2. CASE Calling
  BY <1>2, LocalCallIsRecorded
<1>3. CASE job.op = "PullReverse"
  <2>1. Crash \/ UNCHANGED vars
    BY <1>1, <1>3, StepsOfCalls
  <2>2. ~Calling
    BY <1>3 DEF Calling
  <2>3. UNCHANGED vars =>
            UNCHANGED <<fileVars, disk, curr, reversed, editVars, creating, job, hub, driver>>
    BY <1>1
  <2> QED BY <2>1, <2>2, <2>3, CrashIsRecorded, UnchangedIsRecorded
<1>4. CASE ~Local /\ job.op = "Discard"
  BY <1>1, <1>4, DiscardingIsRecorded
<1>5. CASE ~Local /\ job.op # "Discard"
  <2>1. conf.stage # "None"
    BY <1>5 DEF PullInv, StageInv, WorkStage, Local
  <2>2. job.op = "None"
    BY <1>5, <2>1, CallsApart
  <2>3. conf.stage \in {"Merging", "Rebasing"}
    BY <2>1 DEF PullInv, PullTypeInv, TypeInv, FileOK, Confs, Stages
  <2> QED BY <2>2, <2>3, MergingCallIsRecorded, RebasingCallIsRecorded
<1> QED BY <1>2, <1>3, <1>4, <1>5 DEF Calling

LEMMA PullRecordStep ==
    NoMishap /\ PullInv /\ PullInv' /\ PullRecordInv /\ [PullNext]_pullVars => PullRecordInv'
<1> SUFFICES ASSUME NoMishap, PullInv, PullInv', PullRecordInv, [PullNext]_pullVars
             PROVE  PullRecordInv'
  OBVIOUS
<1>1. RowsInFile'
  BY PullRowsAreCommitted, RowsStep DEF PullInv, PullRecordInv
<1>2. CASE LocalCall
  BY <1>1, <1>2, TxnCallIsRecorded
<1>3. CASE EditRebased
  BY <1>1, <1>3, EditRebasedIsRecorded
<1>4. CASE PullCall
  BY <1>1, <1>4, PullCallIsRecorded
<1>5. CASE LoopCall
  BY <1>1, <1>5, LoopCallIsRecorded
<1>6. CASE PullCrash
  BY <1>1, <1>6, CrashIsRecorded DEF PullCrash
<1>7. CASE UNCHANGED pullVars
  <2>1. UNCHANGED <<fileVars, disk, curr, reversed, editVars, creating, job, hub, driver>>
    BY <1>7 DEF pullVars
  <2>2. CASE Calling
    <3>1. PICK past \in {"Whole", "Rebased"} : RecordInv(past)
      BY <2>2 DEF PullRecordInv, CallRecord, CallsRecorded
    <3>2. RecordInv(past)'
      BY <2>1, <3>1, UnchangedKeepsRecordInv DEF Failed, BeforeEdits, Original
    <3>3. Calling' /\ TypeInv'
      BY <2>1, <2>2 DEF Calling, Local, PullInv, PullTypeInv
    <3> QED BY <1>1, <3>2, <3>3, RecordedOutside
  <2> QED BY <2>1, <2>2, UnchangedIsRecorded
<1> QED BY <1>2, <1>3, <1>4, <1>5, <1>6, <1>7, StepsApart

LEMMA PullRecordInit == PullInit => PullRecordInv
<1> SUFFICES ASSUME PullInit PROVE PullRecordInv
  OBVIOUS
<1>1. Init /\ RecordInv("Whole") /\ RowsInFile
  BY RecordInvInit, RowsInit DEF PullInit
<1>2. Calling /\ ~creating.active
  BY <1>1 DEF Init, Calling, Local, NoConf, Idle, NotCreating
<1>3. RecordInv("Rebased")
  <2>1. "Rebased" # "Whole"
    OBVIOUS
  <2>2. \A table, id, ranges : Complete(table, id, ranges, "Whole")
                                  => Complete(table, id, ranges, "Rebased")
    BY <2>1 DEF Complete
  <2>3. \A table, base, id, ranges : Sound(table, base, id, ranges, "Whole")
                                        => Sound(table, base, id, ranges, "Rebased")
    BY <2>2 DEF Sound
  <2>4. FileInv("Rebased") /\ OpenInv("Rebased") /\ PushInv("Rebased")
    BY <1>1, <1>2, <2>1, <2>2, <2>3 DEF RecordInv, FileInv, OpenInv, PushInv
  <2>5. Resting("Rebased") /\ Reversing("Rebased")
    BY <1>1, <2>1, <2>3 DEF RecordInv, Resting, Reversing
  <2> QED BY <1>1, <2>4, <2>5 DEF RecordInv
<1>4. FileRecord
  <2>1. DiskRecorded /\ DOMAIN disk.txns = {} /\ disk.conf.stage = "None"
    BY <1>1, <1>3, EmptyMapIsEmpty DEF RecordInv, FileInv, Init, NoConf
  <2>2. DOMAIN WithoutReversed(disk.txns) = {}
    BY <2>1 DEF WithoutReversed, Keep
  <2> QED BY <1>2, <2>1, <2>2 DEF FileRecord, Chained
<1>5. CallRecord /\ PullingRecord
  BY <1>2, <1>3 DEF CallRecord, CallsRecorded, PullingRecord
<1>6. ReversalRecord /\ MergeRecord /\ LoopRecord
  BY <1>1 DEF Init, Idle, NoConf, ReversalRecord, MergeRecord, LoopRecord
<1> QED BY <1>1, <1>4, <1>5, <1>6 DEF PullRecordInv

LEMMA PullRecordInvariant ==
    ASSUME NoMishap
    PROVE  PullSpec => [](PullInv /\ PullRecordInv)
<1>1. PullInit => PullInv /\ PullRecordInv
  BY PullInvInit, PullRecordInit
<1>2. PullInv /\ PullRecordInv /\ [PullNext]_pullVars => (PullInv /\ PullRecordInv)'
  BY NoMishapIsCareful, PullInvStep, PullRecordStep
<1> QED BY <1>1, <1>2, PTL DEF PullSpec

(* DiskRecorded, through pulls: "it is impossible to make changes to the   *)
(* database that aren't also saved in the dgn_Txn table" (_OnCommit) holds *)
(* while changesets are merged and Txns rebased, and wherever in it a      *)
(* crash or a failure falls.                                               *)
THEOREM PulledFileIsRecorded ==
    ASSUME NoMishap
    PROVE  PullSpec => []DiskRecorded
<1>1. PullRecordInv => DiskRecorded
  BY DEF PullRecordInv, FileRecord
<1> QED BY <1>1, PullRecordInvariant, PTL

(* Outside a pull everything is as in RecordProofs.                        *)
LEMMA CallingIsAsRecorded ==
    ASSUME PullInv, PullRecordInv, Calling
    PROVE  DiskRecorded /\ WorkRecorded /\ TxnsChain /\ RedoStackSound /\ PackagedTxnsKept
<1>1. PICK past \in {"Whole", "Rebased"} : RecordInv(past)
  BY DEF PullRecordInv, CallRecord, CallsRecorded
<1> QED BY <1>1, RecordInvImplies DEF PullInv, PullTypeInv

(* PullWorkRecorded: between the calls of a pull too the open database,    *)
(* less the edits being tracked, is what the live Txns say; a rebase that  *)
(* has reinstated some of the Txns has lost nothing of them.               *)
THEOREM PulledWorkIsRecorded ==
    ASSUME NoMishap
    PROVE  PullSpec => []PullWorkRecorded
<1>1. ASSUME PullInv, PullRecordInv PROVE PullWorkRecorded
  <2>1. CASE Calling
    BY <1>1, <2>1, CallingIsAsRecorded DEF PullWorkRecorded
  <2>2. CASE ~Calling /\ job.op # "None"
    BY <2>2 DEF PullWorkRecorded, WorkRecorded
  <2>3. CASE ~Calling /\ job.op = "None" /\ conf.stage = "Merging"
    <3>1. AllReversed(txns) /\ DOMAIN tracked = {} /\ db = hub[parent]
      BY <1>1, <2>3
         DEF PullInv, StageInv, WorkStage, HasChanges, HasDataChanges, PullRecordInv, MergeRecord
    <3>2. BeforeEdits = db
      BY <1>1, <3>1, NothingTracked DEF PullInv, PullTypeInv
    <3>3. Replay(WithoutReversed(txns), hub[parent]) = hub[parent]
      BY <1>1, <3>1, ParentsAreStates, AllReversedLeadsNowhere DEF PullInv, AllReversed
    <3> QED BY <3>1, <3>2, <3>3 DEF PullWorkRecorded, WorkRecorded
  <2>4. CASE ~Calling /\ job.op = "None" /\ conf.stage = "Rebasing"
    BY <1>1, <2>4 DEF PullRecordInv, LoopRecord, BeforeEditsRecorded, PullWorkRecorded, WorkRecorded
  <2>5. job.op = "None" /\ conf.stage = "None" => Calling
    BY <1>1, CallsApart DEF Calling
  <2> QED BY <1>1, <2>1, <2>2, <2>3, <2>4, <2>5
          DEF PullInv, PullTypeInv, TypeInv, FileOK, Confs, Stages
<1> QED BY <1>1, PullRecordInvariant, PTL

(* PulledCleanly: while a pull merges, every changeset finds each row as   *)
(* it expects it, so that no merge meets a conflict; and no local Txn is   *)
(* live meanwhile, in the open database or in the file.                    *)
THEOREM PullsAreClean ==
    ASSUME NoMishap
    PROVE  PullSpec => []PulledCleanly
<1>1. ASSUME PullInv, PullRecordInv PROVE PulledCleanly
  <2>1. disk.conf.stage = "Merging" => ~HasPendingTxns(disk.txns)
    BY <1>1 DEF PullInv, StageInv, FileStage, AllReversed, HasPendingTxns
  <2>2. ASSUME conf.stage = "Merging"
        PROVE  ~HasPendingTxns(txns) /\ db = hub[parent]
    <3>1. AllReversed(txns) /\ job.op \in {"None", "Discard"} /\ ~Local
      BY <1>1, <2>2 DEF PullInv, StageInv, WorkStage, Local
    <3>2. CASE job.op = "None"
      BY <1>1, <2>2, <3>1, <3>2
         DEF PullRecordInv, MergeRecord, AllReversed, HasPendingTxns
    <3>3. CASE job.op = "Discard"
      <4>1. IsAt(job.at)
        BY <1>1, <3>1, <3>3 DEF PullRecordInv, ReversalRecord
      <4>2. \A i \in DOMAIN txns : ~Before(i, job.at)
        BY <3>1, <4>1 DEF IsAt, CutAt, AllReversed
      <4>3. db = hub[parent]
        BY <1>1, <4>1, <4>2, ParentsAreStates, NothingBefore DEF IsAt, PullInv
      <4> QED BY <3>1, <4>3 DEF AllReversed, HasPendingTxns
    <3> QED BY <3>1, <3>2, <3>3
  <2> QED BY <2>1, <2>2, NoConflictOnVersion DEF PulledCleanly
<1> QED BY <1>1, PullRecordInvariant, PTL

(* TxnsChain: between pulls every Txn, rebased or not, starts from the     *)
(* state the Txns before it lead to on the new parent: undo and redo of a  *)
(* Txn that has been rebased skip no row.                                  *)
THEOREM PulledTxnsChain ==
    ASSUME NoMishap
    PROVE  PullSpec => []TxnsChain
<1>1. ASSUME PullInv, PullRecordInv PROVE TxnsChain
  <2>1. CASE Calling
    BY <1>1, <2>1, CallingIsAsRecorded
  <2>2. CASE ~Calling /\ conf.stage = "None"
    <3>1. job.op = "PullReverse" \/ (job.op = "Discard" /\ ~Local)
      BY <1>1, <2>2 DEF Calling, Local, PullInv, StageInv, WorkStage
    <3> QED BY <1>1, <3>1 DEF PullRecordInv, ReversalRecord, TxnsChain, Chained
  <2> QED BY <2>1, <2>2 DEF TxnsChain, InProgress
<1> QED BY <1>1, PullRecordInvariant, PTL

(* RedoStackSound: a pull leaves no range on the redo stack, and what undo *)
(* puts there afterwards is sound although the rebase has erased Txns.     *)
THEOREM PulledRedoStackIsSound ==
    ASSUME NoMishap
    PROVE  PullSpec => []RedoStackSound
<1>1. ASSUME PullInv, PullRecordInv PROVE RedoStackSound
  <2>1. CASE Calling
    BY <1>1, <2>1, CallingIsAsRecorded
  <2>2. CASE ~Calling
    <3>1. reversed = <<>>
      BY <1>1, <2>2 DEF PullRecordInv, PullingRecord
    <3> QED BY <3>1 DEF RedoStackSound
  <2> QED BY <2>1, <2>2
<1> QED BY <1>1, PullRecordInvariant, PTL

(* PackagedTxnsKept: a push of Txns that have been rebased, from the       *)
(* version they were rebased on, still packages and deletes the same Txns. *)
THEOREM PulledTxnsAreKept ==
    ASSUME NoMishap
    PROVE  PullSpec => []PackagedTxnsKept
<1>1. ASSUME PullInv, PullRecordInv PROVE PackagedTxnsKept
  <2>1. CASE Calling
    BY <1>1, <2>1, CallingIsAsRecorded
  <2>2. CASE ~Calling
    BY <1>1, <2>2 DEF PullRecordInv, PullingRecord, PackagedTxnsKept
  <2> QED BY <2>1, <2>2
<1> QED BY <1>1, PullRecordInvariant, PTL

===============================================================================
