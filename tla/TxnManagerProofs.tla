--------------------------- MODULE TxnManagerProofs ---------------------------
(***************************************************************************)
(* For every briefcase, history and bound of TxnManager: type correctness, *)
(* and that the next id is free.                                           *)
(***************************************************************************)
EXTENDS TxnManager, TxnTableProofs, SequenceTheorems

USE DEF fileVars, txnVars, editVars, vars

-------------------------------------------------------------------------------
(***************************************************************************)
(* The inductive invariant.  Beyond TypeOK it says that the tables are     *)
(* finite, so that queries for a first or last row have a result; that the *)
(* range of an undo or redo under way, from which curr will be set, is     *)
(* made of real ids; and that the hub has a version to push upon.          *)
(***************************************************************************)
FileOK ==
    /\ db \in States /\ IsFiniteTable(txns) /\ conf \in Confs /\ parent \in Nat
DiskOK ==
    /\ disk = [db |-> disk.db, txns |-> disk.txns, conf |-> disk.conf,
               parent |-> disk.parent]
    /\ disk.db \in States /\ IsFiniteTable(disk.txns)
    /\ disk.conf \in Confs /\ disk.parent \in Nat
SessionOK == curr \in TxnIds /\ reversed \in Seq(Ranges) /\ multi \in Seq(TxnIds)
EditOK ==
    /\ tracked \in UNION {[touched -> Values] : touched \in SUBSET Keys}
    /\ ddl \in BOOLEAN
    /\ lastSave \in {"OK", "PropagateChangesFailed", "RebaseInProgress"}
PushOK ==
    creating \in [active : BOOLEAN, end : TxnIds \cup {NoTxn}, parent : Nat,
                  change : Changes, uploaded : BOOLEAN]
HubOK == hub \in Seq(States) /\ hub # <<>>
JobOK ==
    /\ job \in [op : JobOps,
                at : TxnIds \cup {NoTxn}, first : TxnIds \cup {NoTxn},
                last : TxnIds \cup {NoTxn}, cancel : BOOLEAN]
    /\ job.op \in {"Reverse", "Reinstate"} => job.first \in TxnIds /\ job.last \in TxnIds

TypeInv == FileOK /\ DiskOK /\ SessionOK /\ EditOK /\ PushOK /\ HubOK /\ JobOK

(* The invariant is stronger than the type invariant TLC checks.           *)
LEMMA TypeInvImpliesTypeOK == TypeInv => TypeOK
  BY DEF TypeInv, TypeOK, FileOK, DiskOK, SessionOK, EditOK, PushOK, HubOK, JobOK,
         IsFiniteTable

-------------------------------------------------------------------------------
(***************************************************************************)
(* Lemmas about the operators of TxnManager.                               *)
(***************************************************************************)

(* Initialize(New) yields an id.                                           *)
LEMMA NewSessionIsId ==
    ASSUME NEW table, NEW id \in NewSessions(table)
    PROVE  id \in TxnIds
  BY BoundsAssumption DEF NewSessions, TxnIds

(* What the session remembers is a function from some of the keys.         *)
LEMMA TrackedIsFunction ==
    ASSUME NEW t
    PROVE  t \in UNION {[touched -> Values] : touched \in SUBSET Keys}
               <=> DOMAIN t \subseteq Keys /\ t \in [DOMAIN t -> Values]
<1>1. ASSUME DOMAIN t \subseteq Keys, t \in [DOMAIN t -> Values]
      PROVE  t \in UNION {[touched -> Values] : touched \in SUBSET Keys}
  <2>1. DOMAIN t \in SUBSET Keys
    BY <1>1
  <2> QED BY <1>1, <2>1
<1> QED BY <1>1

(* The database before the edits is a state, and so is what propagation    *)
(* leads to.                                                               *)
LEMMA BeforeEditsIsState ==
    ASSUME FileOK, EditOK
    PROVE  BeforeEdits \in States /\ Propagated \subseteq States
<1>1. tracked \in [DOMAIN tracked -> Values] /\ db \in States
  BY TrackedIsFunction DEF FileOK, EditOK
<1>2. BeforeEdits \in States
  BY <1>1 DEF BeforeEdits, Original, States
<1>3. \A k \in Keys, v \in Values : [db EXCEPT ![k] = v] \in States
  BY <1>1 DEF States
<1>4. Propagated \subseteq States
  BY <1>1, <1>3 DEF Propagated
<1> QED BY <1>2, <1>4

(* COMMIT makes the open transaction the file.                             *)
LEMMA PersistKeepsDiskOK ==
    ASSUME FileOK', Persist
    PROVE  DiskOK'
  BY DEF FileOK, DiskOK, Persist

(* ROLLBACK makes the file the open transaction.                           *)
LEMMA RollbackKeepsTypes ==
    ASSUME DiskOK, Rollback
    PROVE  FileOK' /\ EditOK'
<1>1. FileOK'
  BY DEF FileOK, DiskOK, Rollback
<1>2. EmptyMap \in UNION {[touched -> Values] : touched \in SUBSET Keys}
  BY TrackedIsFunction DEF EmptyMap
<1>3. EditOK'
  BY <1>2 DEF EditOK, Rollback
<1> QED BY <1>1, <1>3

(* ReverseTxnRange and ReinstateTxn drop unsaved edits first.              *)
LEMMA AbandonKeepsTypes ==
    ASSUME DiskOK, FileOK, EditOK, AbandonIfChanged
    PROVE  FileOK' /\ EditOK'
<1>1. CASE HasChanges
  BY <1>1, RollbackKeepsTypes DEF AbandonIfChanged
<1>2. CASE ~HasChanges
  BY <1>2 DEF AbandonIfChanged, FileOK, EditOK
<1> QED BY <1>1, <1>2

(* What SaveTxn starts from and leads to.                                  *)
IsSaved(s) == IsFiniteTable(s.txns) /\ s.curr \in TxnIds /\ s.multi \in Seq(TxnIds)

(* SaveTxn inserts a row and moves to the next id or session.              *)
LEMMA SaveTxnKeepsTypes ==
    ASSUME NEW from, IsSaved(from), NEW type \in TxnTypes, NEW change \in Changes,
           NEW s \in SaveTxn(from, type, change)
    PROVE  IsSaved(s)
<1> DEFINE isGrouped == from.multi # <<>> /\ Before(Head(from.multi), from.curr)
           row == [type |-> type, deleted |-> FALSE, change |-> change,
                   grouped |-> isGrouped]
           table == Insert(from.txns, from.curr, row)
<1>1. isGrouped \in BOOLEAN
  BY Zenon DEF Before
<1> HIDE DEF isGrouped
<1>2. row \in Rows
  BY <1>1 DEF Rows
<1> HIDE DEF row
<1>3. IsFiniteTable(table)
  BY <1>2, InsertIsTable DEF IsSaved
<1>4. CASE type = "Data"
  <2>1. s = [txns |-> table, curr |-> Increment(from.curr), multi |-> from.multi]
    BY <1>4 DEF SaveTxn, isGrouped, row
  <2> QED BY <1>3, <2>1, IncrementIsLater DEF IsSaved
<1>5. CASE type # "Data"
  <2>1. PICK id \in NewSessions(table) : s = [txns |-> table, curr |-> id, multi |-> <<>>]
    BY <1>5 DEF SaveTxn, isGrouped, row
  <2> QED BY <1>3, <2>1, NewSessionIsId, EmptySeq DEF IsSaved
<1> QED BY <1>4, <1>5

(* The session is settled on ids, whichever branch is taken.               *)
LEMMA SettleKeepsSessionOK ==
    ASSUME NEW table, NEW id \in TxnIds, NEW operations \in Seq(TxnIds),
           NEW ranges \in Seq(Ranges), NEW restart,
           SettleSession(table, id, operations, ranges, restart)
    PROVE  SessionOK'
  BY NewSessionIsId, EmptySeq DEF SettleSession, SessionOK

(* What a save leaves typed: everything but job, creating and hub, which   *)
(* its callers set.                                                        *)
SavedOK == FileOK /\ DiskOK /\ SessionOK /\ EditOK

(* A session that has been emptied tracks nothing.                         *)
LEMMA EmptyMapIsTracked ==
    EmptyMap \in UNION {[touched -> Values] : touched \in SUBSET Keys}
  BY TrackedIsFunction DEF EmptyMap

(* A save with nothing to save keeps the types.                            *)
LEMMA SaveUntrackedKeepsTypes ==
    ASSUME SavedOK, NEW table, IsFiniteTable(table), NEW version \in Nat,
           NEW restart, SaveUntracked(table, version, restart)
    PROVE  SavedOK'
<1> USE DEF SaveUntracked
<1>1. FileOK'
  BY DEF SavedOK, FileOK
<1>2. DiskOK'
  BY <1>1, PersistKeepsDiskOK
<1>3. SessionOK'
  BY SettleKeepsSessionOK DEF SavedOK, SessionOK
<1>4. EditOK'
  BY EmptyMapIsTracked DEF SavedOK, EditOK
<1> QED BY <1>1, <1>2, <1>3, <1>4 DEF SavedOK

(* A save that makes one Txn, or two when there is DDL, keeps the types.   *)
LEMMA SaveTrackedKeepsTypes ==
    ASSUME SavedOK, NEW table, IsFiniteTable(table), NEW version \in Nat,
           NEW restart, SaveTracked(table, version, restart)
    PROVE  SavedOK'
<1>1. PICK state \in Propagated :
          LET start == [txns |-> WithoutReversed(table), curr |-> curr, multi |-> multi]
          IN \E middle \in SaveDdlTxn(start) :
             \E end \in SaveSchemaAndDataTxns(middle, Difference(BeforeEdits, state)) :
                /\ Cardinality(DOMAIN end.txns) <= MaxTxns /\ end.curr[2] <= MaxTxns
                /\ db' = state /\ txns' = end.txns
                /\ SettleSession(end.txns, end.curr, end.multi, <<>>, restart)
  BY DEF SaveTracked
<1> DEFINE start == [txns |-> WithoutReversed(table), curr |-> curr, multi |-> multi]
           change == Difference(BeforeEdits, state)
<1>2. PICK middle \in SaveDdlTxn(start) :
          \E end \in SaveSchemaAndDataTxns(middle, change) :
             /\ db' = state /\ txns' = end.txns
             /\ SettleSession(end.txns, end.curr, end.multi, <<>>, restart)
  BY <1>1
<1>3. PICK end \in SaveSchemaAndDataTxns(middle, change) :
          /\ db' = state /\ txns' = end.txns
          /\ SettleSession(end.txns, end.curr, end.multi, <<>>, restart)
  BY <1>2
<1>4. state \in States /\ change \in Changes
  BY BeforeEditsIsState, DifferenceIsChange DEF SavedOK
<1>5. IsSaved(start)
  BY WithoutReversedIsTable DEF IsSaved, SavedOK, SessionOK
<1> HIDE DEF start, change
<1>6. IsSaved(middle)
  <2>1. CASE ddl
    <3>1. middle \in SaveTxn(start, "Ddl", EmptyMap)
      BY <2>1 DEF SaveDdlTxn
    <3> QED BY <1>5, <3>1, SaveTxnKeepsTypes, EmptyIsChange DEF TxnTypes
  <2>2. CASE ~ddl
    BY <1>5, <2>2 DEF SaveDdlTxn
  <2> QED BY <2>1, <2>2
<1>7. IsSaved(end)
  <2>1. CASE DOMAIN change = {}
    BY <1>6, <2>1 DEF SaveSchemaAndDataTxns
  <2>2. CASE DOMAIN change # {}
    <3> DEFINE type == IF DOMAIN DirectChange \cap SchemaKeys # {} THEN "EcSchema" ELSE "Data"
    <3>1. end \in SaveTxn(middle, type, change) /\ type \in TxnTypes
      BY <2>2 DEF SaveSchemaAndDataTxns, TxnTypes
    <3> HIDE DEF type
    <3> QED BY <1>4, <1>6, <3>1, SaveTxnKeepsTypes
  <2> QED BY <2>1, <2>2
<1>8. FileOK'
  BY <1>3, <1>4, <1>7 DEF SaveTracked, SavedOK, FileOK, IsSaved
<1>9. DiskOK'
  BY <1>8, PersistKeepsDiskOK DEF SaveTracked
<1>10. SessionOK'
  BY <1>3, <1>7, SettleKeepsSessionOK, EmptySeq DEF IsSaved
<1>11. EditOK'
  BY EmptyMapIsTracked DEF SaveTracked, EditOK
<1> QED BY <1>8, <1>9, <1>10, <1>11 DEF SavedOK

(* A save whose propagation fails keeps the types.                         *)
LEMMA SaveFailsKeepsTypes ==
    ASSUME SavedOK, NEW table, IsFiniteTable(table), NEW version \in Nat,
           SaveFails(table, version)
    PROVE  SavedOK'
<1> USE DEF SaveFails
<1>1. PICK state \in Propagated :
          /\ db' = state
          /\ tracked' = [k \in DOMAIN Difference(db, state) |-> db[k]]
  OBVIOUS
<1>2. state \in States /\ db \in States
  BY BeforeEditsIsState DEF SavedOK, FileOK
<1>3. FileOK'
  BY <1>1, <1>2, WithoutReversedIsTable DEF SavedOK, FileOK
<1>4. DiskOK'
  BY DEF SavedOK, DiskOK
<1>5. SessionOK'
  BY EmptySeq DEF SavedOK, SessionOK
<1>6. tracked' \in UNION {[touched -> Values] : touched \in SUBSET Keys}
  <2>1. DOMAIN tracked' \subseteq Keys
    BY <1>1 DEF Difference
  <2>2. tracked' \in [DOMAIN tracked' -> Values]
    BY <1>1, <1>2, <2>1 DEF States
  <2> QED BY <2>1, <2>2, TrackedIsFunction
<1>7. EditOK'
  BY <1>6 DEF SavedOK, EditOK
<1> QED BY <1>3, <1>4, <1>5, <1>7 DEF SavedOK

(* A part whose variables do not change stays well typed.                  *)
LEMMA UnchangedParts ==
    /\ FileOK /\ UNCHANGED fileVars => FileOK'
    /\ DiskOK /\ UNCHANGED disk => DiskOK'
    /\ SessionOK /\ UNCHANGED txnVars => SessionOK'
    /\ EditOK /\ UNCHANGED editVars => EditOK'
    /\ PushOK /\ UNCHANGED creating => PushOK'
    /\ HubOK /\ UNCHANGED hub => HubOK'
    /\ JobOK /\ UNCHANGED job => JobOK'
  BY DEF FileOK, DiskOK, SessionOK, EditOK, PushOK, HubOK, JobOK

(* No call under way.                                                      *)
LEMMA IdleIsJob ==
    ASSUME job' = Idle
    PROVE  JobOK'
  BY DEF JobOK, Idle, JobOps

(* No changeset being created.                                             *)
LEMMA NotCreatingIsPush ==
    ASSUME creating' = NotCreating
    PROVE  PushOK'
  BY EmptyIsChange DEF PushOK, NotCreating

(* Dropping the end of a stack leaves a stack.                             *)
LEMMA PrefixIsSeq ==
    ASSUME NEW S, NEW s \in Seq(S), NEW n \in 0..Len(s)
    PROVE  SubSeq(s, 1, n) \in Seq(S)
<1>1. \A i \in 1..n : s[i] \in S
  BY LenProperties, ElementOfSeq
<1> QED BY <1>1, LenProperties, SubSeqProperties

-------------------------------------------------------------------------------
(***************************************************************************)
(* Each action keeps the invariant.                                        *)
(***************************************************************************)
LEMMA EditKeepsTypes ==
    ASSUME TypeInv, NEW key \in Keys, NEW value \in Values, Edit(key, value)
    PROVE  TypeInv'
<1>1. db \in States /\ DOMAIN tracked \subseteq Keys /\ tracked \in [DOMAIN tracked -> Values]
  BY TrackedIsFunction DEF TypeInv, FileOK, EditOK
<1>2. FileOK'
  BY <1>1 DEF TypeInv, FileOK, Edit, States
<1>3. DOMAIN tracked' \subseteq Keys /\ tracked' \in [DOMAIN tracked' -> Values]
  BY <1>1 DEF Edit, States
<1>4. EditOK'
  BY <1>3, TrackedIsFunction DEF TypeInv, EditOK, Edit
<1> QED BY <1>2, <1>4, UnchangedParts DEF TypeInv, Edit

(* Multi-Txn operations, new sessions and abandoning keep the types.       *)
LEMMA SessionActionsKeepTypes ==
    ASSUME TypeInv,
           \/ EditDdl \/ AbandonChanges
           \/ BeginMultiTxnOperation \/ EndMultiTxnOperation \/ RestartTxnSession
    PROVE  TypeInv'
<1>1. CASE EditDdl
  BY <1>1, UnchangedParts DEF TypeInv, EditDdl, EditOK, FileOK
<1>2. CASE AbandonChanges
  BY <1>2, UnchangedParts, RollbackKeepsTypes DEF TypeInv, AbandonChanges
<1>3. CASE BeginMultiTxnOperation
  <2>1. SessionOK'
    BY <1>3, AppendProperties DEF TypeInv, SessionOK, BeginMultiTxnOperation
  <2> QED BY <1>3, <2>1, UnchangedParts DEF TypeInv, BeginMultiTxnOperation
<1>4. CASE EndMultiTxnOperation
  <2>1. multi \in Seq(TxnIds) /\ Len(multi) - 1 \in 0..Len(multi)
    BY <1>4, EmptySeq, LenProperties DEF TypeInv, SessionOK, EndMultiTxnOperation
  <2>2. SessionOK'
    BY <1>4, <2>1, PrefixIsSeq DEF TypeInv, SessionOK, EndMultiTxnOperation
  <2> QED BY <1>4, <2>2, UnchangedParts DEF TypeInv, EndMultiTxnOperation
<1>5. CASE RestartTxnSession
  <2>1. SessionOK'
    BY <1>5, NewSessionIsId, EmptySeq DEF SessionOK, RestartTxnSession
  <2> QED BY <1>5, <2>1, UnchangedParts DEF TypeInv, RestartTxnSession
<1> QED BY <1>1, <1>2, <1>3, <1>4, <1>5

(* Every outcome of SaveChanges keeps the types.                           *)
LEMMA SaveChangesKeepsTypes ==
    ASSUME TypeInv, SaveChanges
    PROVE  TypeInv'
<1>1. SavedOK /\ IsFiniteTable(txns) /\ parent \in Nat
  BY DEF TypeInv, SavedOK, FileOK
<1>2. SavedOK'
  <2>1. CASE SaveUntracked(txns, parent, FALSE)
    BY <1>1, <2>1, SaveUntrackedKeepsTypes
  <2>2. CASE SaveTracked(txns, parent, FALSE)
    BY <1>1, <2>2, SaveTrackedKeepsTypes
  <2>3. CASE SaveFails(txns, parent)
    BY <1>1, <2>3, SaveFailsKeepsTypes
  <2>4. CASE SaveRefused
    BY <1>1, <2>4 DEF SavedOK, FileOK, DiskOK, SessionOK, EditOK, SaveRefused
  <2> QED BY <2>1, <2>2, <2>3, <2>4 DEF SaveChanges
<1> QED BY <1>2, UnchangedParts DEF SavedOK, TypeInv, SaveChanges

(* Applying a Txn, forwards or backwards, and setting its Deleted flag.    *)
LEMMA ApplyTxnKeepsFileOK ==
    ASSUME FileOK, NEW id \in DOMAIN txns, NEW flag \in BOOLEAN,
           NEW change \in {txns[id].change, Invert(txns[id].change)},
           db' = ApplySkipping(change, db), txns' = SetDeleted(txns, id, flag),
           UNCHANGED <<conf, parent>>
    PROVE  FileOK' /\ id \in TxnIds
<1>1. id \in TxnIds /\ txns[id].change \in Changes
  BY DEF FileOK, IsFiniteTable, IsTable, Rows
<1>2. change \in Changes
  BY <1>1, InvertIsChange
<1>3. db' \in States
  BY <1>2, ApplySkippingIsState DEF FileOK
<1>4. IsFiniteTable(txns')
  BY SetDeletedIsTable DEF FileOK
<1> QED BY <1>1, <1>3, <1>4 DEF FileOK

(* The calls that start an undo, each with a range of real ids.            *)
LEMMA ReverseRangeKeepsTypes ==
    ASSUME TypeInv, NEW first \in TxnIds, NEW cancel \in BOOLEAN,
           ReverseRange(first, cancel)
    PROVE  TypeInv'
<1>1. FileOK' /\ EditOK'
  BY AbandonKeepsTypes DEF TypeInv, ReverseRange
<1>2. JobOK'
  BY DEF TypeInv, SessionOK, JobOK, JobOps, ReverseRange
<1> QED BY <1>1, <1>2, UnchangedParts DEF TypeInv, ReverseRange

(* Every call that begins an undo keeps the types.                         *)
LEMMA StartOfUndoKeepsTypes ==
    ASSUME TypeInv,
           \/ \E count \in 1..MaxTxns : ReverseTxns(count)
           \/ \E pos \in Positions : ReverseTo(pos) \/ CancelTo(pos)
           \/ ReverseAll \/ CancelNothing
    PROVE  TypeInv'
<1>1. CASE \E count \in 1..MaxTxns : ReverseTxns(count)
  <2>1. PICK first \in IdsBefore(txns, curr) : ReverseRange(first, FALSE)
    BY <1>1 DEF ReverseTxns
  <2>2. first \in TxnIds
    BY DEF IdsBefore, TypeInv, FileOK, IsFiniteTable, IsTable
  <2> QED BY <2>1, <2>2, ReverseRangeKeepsTypes
<1>2. CASE \E pos \in Positions : ReverseTo(pos) \/ CancelTo(pos)
  <2>1. PICK pos \in Positions : ReverseTo(pos) \/ CancelTo(pos)
    BY <1>2
  <2>2. pos \in TxnIds
    BY DEF Positions, TypeInv, SessionOK, TxnIds
  <2> QED BY <2>1, <2>2, ReverseRangeKeepsTypes DEF ReverseTo, CancelTo
<1>3. CASE ReverseAll
  <2>1. SessionStart(curr) \in TxnIds
    BY DEF TypeInv, SessionOK, SessionStart, TxnIds
  <2> QED BY <1>3, <2>1, ReverseRangeKeepsTypes DEF ReverseAll, ReverseTo
<1>4. CASE CancelNothing
  <2>1. FileOK'
    BY <1>4, WithoutReversedIsTable DEF TypeInv, FileOK, CancelNothing
  <2>2. SessionOK'
    BY <1>4, EmptySeq DEF TypeInv, SessionOK, CancelNothing
  <2> QED BY <1>4, <2>1, <2>2, UnchangedParts DEF TypeInv, CancelNothing
<1> QED BY <1>1, <1>2, <1>3, <1>4

(* Every step, end and failure of an undo keeps the types.                 *)
LEMMA ReverseKeepsTypes ==
    ASSUME TypeInv, ReverseStep \/ ReverseDone \/ ReverseFails
    PROVE  TypeInv'
<1>1. CASE ReverseStep
  <2>1. PICK id \in IdsBefore(txns, job.at) :
            /\ db' = ApplySkipping(Invert(txns[id].change), db)
            /\ txns' = SetDeleted(txns, id, TRUE)
            /\ job' = [job EXCEPT !.at = id]
    BY <1>1 DEF ReverseStep
  <2>2. id \in DOMAIN txns
    BY DEF IdsBefore
  <2>3. FileOK' /\ id \in TxnIds
    BY <1>1, <2>1, <2>2, ApplyTxnKeepsFileOK DEF TypeInv, ReverseStep
  <2>4. JobOK'
    BY <2>1, <2>3 DEF TypeInv, JobOK
  <2> QED BY <1>1, <2>3, <2>4, UnchangedParts DEF TypeInv, ReverseStep
<1>2. CASE ReverseDone
  <2>1. job.first \in TxnIds /\ job.last \in TxnIds
    BY <1>2 DEF TypeInv, JobOK, ReverseDone
  <2>2. IsFiniteTable(txns')
    BY <1>2, WithoutReversedIsTable DEF TypeInv, FileOK, ReverseDone
  <2>3. FileOK' /\ DiskOK'
    BY <1>2, <2>2 DEF TypeInv, FileOK, DiskOK, ReverseDone
  <2>4. reversed' \in Seq(Ranges)
    <3>1. [first |-> job.first, last |-> job.last] \in Ranges
      BY <2>1 DEF Ranges
    <3> QED BY <1>2, <3>1, AppendProperties, EmptySeq DEF TypeInv, SessionOK, ReverseDone
  <2>5. multi' \in Seq(TxnIds)
    BY <1>2, PrefixIsSeq DEF TypeInv, SessionOK, ReverseDone
  <2>6. SessionOK'
    BY <1>2, <2>1, <2>4, <2>5 DEF SessionOK, ReverseDone
  <2>7. JobOK'
    BY <1>2, IdleIsJob DEF ReverseDone
  <2> QED BY <1>2, <2>3, <2>6, <2>7, UnchangedParts DEF TypeInv, ReverseDone
<1>3. CASE ReverseFails
  <2>1. IsFiniteTable(txns')
    BY <1>3, WithoutReversedIsTable DEF TypeInv, DiskOK, ReverseFails
  <2>2. FileOK'
    BY <1>3, <2>1 DEF TypeInv, DiskOK, FileOK, ReverseFails
  <2>3. SessionOK'
    BY <1>3, EmptySeq DEF TypeInv, SessionOK, ReverseFails
  <2>4. JobOK'
    BY <1>3, IdleIsJob DEF ReverseFails
  <2> QED BY <1>3, <2>2, <2>3, <2>4, UnchangedParts DEF TypeInv, ReverseFails
<1> QED BY <1>1, <1>2, <1>3

(* Every step, end and failure of a redo keeps the types.                  *)
LEMMA ReinstateKeepsTypes ==
    ASSUME TypeInv, ReinstateTxn \/ ReinstateStep \/ ReinstateDone \/ ReinstateFails
    PROVE  TypeInv'
<1>1. CASE ReinstateTxn
  <2>1. FileOK' /\ EditOK'
    BY <1>1, AbandonKeepsTypes DEF TypeInv, ReinstateTxn
  <2>2. reversed[Len(reversed)] \in Ranges
    BY <1>1, EmptySeq, ElementOfSeq DEF TypeInv, SessionOK, ReinstateTxn
  <2>3. JobOK'
    BY <1>1, <2>2 DEF JobOK, JobOps, Ranges, ReinstateTxn
  <2> QED BY <1>1, <2>1, <2>3, UnchangedParts DEF TypeInv, ReinstateTxn
<1>2. CASE ReinstateStep
  <2>1. FileOK'
    BY <1>2, ApplyTxnKeepsFileOK DEF TypeInv, ReinstateStep
  <2>2. job' = [job EXCEPT !.at = NoTxn]
            \/ \E id \in IdsAfter(txns, job.at) : job' = [job EXCEPT !.at = id]
    BY <1>2 DEF ReinstateStep
  <2>3. IdsAfter(txns, job.at) \subseteq TxnIds
    BY DEF IdsAfter, TypeInv, FileOK, IsFiniteTable, IsTable
  <2>4. JobOK'
    BY <2>2, <2>3 DEF TypeInv, JobOK
  <2> QED BY <1>2, <2>1, <2>4, UnchangedParts DEF TypeInv, ReinstateStep
<1>3. CASE ReinstateDone
  <2>1. FileOK' /\ DiskOK'
    BY <1>3, UnchangedParts, PersistKeepsDiskOK DEF TypeInv, ReinstateDone
  <2>2. reversed' \in Seq(Ranges)
    <3>1. CASE reversed = <<>>
      <4>1. Len(reversed) - 1 < 1 /\ Len(reversed) - 1 \in Int
        BY <3>1, EmptySeq
      <4>2. reversed' = <<>>
        BY <1>3, <4>1, SubSeqEmpty DEF ReinstateDone
      <4> QED BY <4>2, EmptySeq
    <3>2. CASE reversed # <<>>
      <4>1. reversed \in Seq(Ranges) /\ Len(reversed) - 1 \in 0..Len(reversed)
        BY <3>2, EmptySeq, LenProperties DEF TypeInv, SessionOK
      <4> QED BY <1>3, <4>1, PrefixIsSeq DEF ReinstateDone
    <3> QED BY <3>1, <3>2
  <2>3. SessionOK'
    BY <1>3, <2>2 DEF TypeInv, SessionOK, JobOK, ReinstateDone
  <2>4. JobOK'
    BY <1>3, IdleIsJob DEF ReinstateDone
  <2> QED BY <1>3, <2>1, <2>3, <2>4, UnchangedParts DEF TypeInv, ReinstateDone
<1>4. CASE ReinstateFails
  BY <1>4, IdleIsJob, RollbackKeepsTypes, UnchangedParts DEF TypeInv, ReinstateFails
<1> QED BY <1>1, <1>2, <1>3, <1>4

(* Packaging the Txns into a changeset keeps the types.                    *)
LEMMA StartCreateChangesetKeepsTypes ==
    ASSUME TypeInv, StartCreateChangeset \/ StartCreateChangesetFails
    PROVE  TypeInv'
<1>1. IsFiniteTable(WithoutReversed(txns))
  BY WithoutReversedIsTable DEF TypeInv, FileOK
<1>2. CASE StartCreateChangeset
  <2>1. FileOK' /\ DiskOK'
    BY <1>1, <1>2, PersistKeepsDiskOK DEF TypeInv, FileOK, StartCreateChangeset
  <2>2. SessionOK'
    BY <1>2, NewSessionIsId, EmptySeq DEF SessionOK, StartCreateChangeset
  <2>3. GroupedChange(WithoutReversed(txns), curr) \in Changes
    BY <1>1, GroupedChangeIsChange
  <2>4. PushOK'
    BY <1>2, <2>3 DEF TypeInv, SessionOK, FileOK, PushOK, StartCreateChangeset
  <2> QED BY <1>2, <2>1, <2>2, <2>4, UnchangedParts DEF TypeInv, StartCreateChangeset
<1>3. CASE StartCreateChangesetFails
  <2>1. FileOK'
    BY <1>1, <1>3 DEF TypeInv, FileOK, StartCreateChangesetFails
  <2>2. SessionOK'
    BY <1>3, EmptySeq DEF TypeInv, SessionOK, StartCreateChangesetFails
  <2>3. PushOK'
    BY <1>3, NotCreatingIsPush DEF StartCreateChangesetFails
  <2> QED BY <1>3, <2>1, <2>2, <2>3, UnchangedParts DEF TypeInv, StartCreateChangesetFails
<1> QED BY <1>2, <1>3

(* FinishCreateChangeset keeps the types, whether its save succeeds or     *)
(* not.                                                                    *)
LEMMA FinishKeepsTypes ==
    ASSUME TypeInv, FinishCreateChangeset
    PROVE  TypeInv'
<1> DEFINE table == From(txns, creating.end)
           version == creating.parent + 1
<1>1. SavedOK /\ IsFiniteTable(table) /\ version \in Nat
  BY FromIsTable DEF TypeInv, SavedOK, FileOK, PushOK
<1>2. \/ SaveUntracked(table, version, TRUE) /\ creating' = NotCreating
      \/ SaveTracked(table, version, TRUE) /\ creating' = NotCreating
      \/ SaveFails(table, version) /\ UNCHANGED creating
  BY DEF FinishCreateChangeset
<1> HIDE DEF table, version
<1>3. SavedOK'
  BY <1>1, <1>2, SaveUntrackedKeepsTypes, SaveTrackedKeepsTypes, SaveFailsKeepsTypes
<1>4. PushOK'
  BY <1>2, NotCreatingIsPush, UnchangedParts DEF TypeInv
<1> QED BY <1>3, <1>4, UnchangedParts DEF SavedOK, TypeInv, FinishCreateChangeset

(* The version the hub adds is a state.                                    *)
LEMMA UploadKeepsTypes ==
    ASSUME TypeInv, Upload
    PROVE  TypeInv'
<1> DEFINE version == [k \in Keys |-> IF k \in DOMAIN creating.change
                                      THEN creating.change[k].new
                                      ELSE hub[Len(hub)][k]]
<1>1. hub[Len(hub)] \in States
  BY EmptySeq, ElementOfSeq DEF TypeInv, HubOK
<1>2. creating.change \in [DOMAIN creating.change -> OldAndNew]
  BY ChangeIsFunction DEF TypeInv, PushOK
<1>3. version \in States
  BY <1>1, <1>2 DEF States, OldAndNew
<1>4. hub' = Append(hub, version)
  BY DEF Upload
<1> HIDE DEF version
<1>5. HubOK'
  BY <1>3, <1>4, AppendProperties DEF TypeInv, HubOK
<1>6. PushOK'
  BY DEF TypeInv, PushOK, Upload
<1> QED BY <1>5, <1>6, UnchangedParts DEF TypeInv, Upload

(* Every call of a push keeps the types.                                   *)
LEMMA PushKeepsTypes ==
    ASSUME TypeInv, PushNext
    PROVE  TypeInv'
<1>1. CASE StopCreateChangeset
  BY <1>1, NotCreatingIsPush, UnchangedParts DEF TypeInv, StopCreateChangeset
<1> QED BY <1>1, StartCreateChangesetKeepsTypes, FinishKeepsTypes, UploadKeepsTypes
        DEF PushNext

(* Every step of DiscardLocalChanges keeps the types.                      *)
LEMMA DiscardKeepsTypes ==
    ASSUME TypeInv, DiscardNext
    PROVE  TypeInv'
<1>1. CASE DiscardLocalChanges
  <2>1. conf' \in Confs
    BY <1>1 DEF TypeInv, DiskOK, Confs, Stages, DiscardLocalChanges
  <2>2. FileOK'
    BY <1>1, <2>1, WithoutReversedIsTable DEF TypeInv, DiskOK, FileOK, DiscardLocalChanges
  <2>3. SessionOK'
    BY <1>1, EmptySeq DEF TypeInv, SessionOK, DiscardLocalChanges
  <2>4. EditOK'
    BY <1>1, EmptyMapIsTracked DEF EditOK, DiscardLocalChanges
  <2>5. <<curr[1] + 1, 0>> \in TxnIds
    BY DEF TypeInv, SessionOK, TxnIds
  <2>6. JobOK'
    BY <1>1, <2>5 DEF JobOK, JobOps, Idle, DiscardLocalChanges
  <2> QED BY <1>1, <2>2, <2>3, <2>4, <2>6, UnchangedParts DEF TypeInv, DiscardLocalChanges
<1>2. CASE DiscardStep
  <2>1. PICK id \in IdsBefore(txns, job.at) :
            /\ db' = ApplySkipping(Invert(txns[id].change), db)
            /\ txns' = SetDeleted(txns, id, TRUE)
            /\ job' = [job EXCEPT !.at = id]
    BY <1>2 DEF DiscardStep
  <2>2. id \in DOMAIN txns
    BY DEF IdsBefore
  <2>3. FileOK' /\ id \in TxnIds
    BY <1>2, <2>1, <2>2, ApplyTxnKeepsFileOK DEF TypeInv, DiscardStep
  <2>4. JobOK'
    BY <2>1, <2>3 DEF TypeInv, JobOK
  <2> QED BY <1>2, <2>3, <2>4, UnchangedParts DEF TypeInv, DiscardStep
<1>3. CASE DiscardFails
  BY <1>3, IdleIsJob, RollbackKeepsTypes, UnchangedParts DEF TypeInv, DiscardFails
<1>4. CASE DiscardReversed
  <2>1. FileOK' /\ DiskOK'
    <3>1. FileOK'
      BY <1>4 DEF TypeInv, FileOK, NoConf, Confs, Stages, DiscardReversed
    <3> QED BY <1>4, <3>1, PersistKeepsDiskOK DEF DiscardReversed
  <2>2. JobOK'
    BY <1>4 DEF JobOK, JobOps, Idle, DiscardReversed
  <2> QED BY <1>4, <2>1, <2>2, UnchangedParts DEF TypeInv, DiscardReversed
<1>5. CASE DeleteAllTxns
  <2>1. FileOK' /\ DiskOK'
    <3>1. FileOK'
      BY <1>5, EmptyIsTable DEF TypeInv, FileOK, DeleteAllTxns
    <3> QED BY <1>5, <3>1, PersistKeepsDiskOK DEF DeleteAllTxns
  <2>2. SessionOK'
    BY <1>5, EmptySeq DEF SessionOK, TxnIds, DeleteAllTxns
  <2>3. JobOK'
    BY <1>5, IdleIsJob DEF DeleteAllTxns
  <2> QED BY <1>5, <2>1, <2>2, <2>3, UnchangedParts DEF TypeInv, DeleteAllTxns
<1> QED BY <1>1, <1>2, <1>3, <1>4, <1>5 DEF DiscardNext

(* A crash falls back on the file, whose values have their types.          *)
LEMMA CrashKeepsTypes ==
    ASSUME TypeInv, Crash
    PROVE  TypeInv'
<1>1. FileOK' /\ EditOK'
  BY RollbackKeepsTypes DEF TypeInv, Crash
<1>2. SessionOK'
  BY NewSessionIsId, EmptySeq DEF SessionOK, Crash
<1>3. PushOK' /\ JobOK'
  BY NotCreatingIsPush, IdleIsJob DEF Crash
<1> QED BY <1>1, <1>2, <1>3, UnchangedParts DEF TypeInv, Crash

-------------------------------------------------------------------------------
(* The type invariant, in every reachable state of every briefcase.        *)
THEOREM TypeInvInit == Init => TypeInv
<1> SUFFICES ASSUME Init PROVE TypeInv
  OBVIOUS
<1> USE DEF Init
<1>1. FileOK /\ DiskOK
  BY InitialStateAssumption, EmptyIsTable DEF FileOK, DiskOK, NoConf, Confs, Stages
<1>2. SessionOK
  BY EmptySeq DEF SessionOK, TxnIds
<1>3. EditOK
  BY EmptyMapIsTracked DEF EditOK
<1>4. PushOK
  BY EmptyIsChange DEF PushOK, NotCreating
<1>5. HubOK
  <2>1. hub = Append(<<>>, InitialState)
    BY InitialStateAssumption
  <2> QED BY <2>1, InitialStateAssumption, EmptySeq, AppendProperties DEF HubOK
<1>6. JobOK
  BY DEF JobOK, Idle, JobOps
<1> QED BY <1>1, <1>2, <1>3, <1>4, <1>5, <1>6 DEF TypeInv

(* Every step of Next, and stuttering, keeps the invariant.                *)
THEOREM TypeInvStep == TypeInv /\ [Next]_vars => TypeInv'
<1> SUFFICES ASSUME TypeInv, [Next]_vars PROVE TypeInv'
  OBVIOUS
<1>1. CASE \E key \in Keys, value \in Values : Edit(key, value)
  BY <1>1, EditKeepsTypes
<1>2. CASE \/ EditDdl \/ AbandonChanges
           \/ BeginMultiTxnOperation \/ EndMultiTxnOperation \/ RestartTxnSession
  BY <1>2, SessionActionsKeepTypes
<1>3. CASE SaveChanges
  BY <1>3, SaveChangesKeepsTypes
<1>4. CASE UndoNext
  BY <1>4, StartOfUndoKeepsTypes, ReverseKeepsTypes, ReinstateKeepsTypes DEF UndoNext
<1>5. CASE PushNext
  BY <1>5, PushKeepsTypes
<1>6. CASE DiscardNext
  BY <1>6, DiscardKeepsTypes
<1>7. CASE Crash
  BY <1>7, CrashKeepsTypes
<1>8. CASE UNCHANGED vars
  BY <1>8, UnchangedParts DEF TypeInv
<1> QED BY <1>1, <1>2, <1>3, <1>4, <1>5, <1>6, <1>7, <1>8 DEF Next

(* Every reachable state is well typed: in particular curr, which undo,    *)
(* redo, discarding and a restart move back and forth, is always a valid   *)
(* TxnId, and what is pushed is always a changeset.                        *)
THEOREM TypeCorrect == Spec => []TypeOK
<1>1. Spec => []TypeInv
  BY TypeInvInit, TypeInvStep, PTL DEF Spec
<1> QED BY <1>1, TypeInvImpliesTypeOK, PTL

-------------------------------------------------------------------------------
(***************************************************************************)
(* The next id.  Going back and using ids again never gives a new Txn the  *)
(* id of a row that is wanted.                                             *)
(***************************************************************************)

(* Every row from id on is reversed.                                       *)
Freed(table, id) == \A i \in DOMAIN table : ~Before(i, id) => table[i].deleted

(* No row from id on exists.                                               *)
AllBefore(table, id) == \A i \in DOMAIN table : Before(i, id)

(* What is live in one table is live in another.                           *)
LiveKept(from, to) ==
    \A i \in DOMAIN from : ~from[i].deleted => i \in DOMAIN to /\ ~to[i].deleted

(* Redo never moves curr past the end of a range further down the stack.   *)
Stacked(ranges, id) ==
    \A n \in 1..Len(ranges) :
        /\ ~Before(ranges[n].last, id)
        /\ \A m \in 1..n : ~Before(ranges[m].last, ranges[n].last)

(* The file a crash or rollback falls back on has room from curr on, and   *)
(* so has the open transaction wherever a call may begin or discarding is  *)
(* under way.                                                              *)
FileFreed == Freed(disk.txns, curr)
WorkFreed == job.op \in {"None", "Discard"} => Freed(txns, curr)

(* Undo has freed the ids down to the row it is at; redo frees none below  *)
(* the end of the range on top of the stack, where curr will be set.       *)
ReverseFreed ==
    job.op = "Reverse" =>
        /\ Freed(txns, job.at) /\ job.at \in TxnIds
        /\ job.last = curr /\ Before(job.first, curr)
ReinstateFreed ==
    job.op = "Reinstate" =>
        /\ reversed # <<>> /\ job.last = reversed[Len(reversed)].last
        /\ Freed(txns, job.last)

(* A new session is found in the open table, a crash in the file: a Txn    *)
(* that is live in the file is live in the open table too, except after a  *)
(* save that failed, which the client abandons.                            *)
FileKept ==
    job.op = "None" /\ lastSave # "PropagateChangesFailed" => LiveKept(disk.txns, txns)

IdInv == /\ FileFreed /\ WorkFreed /\ ReverseFreed /\ ReinstateFreed /\ FileKept
         /\ Stacked(reversed, curr)

(* The invariant is stronger than the one TLC checks.                      *)
LEMMA IdInvImpliesFree == IdInv => NextIdIsFree
  BY DEF IdInv, FileFreed, WorkFreed, Freed, NextIdIsFree

-------------------------------------------------------------------------------
(***************************************************************************)
(* Lemmas about tables.                                                    *)
(***************************************************************************)

(* What is free from an id on is free from a later id on.                  *)
LEMMA FreedFromLater ==
    ASSUME NEW table, IsFiniteTable(table), NEW a \in TxnIds, NEW b \in TxnIds,
           Freed(table, a), ~Before(b, a)
    PROVE  Freed(table, b)
<1>1. ASSUME NEW i \in DOMAIN table, ~Before(i, b) PROVE ~Before(i, a)
  <2>1. i \in TxnIds
    BY DEF IsFiniteTable, IsTable
  <2> QED BY <1>1, <2>1 DEF TxnIds, Before
<1> QED BY <1>1 DEF Freed

(* Deleting rows frees no fewer ids.                                       *)
LEMMA KeepIsFreed ==
    ASSUME NEW table, IsFiniteTable(table), NEW id, Freed(table, id), NEW ids
    PROVE  Freed(Keep(table, ids), id)
<1>1. /\ DOMAIN Keep(table, ids) = DOMAIN table \cap ids
      /\ \A i \in DOMAIN Keep(table, ids) : Keep(table, ids)[i] = table[i]
  BY KeepIsTable
<1> QED BY <1>1 DEF Freed

(* The rows that are not reversed: all of them are live, and live ones     *)
(* they stay.                                                              *)
LEMMA WithoutReversedIsLive ==
    ASSUME NEW table, IsFiniteTable(table)
    PROVE  /\ \A i \in DOMAIN WithoutReversed(table) :
                 i \in DOMAIN table /\ ~WithoutReversed(table)[i].deleted
           /\ LiveKept(table, WithoutReversed(table))
<1> DEFINE live == {i \in DOMAIN table : ~table[i].deleted}
<1>1. /\ DOMAIN Keep(table, live) = DOMAIN table \cap live
      /\ \A i \in DOMAIN Keep(table, live) : Keep(table, live)[i] = table[i]
  BY KeepIsTable
<1> QED BY <1>1 DEF WithoutReversed, LiveKept

(* Once reversed rows are deleted no row is left from a free id on.        *)
LEMMA WithoutReversedIsBefore ==
    ASSUME NEW table, IsFiniteTable(table), NEW id, Freed(table, id)
    PROVE  AllBefore(WithoutReversed(table), id)
<1>1. \A i \in DOMAIN WithoutReversed(table) :
          i \in DOMAIN table /\ ~table[i].deleted
  BY KeepIsTable DEF WithoutReversed
<1> QED BY <1>1 DEF Freed, AllBefore

(* With every row before an id, nothing is live from it on.                *)
LEMMA AllBeforeIsFreed ==
    ASSUME NEW table, NEW id, AllBefore(table, id)
    PROVE  Freed(table, id)
  BY DEF AllBefore, Freed

(* A new session begins past every row.                                    *)
LEMMA NewSessionIsPast ==
    ASSUME NEW table, IsFiniteTable(table), NEW id \in NewSessions(table)
    PROVE  AllBefore(table, id)
<1>1. IsNewSession(table, id)
  BY DEF NewSessions
<1>2. CASE DOMAIN table = {}
  BY <1>2 DEF AllBefore
<1>3. CASE \E last \in DOMAIN table :
               IsLast(last, DOMAIN table) /\ id = <<last[1] + 1, 0>>
  <2>1. PICK last \in DOMAIN table :
            IsLast(last, DOMAIN table) /\ id = <<last[1] + 1, 0>>
    BY <1>3
  <2>2. ASSUME NEW i \in DOMAIN table PROVE Before(i, id)
    <3>1. i \in TxnIds /\ last \in TxnIds
      BY DEF IsFiniteTable, IsTable
    <3>2. ~Before(last, i)
      BY <2>1 DEF IsLast
    <3> QED BY <2>1, <3>1, <3>2 DEF TxnIds, Before
  <2> QED BY <2>2 DEF AllBefore
<1> QED BY <1>1, <1>2, <1>3 DEF IsNewSession

(* SaveTxn's row is inserted at the id it moves past.                      *)
IsSavedFree(s) == IsSaved(s) /\ AllBefore(s.txns, s.curr)

(* SaveTxn inserts at m_curr and moves m_curr past the row.                *)
LEMMA SaveTxnLeavesNextIdFree ==
    ASSUME NEW from, IsSavedFree(from), NEW type \in TxnTypes, NEW change \in Changes,
           NEW s \in SaveTxn(from, type, change)
    PROVE  IsSavedFree(s)
<1> DEFINE isGrouped == from.multi # <<>> /\ Before(Head(from.multi), from.curr)
           row == [type |-> type, deleted |-> FALSE, change |-> change,
                   grouped |-> isGrouped]
           table == Insert(from.txns, from.curr, row)
<1>1. IsSaved(s)
  BY SaveTxnKeepsTypes DEF IsSavedFree
<1>2. DOMAIN table = DOMAIN from.txns \cup {from.curr}
  BY DEF Insert
<1> HIDE DEF row, isGrouped
<1>3. CASE type = "Data"
  <2>1. s = [txns |-> table, curr |-> Increment(from.curr), multi |-> from.multi]
    BY <1>3 DEF SaveTxn, isGrouped, row
  <2>2. from.curr \in TxnIds
    BY DEF IsSavedFree, IsSaved
  <2>3. ASSUME NEW i \in DOMAIN table PROVE Before(i, Increment(from.curr))
    <3>1. CASE i = from.curr
      BY <2>2, <3>1, IncrementIsLater
    <3>2. CASE i \in DOMAIN from.txns
      <4>1. i \in TxnIds /\ Before(i, from.curr)
        BY <3>2 DEF IsSavedFree, IsSaved, IsFiniteTable, IsTable, AllBefore
      <4> QED BY <2>2, <4>1, IncrementIsLater, BeforeIsTransitive
    <3> QED BY <1>2, <3>1, <3>2
  <2> QED BY <1>1, <2>1, <2>3 DEF IsSavedFree, AllBefore
<1>4. CASE type # "Data"
  <2>1. PICK id \in NewSessions(table) : s = [txns |-> table, curr |-> id, multi |-> <<>>]
    BY <1>4 DEF SaveTxn, isGrouped, row
  <2>2. IsFiniteTable(table)
    BY <1>1, <2>1 DEF IsSaved
  <2> QED BY <1>1, <2>1, <2>2, NewSessionIsPast DEF IsSavedFree
<1> QED BY <1>3, <1>4

-------------------------------------------------------------------------------
(***************************************************************************)
(* Saves.                                                                  *)
(***************************************************************************)

(* What holds when a call has ended that did not fail.                     *)
Settled == /\ Freed(txns, curr) /\ Freed(disk.txns, curr)
           /\ LiveKept(disk.txns, txns) /\ Stacked(reversed, curr)

(* A settled state without a call under way satisfies the invariant.       *)
LEMMA SettledIsInv ==
    ASSUME job'.op = "None", Settled'
    PROVE  IdInv'
  BY DEF Settled, IdInv, FileFreed, WorkFreed, ReverseFreed, ReinstateFreed, FileKept

(* A COMMIT leaves nothing live in the file that the open table lacks.     *)
LEMMA PersistKeepsLive ==
    ASSUME Persist
    PROVE  disk'.txns = txns' /\ LiveKept(disk'.txns, txns')
  BY DEF Persist, LiveKept

(* An empty m_reversedTxn is stacked below any id.                         *)
LEMMA EmptyIsStacked ==
    ASSUME NEW id
    PROVE  Stacked(<<>>, id)
  BY DEF Stacked

(* The session is settled on a free id, whichever branch is taken.         *)
LEMMA SettleLeavesNextIdFree ==
    ASSUME NEW table, NEW id, NEW operations, NEW ranges, NEW restart,
           Freed(table, id), Stacked(ranges, id),
           SettleSession(table, id, operations, ranges, restart)
    PROVE  Freed(table, curr') /\ Stacked(reversed', curr')
<1>1. CASE restart /\ ~HasPendingTxns(table)
  <2>1. Freed(table, curr')
    BY <1>1 DEF Freed, HasPendingTxns
  <2>2. reversed' = <<>>
    BY <1>1 DEF SettleSession
  <2> QED BY <2>1, <2>2, EmptyIsStacked
<1>2. CASE ~(restart /\ ~HasPendingTxns(table))
  <2>1. curr' = id /\ reversed' = ranges
    BY <1>2 DEF SettleSession
  <2> QED BY <2>1
<1> QED BY <1>1, <1>2

(* A save with nothing to save.                                            *)
LEMMA SaveUntrackedSettles ==
    ASSUME NEW table, NEW version, NEW restart,
           Freed(table, curr), Stacked(reversed, curr),
           SaveUntracked(table, version, restart)
    PROVE  Settled'
<1>1. txns' = table /\ Persist /\ SettleSession(table, curr, multi, reversed, restart)
  BY DEF SaveUntracked
<1>2. Freed(table, curr') /\ Stacked(reversed', curr')
  BY <1>1, SettleLeavesNextIdFree
<1> QED BY <1>1, <1>2, PersistKeepsLive DEF Settled

(* A save that makes one Txn, or two when there is DDL.                    *)
LEMMA SaveTrackedSettles ==
    ASSUME SavedOK, NEW table, IsFiniteTable(table), Freed(table, curr),
           NEW version, NEW restart, SaveTracked(table, version, restart)
    PROVE  Settled'
<1>1. PICK state \in Propagated :
          LET start == [txns |-> WithoutReversed(table), curr |-> curr, multi |-> multi]
          IN \E middle \in SaveDdlTxn(start) :
             \E end \in SaveSchemaAndDataTxns(middle, Difference(BeforeEdits, state)) :
                /\ Cardinality(DOMAIN end.txns) <= MaxTxns /\ end.curr[2] <= MaxTxns
                /\ db' = state /\ txns' = end.txns
                /\ SettleSession(end.txns, end.curr, end.multi, <<>>, restart)
  BY DEF SaveTracked
<1> DEFINE start == [txns |-> WithoutReversed(table), curr |-> curr, multi |-> multi]
           change == Difference(BeforeEdits, state)
<1>2. PICK middle \in SaveDdlTxn(start) :
          \E end \in SaveSchemaAndDataTxns(middle, change) :
             /\ txns' = end.txns
             /\ SettleSession(end.txns, end.curr, end.multi, <<>>, restart)
  BY <1>1
<1>3. PICK end \in SaveSchemaAndDataTxns(middle, change) :
          /\ txns' = end.txns
          /\ SettleSession(end.txns, end.curr, end.multi, <<>>, restart)
  BY <1>2
<1>4. change \in Changes
  BY BeforeEditsIsState, DifferenceIsChange DEF SavedOK
<1>5. IsSavedFree(start)
  BY WithoutReversedIsTable, WithoutReversedIsBefore
  DEF IsSavedFree, IsSaved, SavedOK, SessionOK
<1> HIDE DEF start, change
<1>6. IsSavedFree(middle)
  <2>1. CASE ddl
    <3>1. middle \in SaveTxn(start, "Ddl", EmptyMap)
      BY <2>1 DEF SaveDdlTxn
    <3> QED BY <1>5, <3>1, SaveTxnLeavesNextIdFree, EmptyIsChange DEF TxnTypes
  <2>2. CASE ~ddl
    BY <1>5, <2>2 DEF SaveDdlTxn
  <2> QED BY <2>1, <2>2
<1>7. IsSavedFree(end)
  <2>1. CASE DOMAIN change = {}
    BY <1>6, <2>1 DEF SaveSchemaAndDataTxns
  <2>2. CASE DOMAIN change # {}
    <3> DEFINE type == IF DOMAIN DirectChange \cap SchemaKeys # {} THEN "EcSchema" ELSE "Data"
    <3>1. end \in SaveTxn(middle, type, change) /\ type \in TxnTypes
      BY <2>2 DEF SaveSchemaAndDataTxns, TxnTypes
    <3> HIDE DEF type
    <3> QED BY <1>4, <1>6, <3>1, SaveTxnLeavesNextIdFree
  <2> QED BY <2>1, <2>2
<1>8. Freed(end.txns, end.curr)
  BY <1>7, AllBeforeIsFreed DEF IsSavedFree
<1>9. Freed(end.txns, curr') /\ Stacked(reversed', curr')
  BY <1>3, <1>8, EmptyIsStacked, SettleLeavesNextIdFree
<1> QED BY <1>3, <1>9, PersistKeepsLive DEF SaveTracked, Settled

(* A save whose propagation fails: the file is as it was, and nothing but  *)
(* rows before curr is left.                                               *)
LEMMA SaveFailsKeepsIdInv ==
    ASSUME IdInv, job.op = "None", UNCHANGED job,
           NEW table, IsFiniteTable(table), Freed(table, curr),
           NEW version, SaveFails(table, version)
    PROVE  IdInv'
<1>1. /\ txns' = WithoutReversed(table) /\ UNCHANGED <<disk, curr>>
      /\ reversed' = <<>> /\ lastSave' = "PropagateChangesFailed"
  BY DEF SaveFails
<1>2. Freed(txns', curr')
  BY <1>1, WithoutReversedIsBefore, AllBeforeIsFreed
<1>3. Stacked(reversed', curr')
  BY <1>1, EmptyIsStacked
<1> QED BY <1>1, <1>2, <1>3
        DEF IdInv, FileFreed, WorkFreed, ReverseFreed, ReinstateFreed, FileKept

-------------------------------------------------------------------------------
(***************************************************************************)
(* The actions.  A client that saves again after a save that failed, the   *)
(* mishap SaveAfterFailure, may lose the invariant: see run                *)
(* save_after_failure.                                                     *)
(***************************************************************************)
AbandonsFailure == "SaveAfterFailure" \notin Mishaps

(* At the start of a call of the client the file's live Txns are live.     *)
LEMMA ReadyIsSettled ==
    ASSUME AbandonsFailure, IdInv, ClientReady
    PROVE  Settled /\ job.op = "None"
  BY DEF AbandonsFailure, ClientReady, IdInv, Settled, FileFreed, WorkFreed, FileKept

(* What leaves ids, tables and the outcome of the last save alone.         *)
LEMMA UnchangedKeepsIdInv ==
    ASSUME IdInv, UNCHANGED <<disk, txns, curr, reversed, job, lastSave>>
    PROVE  IdInv'
  BY DEF IdInv, FileFreed, WorkFreed, ReverseFreed, ReinstateFreed, FileKept

(* A rollback falls back on the file.                                      *)
LEMMA RollbackSettles ==
    ASSUME IdInv, Rollback, UNCHANGED <<disk, curr, reversed>>
    PROVE  Settled'
  BY DEF IdInv, FileFreed, Settled, Rollback, LiveKept

(* A new session, found in an open table that keeps the file's live Txns.  *)
LEMMA RestartSettles ==
    ASSUME NEW table, IsFiniteTable(table), LiveKept(disk.txns, table),
           UNCHANGED disk, txns' = table, curr' \in NewSessions(table),
           reversed' = <<>>
    PROVE  Settled'
<1>1. AllBefore(table, curr')
  BY NewSessionIsPast
<1>2. Freed(disk.txns, curr')
  BY <1>1 DEF AllBefore, Freed, LiveKept
<1> QED BY <1>1, <1>2, AllBeforeIsFreed, EmptyIsStacked DEF Settled

(* Editing, abandoning, multi-Txn operations and restarting the session.   *)
LEMMA SessionActionsKeepIdInv ==
    ASSUME TypeInv, AbandonsFailure, IdInv,
           \/ \E key \in Keys, value \in Values : Edit(key, value)
           \/ EditDdl \/ AbandonChanges
           \/ BeginMultiTxnOperation \/ EndMultiTxnOperation \/ RestartTxnSession
    PROVE  IdInv'
<1>1. CASE \E key \in Keys, value \in Values : Edit(key, value)
  BY <1>1, UnchangedKeepsIdInv DEF Edit
<1>2. CASE EditDdl
  BY <1>2, UnchangedKeepsIdInv DEF EditDdl
<1>3. CASE AbandonChanges
  BY <1>3, RollbackSettles, SettledIsInv DEF AbandonChanges
<1>4. CASE BeginMultiTxnOperation
  BY <1>4, UnchangedKeepsIdInv DEF BeginMultiTxnOperation
<1>5. CASE EndMultiTxnOperation
  BY <1>5, UnchangedKeepsIdInv DEF EndMultiTxnOperation
<1>6. CASE RestartTxnSession
  <2>1. Settled /\ job.op = "None"
    BY <1>6, ReadyIsSettled DEF RestartTxnSession
  <2>2. Settled'
    BY <1>6, <2>1, RestartSettles DEF TypeInv, FileOK, Settled, RestartTxnSession
  <2> QED BY <1>6, <2>1, <2>2, SettledIsInv DEF RestartTxnSession
<1> QED BY <1>1, <1>2, <1>3, <1>4, <1>5, <1>6

(* SaveChanges, whatever it returns.                                       *)
LEMMA SaveChangesKeepsIdInv ==
    ASSUME TypeInv, AbandonsFailure, IdInv, SaveChanges
    PROVE  IdInv'
<1>1. Settled /\ job.op = "None" /\ UNCHANGED job
  BY ReadyIsSettled DEF SaveChanges
<1>2. SavedOK /\ IsFiniteTable(txns) /\ parent \in Nat
  BY DEF TypeInv, SavedOK, FileOK
<1>3. CASE SaveUntracked(txns, parent, FALSE)
  BY <1>1, <1>3, SaveUntrackedSettles, SettledIsInv DEF Settled
<1>4. CASE SaveTracked(txns, parent, FALSE)
  BY <1>1, <1>2, <1>4, SaveTrackedSettles, SettledIsInv DEF Settled
<1>5. CASE SaveFails(txns, parent)
  BY <1>1, <1>2, <1>5, SaveFailsKeepsIdInv DEF Settled
<1>6. CASE SaveRefused
  <2>1. Settled'
    BY <1>1, <1>6 DEF Settled, SaveRefused
  <2> QED BY <1>1, <2>1, SettledIsInv
<1> QED BY <1>3, <1>4, <1>5, <1>6 DEF SaveChanges

(* A crash falls back on the file, and the next session is past its rows.  *)
LEMMA CrashKeepsIdInv ==
    ASSUME TypeInv, Crash
    PROVE  IdInv'
<1>1. IsFiniteTable(disk.txns)
  BY DEF TypeInv, DiskOK
<1>2. LiveKept(disk.txns, disk.txns)
  BY DEF LiveKept
<1>3. Settled'
  BY <1>1, <1>2, RestartSettles DEF Crash, Rollback
<1> QED BY <1>3, SettledIsInv DEF Crash, Idle

-------------------------------------------------------------------------------
(***************************************************************************)
(* Undo.                                                                   *)
(***************************************************************************)
(* Deleting reversed rows loses none of the live ones.                     *)
LEMMA LiveKeptWithoutReversed ==
    ASSUME NEW from, NEW to, IsFiniteTable(to), LiveKept(from, to)
    PROVE  LiveKept(from, WithoutReversed(to))
  BY WithoutReversedIsLive DEF LiveKept

(* Deleting the reversed rows of the open table alone.                     *)
LEMMA DeleteReversedSettles ==
    ASSUME NEW table, IsFiniteTable(table), Freed(table, curr),
           Freed(disk.txns, curr), LiveKept(disk.txns, table),
           UNCHANGED <<disk, curr>>, txns' = WithoutReversed(table), reversed' = <<>>
    PROVE  Settled'
  BY WithoutReversedIsBefore, AllBeforeIsFreed, LiveKeptWithoutReversed, EmptyIsStacked
  DEF Settled

(* Setting out to undo a range leaves the ids as they are.                 *)
LEMMA ReverseRangeKeepsIdInv ==
    ASSUME TypeInv, AbandonsFailure, IdInv, NEW first, NEW cancel,
           Before(first, curr), ReverseRange(first, cancel)
    PROVE  IdInv'
<1>1. Settled
  BY ReadyIsSettled DEF ReverseRange
<1>2. txns' = txns \/ txns' = disk.txns
  BY DEF ReverseRange, AbandonIfChanged, Rollback
<1>3. UNCHANGED <<disk, curr, reversed>>
  BY DEF ReverseRange
<1>4. Freed(txns', curr')
  BY <1>1, <1>2, <1>3 DEF Settled
<1>5. ReverseFreed' /\ ReinstateFreed' /\ WorkFreed' /\ FileKept'
  BY <1>3, <1>4
  DEF ReverseRange, TypeInv, SessionOK, ReverseFreed, ReinstateFreed, WorkFreed, FileKept
<1> QED BY <1>3, <1>5 DEF IdInv, FileFreed

(* So does every call that undoes or cancels.                              *)
LEMMA StartOfUndoKeepsIdInv ==
    ASSUME TypeInv, AbandonsFailure, IdInv,
           \/ \E count \in 1..MaxTxns : ReverseTxns(count)
           \/ \E pos \in Positions : ReverseTo(pos) \/ CancelTo(pos)
           \/ ReverseAll \/ CancelNothing
    PROVE  IdInv'
<1>1. CASE \E count \in 1..MaxTxns : ReverseTxns(count)
  <2>1. PICK first \in IdsBefore(txns, curr) : ReverseRange(first, FALSE)
    BY <1>1 DEF ReverseTxns
  <2>2. Before(first, curr)
    BY DEF IdsBefore
  <2> QED BY <2>1, <2>2, ReverseRangeKeepsIdInv
<1>2. CASE \E pos \in Positions : ReverseTo(pos) \/ CancelTo(pos)
  <2>1. PICK pos \in Positions : ReverseTo(pos) \/ CancelTo(pos)
    BY <1>2
  <2>2. Before(pos, curr) /\ (ReverseRange(pos, FALSE) \/ ReverseRange(pos, TRUE))
    BY <2>1 DEF ReverseTo, CancelTo, CanReverseTo
  <2> QED BY <2>2, ReverseRangeKeepsIdInv
<1>3. CASE ReverseAll
  <2>1. Before(SessionStart(curr), curr) /\ ReverseRange(SessionStart(curr), FALSE)
    BY <1>3 DEF ReverseAll, ReverseTo, CanReverseTo
  <2> QED BY <2>1, ReverseRangeKeepsIdInv
<1>4. CASE CancelNothing
  <2>1. Settled /\ job.op = "None"
    BY <1>4, ReadyIsSettled DEF CancelNothing
  <2>2. Settled'
    BY <1>4, <2>1, DeleteReversedSettles DEF TypeInv, FileOK, Settled, CancelNothing
  <2> QED BY <1>4, <2>1, <2>2, SettledIsInv DEF CancelNothing
<1> QED BY <1>1, <1>2, <1>3, <1>4

(* A step of undo frees the row it reverses: none lies between that row    *)
(* and where the walk was.                                                 *)
LEMMA ReverseStepFrees ==
    ASSUME NEW table, IsFiniteTable(table), NEW at \in TxnIds, Freed(table, at),
           NEW id \in IdsBefore(table, at), IsPrevious(table, at, id)
    PROVE  Freed(SetDeleted(table, id, TRUE), id) /\ id \in TxnIds
<1>1. id \in DOMAIN table /\ id \in TxnIds
  BY DEF IdsBefore, IsFiniteTable, IsTable
<1> DEFINE new == SetDeleted(table, id, TRUE)
<1>2. /\ DOMAIN new = DOMAIN table /\ new[id].deleted
      /\ \A i \in DOMAIN table : i # id => new[i] = table[i]
  <2>1. table = [i \in DOMAIN table |-> table[i]] /\ table[id] \in Rows
    BY <1>1 DEF IsFiniteTable, IsTable
  <2>2. new[id] = [table[id] EXCEPT !.deleted = TRUE]
    BY <1>1, <2>1 DEF SetDeleted
  <2> QED BY <1>1, <2>1, <2>2 DEF SetDeleted, Rows
<1> HIDE DEF new
<1>3. ASSUME NEW i \in DOMAIN table, ~Before(i, id), i # id
      PROVE  table[i].deleted
  <2>1. i \in TxnIds
    BY DEF IsFiniteTable, IsTable
  <2>2. Before(id, i)
    BY <1>1, <1>3, <2>1, BeforeIsTotal
  <2>3. ~Before(i, at)
    BY <2>2 DEF IsPrevious, IsLast, IdsBefore
  <2> QED BY <2>3 DEF Freed
<1>4. Freed(new, id)
  BY <1>2, <1>3 DEF Freed
<1> QED BY <1>1, <1>4 DEF new

(* When the walk is over every row of the range, and past it, is reversed. *)
LEMMA ReverseFreesRange ==
    ASSUME NEW table, IsFiniteTable(table), NEW at \in TxnIds, Freed(table, at),
           NEW first \in TxnIds,
           ~\E id \in IdsBefore(table, at) : IsPrevious(table, at, id) /\ ~Before(id, first)
    PROVE  Freed(table, first)
<1>1. ASSUME NEW i \in DOMAIN table, ~Before(i, first), Before(i, at)
      PROVE  FALSE
  <2>1. i \in IdsBefore(table, at) /\ IdsBefore(table, at) \in SUBSET DOMAIN table
    BY <1>1 DEF IdsBefore
  <2>2. IdsBefore(table, at) \in SUBSET TxnIds /\ IsBounded(IdsBefore(table, at))
    BY <2>1, PartIsBounded
  <2>3. PICK id \in IdsBefore(table, at) : IsLast(id, IdsBefore(table, at))
    BY <2>1, <2>2, LastExists
  <2>4. ~Before(id, i) /\ id \in TxnIds /\ i \in TxnIds
    BY <2>1, <2>2, <2>3 DEF IsLast
  <2>5. ~Before(id, first)
    BY <1>1, <2>4 DEF TxnIds, Before
  <2> QED BY <2>3, <2>5 DEF IsPrevious
<1> QED BY <1>1 DEF Freed

(* Undo, by all its actions.                                               *)
LEMMA ReverseKeepsIdInv ==
    ASSUME TypeInv, IdInv, ReverseStep \/ ReverseDone \/ ReverseFails
    PROVE  IdInv'
<1>1. IsFiniteTable(txns) /\ IsFiniteTable(disk.txns) /\ curr \in TxnIds
  BY DEF TypeInv, FileOK, DiskOK, SessionOK
<1>2. job.op = "Reverse" /\ job.first \in TxnIds
  BY DEF TypeInv, JobOK, ReverseStep, ReverseDone, ReverseFails
<1>3. /\ Freed(txns, job.at) /\ job.at \in TxnIds
      /\ job.last = curr /\ Before(job.first, curr)
  BY <1>2 DEF IdInv, ReverseFreed
<1>4. CASE ReverseStep
  <2>1. PICK id \in IdsBefore(txns, job.at) :
            /\ IsPrevious(txns, job.at, id)
            /\ txns' = SetDeleted(txns, id, TRUE)
            /\ job' = [job EXCEPT !.at = id]
    BY <1>4 DEF ReverseStep
  <2>2. Freed(txns', id) /\ id \in TxnIds
    BY <1>1, <1>3, <2>1, ReverseStepFrees
  <2>3. job'.op = "Reverse" /\ job'.at = id /\ job'.last = job.last /\ job'.first = job.first
    BY <1>2, <2>1 DEF TypeInv, JobOK
  <2>4. UNCHANGED <<disk, curr, reversed>>
    BY <1>4 DEF ReverseStep
  <2>5. ReverseFreed' /\ ReinstateFreed' /\ WorkFreed' /\ FileKept'
    BY <1>3, <2>2, <2>3, <2>4 DEF ReverseFreed, ReinstateFreed, WorkFreed, FileKept
  <2> QED BY <2>4, <2>5 DEF IdInv, FileFreed
<1>5. CASE ReverseDone
  <2>1. Freed(txns, job.first)
    BY <1>1, <1>2, <1>3, <1>5, ReverseFreesRange DEF ReverseDone, InRange
  <2>2. disk'.txns = txns /\ curr' = job.first
    BY <1>5 DEF ReverseDone
  <2>3. CASE job.cancel
    <3>1. txns' = WithoutReversed(txns) /\ reversed' = <<>>
      BY <1>5, <2>3 DEF ReverseDone
    <3>2. Freed(txns', curr') /\ LiveKept(disk'.txns, txns')
      BY <1>1, <2>1, <2>2, <3>1, WithoutReversedIsBefore, AllBeforeIsFreed,
         WithoutReversedIsLive
    <3>3. Settled'
      BY <2>1, <2>2, <3>1, <3>2, EmptyIsStacked DEF Settled
    <3> QED BY <1>5, <3>3, SettledIsInv DEF ReverseDone, Idle
  <2>4. CASE ~job.cancel
    <3> DEFINE range == [first |-> job.first, last |-> job.last]
    <3>1. txns' = txns /\ reversed' = Append(reversed, range)
      BY <1>5, <2>4 DEF ReverseDone
    <3>2. Stacked(reversed, curr) /\ reversed \in Seq(Ranges) /\ range \in Ranges
      BY <1>1, <1>2, <1>3 DEF IdInv, TypeInv, SessionOK, Ranges
    <3>3. ASSUME NEW n \in 1..Len(reversed) PROVE reversed[n].last \in TxnIds
      <4>1. reversed[n] \in Ranges
        BY <3>2, ElementOfSeq
      <4> QED BY <4>1 DEF Ranges
    <3>4. /\ Len(reversed') = Len(reversed) + 1
          /\ \A n \in 1..Len(reversed) : reversed'[n] = reversed[n]
          /\ reversed'[Len(reversed) + 1] = range
      BY <3>1, <3>2, AppendProperties
    <3>5. Len(reversed) \in Nat
      BY <3>2, LenProperties
    <3>6. ASSUME NEW n \in 1..Len(reversed')
          PROVE  /\ ~Before(reversed'[n].last, job.first)
                 /\ \A m \in 1..n : ~Before(reversed'[m].last, reversed'[n].last)
      <4>1. CASE n = Len(reversed) + 1
        <5>1. reversed'[n].last = curr
          BY <1>3, <3>4, <4>1
        <5>2. ~Before(curr, job.first) /\ ~Before(curr, curr)
          BY <1>1, <1>2, <1>3, BeforeIsTotal
        <5>3. \A m \in 1..Len(reversed) : ~Before(reversed'[m].last, curr)
          BY <3>2, <3>4 DEF Stacked
        <5> QED BY <3>5, <4>1, <5>1, <5>2, <5>3
      <4>2. CASE n \in 1..Len(reversed)
        <5>1. \A m \in 1..n : ~Before(reversed'[m].last, reversed'[n].last)
          BY <3>2, <3>4, <3>5, <4>2 DEF Stacked
        <5>2. ~Before(reversed[n].last, curr) /\ reversed[n].last \in TxnIds
          BY <3>2, <3>3, <4>2 DEF Stacked
        <5>3. ~Before(reversed[n].last, job.first)
          BY <1>1, <1>2, <1>3, <5>2 DEF TxnIds, Before
        <5> QED BY <3>4, <4>2, <5>1, <5>3
      <4> QED BY <3>4, <3>5, <4>1, <4>2
    <3>7. Stacked(reversed', curr')
      BY <2>2, <3>6 DEF Stacked
    <3>8. Settled'
      BY <2>1, <2>2, <3>1, <3>7 DEF Settled, LiveKept
    <3> QED BY <1>5, <3>8, SettledIsInv DEF ReverseDone, Idle
  <2> QED BY <2>3, <2>4
<1>6. CASE ReverseFails
  <2>1. Freed(disk.txns, curr) /\ Stacked(reversed, curr) /\ UNCHANGED <<disk, curr>>
    BY <1>6 DEF IdInv, FileFreed, ReverseFails
  <2>2. LiveKept(disk.txns, disk.txns)
    BY DEF LiveKept
  <2>3. CASE job.cancel
    <3>1. txns' = WithoutReversed(disk.txns) /\ reversed' = <<>>
      BY <1>6, <2>3 DEF ReverseFails
    <3>2. Settled'
      BY <1>1, <2>1, <2>2, <3>1, DeleteReversedSettles
    <3> QED BY <1>6, <3>2, SettledIsInv DEF ReverseFails, Idle
  <2>4. CASE ~job.cancel
    <3>1. txns' = disk.txns /\ UNCHANGED reversed
      BY <1>6, <2>4 DEF ReverseFails
    <3>2. Settled'
      BY <2>1, <2>2, <3>1 DEF Settled
    <3> QED BY <1>6, <3>2, SettledIsInv DEF ReverseFails, Idle
  <2> QED BY <2>3, <2>4
<1> QED BY <1>4, <1>5, <1>6

-------------------------------------------------------------------------------
(***************************************************************************)
(* Redo.                                                                   *)
(***************************************************************************)

(* Making a row live again takes its id, and no other.                     *)
LEMMA ReinstateStepKeepsFreed ==
    ASSUME NEW table, IsFiniteTable(table), NEW at \in DOMAIN table,
           NEW last, Freed(table, last), Before(at, last)
    PROVE  Freed(SetDeleted(table, at, FALSE), last)
<1> DEFINE new == SetDeleted(table, at, FALSE)
<1>1. table = [i \in DOMAIN table |-> table[i]]
  BY DEF IsFiniteTable, IsTable
<1>2. DOMAIN new = DOMAIN table /\ \A i \in DOMAIN table : i # at => new[i] = table[i]
  BY <1>1 DEF SetDeleted
<1> HIDE DEF new
<1>3. Freed(new, last)
  BY <1>2 DEF Freed
<1> QED BY <1>3 DEF new

(* Redo, by all its actions.                                               *)
LEMMA ReinstateKeepsIdInv ==
    ASSUME TypeInv, AbandonsFailure, IdInv,
           ReinstateTxn \/ ReinstateStep \/ ReinstateDone \/ ReinstateFails
    PROVE  IdInv'
<1>1. /\ IsFiniteTable(txns) /\ IsFiniteTable(disk.txns)
      /\ curr \in TxnIds /\ reversed \in Seq(Ranges) /\ Len(reversed) \in Nat
  BY LenProperties DEF TypeInv, FileOK, DiskOK, SessionOK
<1>2. ASSUME reversed # <<>>
      PROVE  /\ Len(reversed) \in 1..Len(reversed)
             /\ reversed[Len(reversed)].last \in TxnIds
  <2>1. Len(reversed) \in 1..Len(reversed)
    BY <1>1, <1>2, EmptySeq
  <2>2. reversed[Len(reversed)] \in Ranges
    BY <1>1, <2>1, ElementOfSeq
  <2> QED BY <2>1, <2>2 DEF Ranges
<1>3. CASE ReinstateTxn
  <2> DEFINE top == reversed[Len(reversed)]
  <2>1. Settled /\ UNCHANGED <<disk, curr, reversed>> /\ reversed # <<>>
    BY <1>3, ReadyIsSettled DEF ReinstateTxn
  <2>2. txns' = txns \/ txns' = disk.txns
    BY <1>3 DEF ReinstateTxn, AbandonIfChanged, Rollback
  <2>3. Freed(txns', curr) /\ IsFiniteTable(txns')
    BY <1>1, <2>1, <2>2 DEF Settled
  <2>4. ~Before(top.last, curr) /\ top.last \in TxnIds
    BY <1>2, <2>1 DEF Settled, Stacked
  <2>5. Freed(txns', top.last)
    BY <1>1, <2>3, <2>4, FreedFromLater
  <2>6. job'.op = "Reinstate" /\ job'.last = top.last
    BY <1>3 DEF ReinstateTxn
  <2>7. ReverseFreed' /\ ReinstateFreed' /\ WorkFreed' /\ FileKept'
    BY <2>1, <2>5, <2>6 DEF ReverseFreed, ReinstateFreed, WorkFreed, FileKept
  <2> QED BY <2>1, <2>7 DEF Settled, IdInv, FileFreed
<1>4. CASE ReinstateStep
  <2>1. /\ job.op = "Reinstate" /\ job.at \in DOMAIN txns /\ MoreToReinstate
        /\ txns' = SetDeleted(txns, job.at, FALSE)
        /\ UNCHANGED <<disk, curr, reversed>>
    BY <1>4 DEF ReinstateStep
  <2>2. Freed(txns, job.last) /\ reversed # <<>> /\ job.last = reversed[Len(reversed)].last
    BY <2>1 DEF IdInv, ReinstateFreed
  <2>3. Before(job.at, job.last)
    <3>1. PICK id \in IdsBefore(txns, job.last) : ~Before(id, job.at)
      BY <2>1 DEF MoreToReinstate
    <3>2. Before(id, job.last) /\ id \in TxnIds
      BY <1>1 DEF IdsBefore, IsFiniteTable, IsTable
    <3>3. job.at \in TxnIds /\ job.last \in TxnIds
      BY <1>1, <1>2, <2>1, <2>2 DEF IsFiniteTable, IsTable
    <3> QED BY <3>1, <3>2, <3>3 DEF TxnIds, Before
  <2>4. Freed(txns', job.last)
    BY <1>1, <2>1, <2>2, <2>3, ReinstateStepKeepsFreed
  <2>5. job'.op = "Reinstate" /\ job'.last = job.last
    <3>1. \E id : job' = [job EXCEPT !.at = id]
      BY <1>4 DEF ReinstateStep
    <3> QED BY <2>1, <3>1 DEF TypeInv, JobOK
  <2>6. ReverseFreed' /\ ReinstateFreed' /\ WorkFreed' /\ FileKept'
    BY <2>1, <2>2, <2>4, <2>5 DEF ReverseFreed, ReinstateFreed, WorkFreed, FileKept
  <2> QED BY <2>1, <2>6 DEF IdInv, FileFreed
<1>5. CASE ReinstateDone
  <2>1. /\ job.op = "Reinstate" /\ curr' = job.last /\ UNCHANGED txns /\ Persist
        /\ reversed' = SubSeq(reversed, 1, Len(reversed) - 1) /\ job' = Idle
    BY <1>5 DEF ReinstateDone
  <2>2. Freed(txns, job.last) /\ reversed # <<>> /\ job.last = reversed[Len(reversed)].last
    BY <2>1 DEF IdInv, ReinstateFreed
  <2>3. Stacked(reversed, curr)
    BY DEF IdInv
  <2>4. /\ Len(reversed') = Len(reversed) - 1
        /\ \A n \in 1..(Len(reversed) - 1) : reversed'[n] = reversed[n]
    <3> DEFINE end == Len(reversed) - 1
    <3>1. end \in 0..Len(reversed) /\ end \in Int
      BY <1>1, <1>2, <2>2
    <3>2. \A n \in 1..end : reversed[n] \in Ranges
      <4>1. 1..end \subseteq 1..Len(reversed)
        BY <1>1, <3>1
      <4> QED BY <1>1, <4>1, ElementOfSeq
    <3> HIDE DEF end
    <3>3. /\ Len(SubSeq(reversed, 1, end)) = IF 1 <= end THEN end - 1 + 1 ELSE 0
          /\ \A n \in 1..(end - 1 + 1) : SubSeq(reversed, 1, end)[n] = reversed[1 + n - 1]
      BY <3>1, <3>2, SubSeqProperties
    <3>4. /\ Len(SubSeq(reversed, 1, end)) = end
          /\ \A n \in 1..end : SubSeq(reversed, 1, end)[n] = reversed[n]
      BY <1>1, <3>1, <3>3
    <3> QED BY <2>1, <3>4 DEF end
  <2>5. \A n \in 1..(Len(reversed) - 1) :
            /\ ~Before(reversed[n].last, job.last)
            /\ \A m \in 1..n : ~Before(reversed[m].last, reversed[n].last)
    BY <1>1, <1>2, <2>2, <2>3 DEF Stacked
  <2>6. Stacked(reversed', curr')
    BY <1>1, <2>1, <2>4, <2>5 DEF Stacked
  <2>7. Settled'
    BY <2>1, <2>2, <2>6, PersistKeepsLive DEF Settled
  <2> QED BY <2>1, <2>7, SettledIsInv DEF Idle
<1>6. CASE ReinstateFails
  BY <1>6, RollbackSettles, SettledIsInv DEF ReinstateFails, Idle
<1> QED BY <1>3, <1>4, <1>5, <1>6

-------------------------------------------------------------------------------
(***************************************************************************)
(* Pushing and discarding.                                                 *)
(***************************************************************************)
(* Pushing, by all its actions.                                            *)
LEMMA PushKeepsIdInv ==
    ASSUME TypeInv, AbandonsFailure, IdInv, PushNext
    PROVE  IdInv'
<1>1. IsFiniteTable(txns) /\ IsFiniteTable(WithoutReversed(txns)) /\ SavedOK
  BY WithoutReversedIsTable DEF TypeInv, FileOK, SavedOK
<1>2. CASE StartCreateChangeset
  <2>1. job.op = "None" /\ UNCHANGED job
    BY <1>2 DEF StartCreateChangeset, MayPush, ClientReady
  <2>2. /\ txns' = WithoutReversed(txns) /\ curr' \in NewSessions(txns')
        /\ reversed' = <<>> /\ Persist
    BY <1>2 DEF StartCreateChangeset
  <2>3. Freed(txns', curr')
    BY <1>1, <2>2, NewSessionIsPast, AllBeforeIsFreed
  <2>4. Settled'
    BY <2>2, <2>3, PersistKeepsLive, EmptyIsStacked DEF Settled
  <2> QED BY <2>1, <2>4, SettledIsInv
<1>3. CASE StartCreateChangesetFails
  <2>1. Settled /\ job.op = "None" /\ UNCHANGED job
    BY <1>3, ReadyIsSettled DEF StartCreateChangesetFails, MayPush
  <2>2. Settled'
    BY <1>1, <1>3, <2>1, DeleteReversedSettles DEF Settled, StartCreateChangesetFails
  <2> QED BY <2>1, <2>2, SettledIsInv
<1>4. CASE Upload
  BY <1>4, UnchangedKeepsIdInv DEF Upload
<1>5. CASE FinishCreateChangeset
  <2> DEFINE table == From(txns, creating.end)
             version == creating.parent + 1
  <2>1. Settled /\ job.op = "None" /\ UNCHANGED job
    BY <1>5, ReadyIsSettled DEF FinishCreateChangeset
  <2>2. IsFiniteTable(table) /\ Freed(table, curr) /\ Stacked(reversed, curr)
    BY <1>1, <2>1, FromIsTable, KeepIsFreed DEF Settled, From
  <2>3. \/ SaveUntracked(table, version, TRUE) \/ SaveTracked(table, version, TRUE)
        \/ SaveFails(table, version)
    BY <1>5 DEF FinishCreateChangeset
  <2> HIDE DEF table, version
  <2>4. CASE SaveUntracked(table, version, TRUE)
    BY <2>1, <2>2, <2>4, SaveUntrackedSettles, SettledIsInv
  <2>5. CASE SaveTracked(table, version, TRUE)
    BY <1>1, <2>1, <2>2, <2>5, SaveTrackedSettles, SettledIsInv
  <2>6. CASE SaveFails(table, version)
    BY <2>1, <2>2, <2>6, SaveFailsKeepsIdInv
  <2> QED BY <2>3, <2>4, <2>5, <2>6
<1>6. CASE StopCreateChangeset
  BY <1>6, UnchangedKeepsIdInv DEF StopCreateChangeset
<1> QED BY <1>2, <1>3, <1>4, <1>5, <1>6 DEF PushNext

(* Marking a row reversed frees an id.                                     *)
LEMMA SetReversedKeepsFreed ==
    ASSUME NEW table, IsFiniteTable(table), NEW id \in DOMAIN table,
           NEW at, Freed(table, at)
    PROVE  Freed(SetDeleted(table, id, TRUE), at)
<1> DEFINE new == SetDeleted(table, id, TRUE)
<1>1. /\ DOMAIN new = DOMAIN table /\ new[id].deleted
      /\ \A i \in DOMAIN table : i # id => new[i] = table[i]
  <2>1. table = [i \in DOMAIN table |-> table[i]] /\ table[id] \in Rows
    BY DEF IsFiniteTable, IsTable
  <2>2. new[id] = [table[id] EXCEPT !.deleted = TRUE]
    BY <2>1 DEF SetDeleted
  <2> QED BY <2>1, <2>2 DEF SetDeleted, Rows
<1> HIDE DEF new
<1>2. Freed(new, at)
  BY <1>1 DEF Freed
<1> QED BY <1>2 DEF new

(* Discarding all local changes, by all its actions.                       *)
LEMMA DiscardKeepsIdInv ==
    ASSUME TypeInv, IdInv, DiscardNext
    PROVE  IdInv'
<1>1. IsFiniteTable(txns) /\ IsFiniteTable(disk.txns)
  BY DEF TypeInv, FileOK, DiskOK
<1>2. CASE DiscardLocalChanges
  <2>1. /\ txns' = WithoutReversed(disk.txns) /\ UNCHANGED <<disk, curr>>
        /\ reversed' = <<>> /\ job'.op = "Discard"
    BY <1>2 DEF DiscardLocalChanges, Idle
  <2>2. Freed(disk.txns, curr)
    BY DEF IdInv, FileFreed
  <2>3. Freed(txns', curr)
    BY <1>1, <2>1, <2>2, WithoutReversedIsBefore, AllBeforeIsFreed
  <2>4. ReverseFreed' /\ ReinstateFreed' /\ WorkFreed' /\ FileKept'
    BY <2>1, <2>3 DEF ReverseFreed, ReinstateFreed, WorkFreed, FileKept
  <2> QED BY <2>1, <2>2, <2>4, EmptyIsStacked DEF IdInv, FileFreed
<1>3. CASE DiscardStep
  <2>1. PICK id \in IdsBefore(txns, job.at) :
            txns' = SetDeleted(txns, id, TRUE) /\ job' = [job EXCEPT !.at = id]
    BY <1>3 DEF DiscardStep
  <2>2. job.op = "Discard" /\ UNCHANGED <<disk, curr, reversed>>
    BY <1>3 DEF DiscardStep
  <2>3. job'.op = "Discard"
    BY <2>1, <2>2 DEF TypeInv, JobOK
  <2>4. Freed(txns, curr)
    BY <2>2 DEF IdInv, WorkFreed
  <2>5. Freed(txns', curr)
    BY <1>1, <2>1, <2>4, SetReversedKeepsFreed DEF IdsBefore
  <2>6. ReverseFreed' /\ ReinstateFreed' /\ WorkFreed' /\ FileKept'
    BY <2>2, <2>3, <2>5 DEF ReverseFreed, ReinstateFreed, WorkFreed, FileKept
  <2> QED BY <2>2, <2>6 DEF IdInv, FileFreed
<1>4. CASE DiscardFails
  BY <1>4, RollbackSettles, SettledIsInv DEF DiscardFails, Idle
<1>5. CASE DiscardReversed
  <2>1. job.op = "Discard" /\ job'.op = "DeleteAll" /\ UNCHANGED <<txns, curr, reversed>>
    BY <1>5 DEF DiscardReversed, Idle
  <2>2. Freed(disk'.txns, curr)
    BY <1>5, <2>1 DEF IdInv, WorkFreed, DiscardReversed, Persist
  <2>3. ReverseFreed' /\ ReinstateFreed' /\ WorkFreed' /\ FileKept'
    BY <2>1 DEF ReverseFreed, ReinstateFreed, WorkFreed, FileKept
  <2> QED BY <2>1, <2>2, <2>3 DEF IdInv, FileFreed
<1>6. CASE DeleteAllTxns
  <2>1. txns' = EmptyMap /\ reversed' = <<>> /\ Persist /\ job'.op = "None"
    BY <1>6 DEF DeleteAllTxns, Idle
  <2>2. Settled'
    BY <2>1, PersistKeepsLive, EmptyIsStacked DEF Settled, Freed, EmptyMap
  <2> QED BY <2>1, <2>2, SettledIsInv
<1> QED BY <1>2, <1>3, <1>4, <1>5, <1>6 DEF DiscardNext

-------------------------------------------------------------------------------
(* The invariant holds in a briefcase as it was downloaded.                *)
LEMMA IdInvInit == Init => IdInv
<1> SUFFICES ASSUME Init PROVE IdInv
  OBVIOUS
<1>1. txns = EmptyMap /\ disk.txns = EmptyMap /\ reversed = <<>> /\ job.op = "None"
  BY DEF Init, Idle
<1> QED BY <1>1, EmptyIsStacked
        DEF IdInv, FileFreed, WorkFreed, ReverseFreed, ReinstateFreed, FileKept,
            Freed, LiveKept, EmptyMap

(* Every step of a client that abandons a save that failed keeps it.       *)
LEMMA IdInvStep == AbandonsFailure /\ TypeInv /\ IdInv /\ [Next]_vars => IdInv'
<1> SUFFICES ASSUME AbandonsFailure, TypeInv, IdInv, [Next]_vars PROVE IdInv'
  OBVIOUS
<1>1. CASE \/ \E key \in Keys, value \in Values : Edit(key, value)
           \/ EditDdl \/ AbandonChanges
           \/ BeginMultiTxnOperation \/ EndMultiTxnOperation \/ RestartTxnSession
  BY <1>1, SessionActionsKeepIdInv
<1>2. CASE SaveChanges
  BY <1>2, SaveChangesKeepsIdInv
<1>3. CASE UndoNext
  BY <1>3, StartOfUndoKeepsIdInv, ReverseKeepsIdInv, ReinstateKeepsIdInv DEF UndoNext
<1>4. CASE PushNext
  BY <1>4, PushKeepsIdInv
<1>5. CASE DiscardNext
  BY <1>5, DiscardKeepsIdInv
<1>6. CASE Crash
  BY <1>6, CrashKeepsIdInv
<1>7. CASE UNCHANGED vars
  BY <1>7, UnchangedKeepsIdInv
<1> QED BY <1>1, <1>2, <1>3, <1>4, <1>5, <1>6, <1>7 DEF Next

(* "We reuse TxnIds" (ReverseTxnRange), and it is safe: between calls, and *)
(* in the file at all times, every Txn from m_curr on is reversed, so the  *)
(* INSERT of SaveTxn never meets a row that is wanted.                     *)
THEOREM NextIdIsAlwaysFree ==
    ASSUME AbandonsFailure
    PROVE  Spec => []NextIdIsFree
<1>1. Spec => []TypeInv
  BY TypeInvInit, TypeInvStep, PTL DEF Spec
<1>2. Init => IdInv
  BY IdInvInit
<1>3. TypeInv /\ IdInv /\ [Next]_vars => IdInv'
  BY IdInvStep
<1>4. IdInv => NextIdIsFree
  BY IdInvImpliesFree
<1> QED BY <1>1, <1>2, <1>3, <1>4, PTL DEF Spec
===============================================================================
