----------------------------- MODULE RecordProofs -----------------------------
(***************************************************************************)
(* The Txns record the database, for every briefcase, history and bound:   *)
(* DiskRecorded, WorkRecorded, TxnsChain, RedoStackSound and               *)
(* PackagedTxnsKept, by one inductive invariant.  And undo and redo stay   *)
(* in the session: UndoStaysInSession, from that invariant and another.    *)
(* With both, undo and redo are exact: TxnManager implements UndoHistory.  *)
(***************************************************************************)
EXTENDS TxnManagerProofs, TxnHistory

USE DEF fileVars, txnVars, editVars, vars

-------------------------------------------------------------------------------
(***************************************************************************)
(* The inductive invariant.  Its parameter says what the briefcase's past  *)
(* may hold.  "Whole": only what TxnManager does by itself.  "Rebased":    *)
(* also pulls, which may have erased a Txn of the present session, or have *)
(* merged a changeset that has not been committed.                         *)
(***************************************************************************)

(* The session has a Txn for every counter below that of id.               *)
Contiguous(table, id) == \A n \in 0..id[2] : n # id[2] => <<id[1], n>> \in DOMAIN table

(* Undo and redo find the Txns they are about to go through.               *)
Complete(table, id, ranges, past) ==
    /\ past = "Whole" => Contiguous(table, id)
    /\ \A n \in 1..Len(ranges) :
          /\ ranges[n].first \in DOMAIN table
          /\ past = "Whole" => Contiguous(table, ranges[n].last)

(* A table in order for a session at id: the Txns that undo can reach are  *)
(* live and those redo can reach reversed.  Only a session that has        *)
(* neither may follow Txns that are reversed.                              *)
Sound(table, base, id, ranges, past) ==
    /\ Chained(table, base) /\ LiveFirst(table)
    /\ id[2] # 0 \/ ranges # <<>> => CutAt(table, id)
    /\ Complete(table, id, ranges, past)

(* The redo stack without the rows it is about.                            *)
IsStack(ranges, id) ==
    /\ ranges # <<>> => ranges[Len(ranges)].first = id
    /\ \A n \in 1..(Len(ranges) - 1) : ranges[n].first = ranges[n + 1].last

(* The Txns of the changeset being pushed are live, a new session is past  *)
(* them, and the changeset leads to their state, on the hub once it is     *)
(* uploaded.                                                               *)
Packaged(table, push, versions) ==
    push.active =>
        /\ \A i \in DOMAIN table : Before(i, push.end) => ~table[i].deleted
        /\ \E i \in DOMAIN table : Before(i, push.end) /\ ~Before(<<i[1] + 1, 0>>, push.end)
        /\ push.change = Difference(versions[push.parent],
                                    StateAt(table, versions[push.parent], push.end))
        /\ push.uploaded =>
              versions[push.parent + 1] = StateAt(table, versions[push.parent], push.end)

(* A push is made from the version of the file, and packages no Txn of the *)
(* present session, in a briefcase whose sessions are whole.               *)
PushInv(past) ==
    /\ creating.uploaded => creating.active
    /\ creating.active =>
          /\ past = "Whole"
          /\ creating.end \in TxnIds /\ ~Before(SessionStart(curr), creating.end)
          /\ creating.parent = disk.parent
          /\ creating.uploaded => creating.parent + 1 \in 1..Len(hub)
          /\ job.op \notin {"Discard", "DeleteAll"}

ParentsOK == parent \in 1..Len(hub) /\ disk.parent \in 1..Len(hub)

(* The client has a failed save to abandon.                                *)
Failed == lastSave = "PropagateChangesFailed"

FailedHasNoRedo == Failed => reversed = <<>>

(* The file, at any time.                                                  *)
FileInv(past) ==
    /\ Chained(disk.txns, hub[disk.parent]) /\ DiskRecorded
    /\ Packaged(disk.txns, creating, hub)
    /\ job.op # "DeleteAll" => Sound(disk.txns, hub[disk.parent], curr, reversed, past)

(* The open table, at any time.                                            *)
OpenInv(past) ==
    /\ Chained(txns, hub[parent])
    /\ ~Failed => /\ past = "Whole" => parent = disk.parent
                  /\ Packaged(txns, creating, hub) /\ Complete(txns, curr, reversed, past)

(* The live Txns lead to the database, less the edits being tracked.       *)
BeforeEditsRecorded == BeforeEdits = Replay(WithoutReversed(txns), hub[parent])

Resting(past) ==
    job.op = "None" /\ ~Failed =>
        Sound(txns, hub[parent], curr, reversed, past) /\ BeforeEditsRecorded

(* Where the calls that loop over Txns have got to.                        *)
IsAt(id) ==
    /\ CutAt(txns, id) /\ db = StateAt(txns, hub[parent], id)
    /\ DOMAIN tracked = {} /\ ~Failed
ReinstatedTo == IF job.at = NoTxn THEN job.last ELSE job.at

Reversing(past) ==
    job.op = "Reverse" =>
        /\ IsAt(job.at) /\ job.first \in DOMAIN txns /\ ~Before(job.at, job.first)
        /\ past = "Whole" => job.first[1] = curr[1]
Reinstating == job.op = "Reinstate" => IsAt(ReinstatedTo)
Discarding == job.op = "Discard" => IsAt(job.at) /\ reversed = <<>>
Deleting ==
    job.op = "DeleteAll" =>
        /\ txns = disk.txns /\ db = disk.db /\ parent = disk.parent
        /\ DOMAIN tracked = {} /\ ~Failed
        /\ reversed = <<>> /\ \A i \in DOMAIN txns : txns[i].deleted

RecordInv(past) ==
    /\ ParentsOK /\ FileInv(past) /\ OpenInv(past) /\ IsStack(reversed, curr) /\ PushInv(past)
    /\ FailedHasNoRedo
    /\ Resting(past) /\ Reversing(past) /\ Reinstating /\ Discarding /\ Deleting

(* Every row of the open table is in the file's, so that a Txn an undo is  *)
(* about to go back to is still there after a rollback.                    *)
RowsInFile == DOMAIN txns \subseteq DOMAIN disk.txns

(* The invariant is stronger than the ones TLC checks.                     *)
LEMMA RecordInvImplies ==
    ASSUME NEW past, TypeInv, RecordInv(past)
    PROVE  DiskRecorded /\ WorkRecorded /\ TxnsChain /\ RedoStackSound /\ PackagedTxnsKept
<1>1. DiskRecorded
  BY DEF RecordInv, FileInv
<1>2. WorkRecorded
  BY DEF RecordInv, Resting, Failed, BeforeEditsRecorded, WorkRecorded
<1>3. TxnsChain
  BY DEF RecordInv, OpenInv, Chained, TxnsChain
<1>4. RedoStackSound
  <2>1. IsStack(reversed, curr)
    BY DEF RecordInv
  <2>2. ASSUME NEW n \in 1..Len(reversed) PROVE reversed[n].first \in DOMAIN txns
    <3>1. CASE ~Failed
      BY <3>1 DEF RecordInv, OpenInv, Complete
    <3>2. CASE Failed /\ reversed = <<>>
      BY <3>2
    <3> QED BY <3>1, <3>2 DEF RecordInv, FailedHasNoRedo
  <2> QED BY <2>1, <2>2 DEF IsStack, RedoStackSound
<1>5. PackagedTxnsKept
  BY DEF RecordInv, FileInv, PushInv, Packaged, PackagedTxnsKept
<1> QED BY <1>1, <1>2, <1>3, <1>4, <1>5

-------------------------------------------------------------------------------
(***************************************************************************)
(* Lemmas about tables.                                                    *)
(***************************************************************************)

(* The ids of a stack, none of which is before curr.                       *)
LEMMA StackIsPast ==
    ASSUME NEW ranges \in Seq(Ranges), NEW id \in TxnIds,
           IsStack(ranges, id), Stacked(ranges, id), NEW n \in 1..Len(ranges)
    PROVE  /\ ranges[n] \in Ranges
           /\ ranges[n].first \in TxnIds /\ ranges[n].last \in TxnIds
           /\ ~Before(ranges[n].first, id) /\ ~Before(ranges[n].last, id)
<1>1. Len(ranges) \in Nat /\ ranges # <<>>
  BY LenProperties, EmptySeq
<1>2. \A m \in 1..Len(ranges) : ranges[m] \in Ranges
  BY ElementOfSeq
<1>3. ranges[n].first \in TxnIds /\ ranges[n].last \in TxnIds
  BY <1>2 DEF Ranges
<1>4. ~Before(ranges[n].last, id)
  BY DEF Stacked
<1>5. CASE n = Len(ranges)
  <2>1. ranges[n].first = id
    BY <1>1, <1>5 DEF IsStack
  <2> QED BY <1>2, <1>3, <1>4, <2>1, BeforeIsTotal
<1>6. CASE n # Len(ranges)
  <2>1. n \in 1..(Len(ranges) - 1) /\ n + 1 \in 1..Len(ranges)
    BY <1>1, <1>6
  <2>2. ranges[n].first = ranges[n + 1].last
    BY <2>1 DEF IsStack
  <2>3. ~Before(ranges[n + 1].last, id)
    BY <2>1 DEF Stacked
  <2> QED BY <1>2, <1>3, <1>4, <2>2, <2>3
<1> QED BY <1>5, <1>6

(* A session that has just begun, past all or after reversed Txns.         *)
LEMMA NewSessionIsSound ==
    ASSUME NEW past, NEW table, NEW base, Chained(table, base), LiveFirst(table),
           NEW id, id[2] = 0
    PROVE  Sound(table, base, id, <<>>, past)
<1>1. Contiguous(table, id)
  BY DEF Contiguous
<1> QED BY <1>1 DEF Sound, Complete

(* NewSessions gives the start of a session.                               *)
LEMMA NewSessionIsStart ==
    ASSUME NEW table, NEW id \in NewSessions(table)
    PROVE  id \in TxnIds /\ id[2] = 0 /\ SessionStart(id) = id
  BY NewSessionIsId DEF NewSessions, SessionStart

(* With a redo stack, or with Txns to undo, the table is cut at curr.      *)
LEMMA SoundIsCut ==
    ASSUME NEW past, NEW table, IsFiniteTable(table), NEW base, NEW id, NEW ranges,
           Sound(table, base, id, ranges, past), id[2] # 0 \/ ranges # <<>>
    PROVE  /\ CutAt(table, id)
           /\ Replay(WithoutReversed(table), base) = StateAt(table, base, id)
<1>1. CutAt(table, id)
  BY DEF Sound
<1> QED BY <1>1, ReplayIsStateAtCut

(* A table stays in order when the redo stack is dropped.                  *)
LEMMA DroppingRedoIsSound ==
    ASSUME NEW past, NEW table, NEW base, NEW id, NEW ranges, Sound(table, base, id, ranges, past)
    PROVE  Sound(table, base, id, <<>>, past)
<1>1. past = "Whole" => Contiguous(table, id)
  BY DEF Sound, Complete
<1> QED BY <1>1 DEF Sound, Complete

(* The Txns before an id that are live in one table are those of another.  *)
LiveKeptBefore(old, new, id) ==
    \A i \in TxnIds : Before(i, id) =>
        /\ i \in DOMAIN new <=> i \in DOMAIN old /\ ~old[i].deleted
        /\ i \in DOMAIN new => new[i] = old[i]

(* DeleteReversedTxns keeps live Txns.                                     *)
LEMMA DeletingReversedKeepsLive ==
    ASSUME NEW table, IsFiniteTable(table), NEW id
    PROVE  LiveKeptBefore(table, WithoutReversed(table), id)
  BY WithoutReversedRows DEF LiveKeptBefore

(* DeleteReversedTxns leaves a table in order.                             *)
LEMMA WithoutReversedIsSound ==
    ASSUME NEW past, NEW table, IsFiniteTable(table), NEW base, NEW id \in TxnIds, NEW ranges,
           Sound(table, base, id, ranges, past)
    PROVE  Sound(WithoutReversed(table), base, id, <<>>, past)
<1> DEFINE new == WithoutReversed(table)
<1>1. /\ AllLive(new) /\ DOMAIN new = {i \in DOMAIN table : ~table[i].deleted}
  BY WithoutReversedRows
<1>2. Chained(new, base)
  BY WithoutReversedIsChained DEF Sound
<1> HIDE DEF new
<1>3. LiveFirst(new)
  BY <1>1 DEF AllLive, LiveFirst
<1>4. CASE id[2] = 0
  BY <1>2, <1>3, <1>4, NewSessionIsSound DEF new
<1>5. CASE id[2] # 0
  <2>1. CutAt(table, id)
    BY <1>5 DEF Sound
  <2>2. CutAt(new, id)
    BY <1>1, <2>1 DEF CutAt, AllLive
  <2>3. past = "Whole" => Contiguous(table, id)
    BY DEF Sound, Complete
  <2>4. ASSUME past = "Whole", NEW n \in 0..id[2], n # id[2]
        PROVE  <<id[1], n>> \in DOMAIN new
    <3>1. <<id[1], n>> \in DOMAIN table
      BY <2>3, <2>4 DEF Contiguous
    <3>2. Before(<<id[1], n>>, id)
      BY <2>4 DEF Before, TxnIds
    <3> QED BY <1>1, <2>1, <3>1, <3>2 DEF CutAt
  <2>5. past = "Whole" => Contiguous(new, id)
    BY <2>4 DEF Contiguous
  <2> QED BY <1>2, <1>3, <2>2, <2>5 DEF Sound, Complete, new
<1> QED BY <1>4, <1>5

(* A push is not disturbed by what keeps the live Txns it packaged.        *)
LEMMA PackagedIsKept ==
    ASSUME NEW old, IsFiniteTable(old), NEW new, IsFiniteTable(new),
           NEW push, NEW versions, Packaged(old, push, versions),
           push.active => LiveKeptBefore(old, new, push.end)
    PROVE  Packaged(new, push, versions)
<1> SUFFICES ASSUME push.active PROVE Packaged(new, push, versions)
  BY DEF Packaged
<1> DEFINE end == push.end
           base == versions[push.parent]
<1>1. DOMAIN old \subseteq TxnIds /\ DOMAIN new \subseteq TxnIds
  BY DEF IsFiniteTable, IsTable
<1>2. \A i \in DOMAIN old : Before(i, end) => ~old[i].deleted
  BY DEF Packaged
<1>3. \A i \in TxnIds : Before(i, end) => /\ i \in DOMAIN new <=> i \in DOMAIN old
                                          /\ i \in DOMAIN new => new[i] = old[i]
  BY <1>2 DEF LiveKeptBefore
<1>4. AgreeBefore(old, new, end)
  BY <1>3 DEF AgreeBefore
<1>5. StateAt(new, base, end) = StateAt(old, base, end)
  BY <1>4, AgreeingTablesLeadAlike
<1>6. \A i \in DOMAIN new : Before(i, end) => ~new[i].deleted
  BY <1>1, <1>2, <1>3
<1>7. PICK i \in DOMAIN old : Before(i, end) /\ ~Before(<<i[1] + 1, 0>>, end)
  BY DEF Packaged
<1>8. i \in DOMAIN new
  BY <1>1, <1>3, <1>7
<1> HIDE DEF end, base
<1>9. /\ push.change = Difference(base, StateAt(old, base, end))
      /\ push.uploaded => versions[push.parent + 1] = StateAt(old, base, end)
  BY DEF Packaged, base, end
<1> QED BY <1>5, <1>6, <1>7, <1>8, <1>9 DEF Packaged, base, end

(* What lies past the session of an id lies past the id.                   *)
LEMMA SessionStartIsFirst ==
    ASSUME NEW id \in TxnIds, NEW other \in TxnIds, NEW end \in TxnIds,
           ~Before(SessionStart(id), end), other[1] >= id[1]
    PROVE  ~Before(other, end) /\ ~Before(SessionStart(other), end)
  BY DEF TxnIds, Before, SessionStart

-------------------------------------------------------------------------------
(***************************************************************************)
(* Between calls.                                                          *)
(***************************************************************************)

(* What holds when a call has ended that did not fail.                     *)
Rest(past) ==
    /\ ParentsOK /\ (past = "Whole" => parent = disk.parent)
    /\ Sound(txns, hub[parent], curr, reversed, past)
    /\ Sound(disk.txns, hub[disk.parent], curr, reversed, past)
    /\ Packaged(txns, creating, hub) /\ Packaged(disk.txns, creating, hub)
    /\ BeforeEditsRecorded /\ DiskRecorded
    /\ IsStack(reversed, curr) /\ PushInv(past)

(* A briefcase at rest satisfies the invariant.                            *)
LEMMA RestIsInv ==
    ASSUME NEW past, job'.op = "None", ~Failed', Rest(past)'
    PROVE  RecordInv(past)'
<1>1. FileInv(past)' /\ OpenInv(past)'
  BY DEF Rest, FileInv, OpenInv, Sound
<1>2. Resting(past)' /\ Reversing(past)' /\ Reinstating' /\ Discarding' /\ Deleting'
  BY DEF Rest, Resting, Reversing, Reinstating, Discarding, Deleting
<1> QED BY <1>1, <1>2 DEF Rest, RecordInv, FailedHasNoRedo

(* At the start of a call of the client the briefcase is at rest.          *)
LEMMA ReadyIsAtRest ==
    ASSUME NEW past, AbandonsFailure, RecordInv(past), ClientReady
    PROVE  Rest(past) /\ job.op = "None" /\ ~Failed
<1>1. job.op = "None" /\ ~Failed
  BY DEF AbandonsFailure, ClientReady, Failed
<1> QED BY <1>1 DEF RecordInv, FileInv, OpenInv, Resting, Rest

(* A session that tracks nothing.                                          *)
LEMMA NothingTracked ==
    ASSUME TypeInv, DOMAIN tracked = {}
    PROVE  BeforeEdits = db
  BY DEF TypeInv, FileOK, BeforeEdits, Original, States
LEMMA NothingTrackedNext ==
    ASSUME TypeInv', DOMAIN tracked' = {}
    PROVE  BeforeEdits' = db'
  BY DEF TypeInv, FileOK, BeforeEdits, Original, States

(* What is tracked when nothing is.                                        *)
LEMMA EmptyMapIsEmpty == DOMAIN EmptyMap = {}
  BY DEF EmptyMap

(* A rollback leaves the briefcase at rest, if the file is in order.       *)
LEMMA RollbackOnFileRests ==
    ASSUME NEW past, TypeInv', FileInv(past), ParentsOK, IsStack(reversed, curr),
           PushInv(past), job.op # "DeleteAll", Rollback,
           UNCHANGED <<disk, curr, reversed, creating, hub>>, job'.op = "None"
    PROVE  Rest(past)' /\ ~Failed'
<1>1. /\ db' = disk.db /\ txns' = disk.txns /\ parent' = disk.parent
      /\ DOMAIN tracked' = {} /\ lastSave' = "OK"
  BY EmptyMapIsEmpty DEF Rollback
<1>2. BeforeEdits' = db'
  BY <1>1, NothingTrackedNext
<1>3. Sound(disk.txns, hub[disk.parent], curr, reversed, past) /\ DiskRecorded
  BY DEF FileInv
<1>4. BeforeEditsRecorded' /\ DiskRecorded'
  BY <1>1, <1>2, <1>3 DEF BeforeEditsRecorded, DiskRecorded
<1>5. PushInv(past)' /\ ParentsOK'
  BY <1>1 DEF PushInv, ParentsOK
<1>6. Packaged(disk.txns, creating, hub)
  BY DEF FileInv
<1> QED BY <1>1, <1>3, <1>4, <1>5, <1>6 DEF Rest, Failed

LEMMA RollbackRests ==
    ASSUME NEW past, TypeInv', RecordInv(past), job.op # "DeleteAll", Rollback,
           UNCHANGED <<disk, curr, reversed, creating, hub>>, job'.op = "None"
    PROVE  Rest(past)' /\ ~Failed'
  BY RollbackOnFileRests DEF RecordInv

(* ReverseTxnRange and ReinstateTxn drop unsaved edits first.              *)
LEMMA AbandonRests ==
    ASSUME NEW past, TypeInv, TypeInv', Rest(past), RecordInv(past), job.op = "None", ~Failed,
           AbandonIfChanged, UNCHANGED <<disk, curr, reversed, creating, hub>>
    PROVE  /\ ParentsOK' /\ (past = "Whole" => parent' = disk'.parent)
           /\ Sound(txns', hub[parent'], curr, reversed, past)
           /\ Packaged(txns', creating, hub)
           /\ DOMAIN tracked' = {} /\ ~Failed'
           /\ db' = Replay(WithoutReversed(txns'), hub[parent'])
<1>1. CASE HasChanges
  <2>1. /\ db' = disk.db /\ txns' = disk.txns /\ parent' = disk.parent
        /\ DOMAIN tracked' = {} /\ lastSave' = "OK"
    BY <1>1, EmptyMapIsEmpty DEF AbandonIfChanged, Rollback
  <2> QED BY <2>1 DEF Rest, ParentsOK, DiskRecorded, Failed
<1>2. CASE ~HasChanges
  <2>1. UNCHANGED <<fileVars, editVars>> /\ DOMAIN tracked = {}
    BY <1>2 DEF AbandonIfChanged, HasChanges, HasDataChanges
  <2>2. BeforeEdits = db
    BY <2>1, NothingTracked
  <2> QED BY <2>1, <2>2 DEF Rest, ParentsOK, BeforeEditsRecorded, Failed
<1> QED BY <1>1, <1>2

-------------------------------------------------------------------------------
(***************************************************************************)
(* Editing and sessions.                                                   *)
(***************************************************************************)

(* What leaves the tables, the ids and the recorded state alone.           *)
LEMMA UnchangedKeepsRecordInv ==
    ASSUME NEW past, RecordInv(past), Failed' = Failed, BeforeEdits' = BeforeEdits,
           \/ DOMAIN tracked' = DOMAIN tracked /\ db' = db
           \/ job.op = "None",
           UNCHANGED <<txns, parent, disk, curr, reversed, creating, job, hub>>
    PROVE  RecordInv(past)'
<1>1. ParentsOK' /\ FileInv(past)' /\ OpenInv(past)' /\ PushInv(past)' /\ FailedHasNoRedo'
  BY DEF RecordInv, ParentsOK, FileInv, OpenInv, PushInv, FailedHasNoRedo, DiskRecorded
<1>2. Resting(past)'
  BY DEF RecordInv, Resting, BeforeEditsRecorded
<1>3. Reversing(past)' /\ Reinstating' /\ Discarding' /\ Deleting'
  BY DEF RecordInv, Reversing, Reinstating, Discarding, Deleting, IsAt, ReinstatedTo
<1> QED BY <1>1, <1>2, <1>3 DEF RecordInv

(* Editing leaves what was there before the edits.                         *)
LEMMA EditKeepsBeforeEdits ==
    ASSUME TypeInv, NEW key \in Keys, NEW value \in Values, Edit(key, value)
    PROVE  BeforeEdits' = BeforeEdits
<1>1. /\ db' = [db EXCEPT ![key] = value] /\ db \in States
      /\ tracked' = [k \in DOMAIN tracked \cup {key} |->
                        IF k \in DOMAIN tracked THEN tracked[k] ELSE db[k]]
      /\ DOMAIN tracked \subseteq Keys
  BY TrackedIsFunction DEF Edit, TypeInv, FileOK, EditOK
<1>2. \A k \in Keys : (IF k \in DOMAIN tracked' THEN tracked'[k] ELSE db'[k])
                         = IF k \in DOMAIN tracked THEN tracked[k] ELSE db[k]
  BY <1>1 DEF States
<1> QED BY <1>2 DEF BeforeEdits, Original

LEMMA EditKeepsRecordInv ==
    ASSUME NEW past, TypeInv, RecordInv(past),
           NEW key \in Keys, NEW value \in Values, Edit(key, value)
    PROVE  RecordInv(past)'
<1>1. BeforeEdits' = BeforeEdits
  BY EditKeepsBeforeEdits
<1> QED BY <1>1, UnchangedKeepsRecordInv DEF Edit, MayEdit, ClientReady, Failed

(* A new session follows the Txns that are packaged.                       *)
LEMMA NewSessionIsPastPush ==
    ASSUME NEW table, IsFiniteTable(table), NEW id \in NewSessions(table),
           NEW push, push.active, push.end \in TxnIds, NEW versions,
           Packaged(table, push, versions)
    PROVE  ~Before(SessionStart(id), push.end)
<1>1. PICK i \in DOMAIN table : Before(i, push.end) /\ ~Before(<<i[1] + 1, 0>>, push.end)
  BY DEF Packaged
<1>2. id \in TxnIds /\ id[2] = 0 /\ SessionStart(id) = id
  BY NewSessionIsStart
<1>3. Before(i, id) /\ i \in TxnIds
  BY NewSessionIsPast DEF AllBefore, IsFiniteTable, IsTable
<1> QED BY <1>1, <1>2, <1>3 DEF TxnIds, Before

(* Editing, abandoning, multi-Txn operations and restarting the session.   *)
LEMMA SessionActionsKeepRecordInv ==
    ASSUME NEW past, TypeInv, TypeInv', AbandonsFailure, RecordInv(past),
           \/ \E key \in Keys, value \in Values : Edit(key, value)
           \/ EditDdl \/ AbandonChanges
           \/ BeginMultiTxnOperation \/ EndMultiTxnOperation \/ RestartTxnSession
    PROVE  RecordInv(past)'
<1>1. CASE \E key \in Keys, value \in Values : Edit(key, value)
  BY <1>1, EditKeepsRecordInv
<1>2. CASE EditDdl
  BY <1>2, UnchangedKeepsRecordInv DEF EditDdl, BeforeEdits, Original, Failed
<1>3. CASE AbandonChanges
  BY <1>3, RollbackRests, RestIsInv DEF AbandonChanges
<1>4. CASE BeginMultiTxnOperation
  BY <1>4, UnchangedKeepsRecordInv DEF BeginMultiTxnOperation, BeforeEdits, Original, Failed
<1>5. CASE EndMultiTxnOperation
  BY <1>5, UnchangedKeepsRecordInv DEF EndMultiTxnOperation, BeforeEdits, Original, Failed
<1>6. CASE RestartTxnSession
  <2>1. Rest(past) /\ job.op = "None" /\ ~Failed
    BY <1>6, ReadyIsAtRest DEF RestartTxnSession
  <2>2. /\ curr' \in NewSessions(txns) /\ reversed' = <<>>
        /\ UNCHANGED <<fileVars, disk, editVars, creating, job, hub>>
    BY <1>6 DEF RestartTxnSession
  <2>3. curr' \in TxnIds /\ curr'[2] = 0
    BY <2>2, NewSessionIsStart
  <2>4. /\ Sound(txns, hub[parent], curr', <<>>, past)
        /\ Sound(disk.txns, hub[disk.parent], curr', <<>>, past)
    BY <2>1, <2>3, NewSessionIsSound DEF Rest, Sound
  <2>5. PushInv(past)'
    <3>1. creating.active => ~Before(SessionStart(curr'), creating.end)
      BY <2>1, <2>2, NewSessionIsPastPush DEF Rest, PushInv, TypeInv, FileOK
    <3> QED BY <2>1, <2>2, <3>1 DEF Rest, PushInv, SessionStart
  <2>6. IsStack(reversed', curr')
    BY <2>2, LenProperties, EmptySeq DEF IsStack
  <2>7. ParentsOK' /\ BeforeEditsRecorded' /\ DiskRecorded' /\ ~Failed'
    BY <2>1, <2>2
    DEF Rest, ParentsOK, BeforeEditsRecorded, DiskRecorded, BeforeEdits, Original, Failed
  <2>8. Rest(past)'
    BY <2>1, <2>2, <2>4, <2>5, <2>6, <2>7 DEF Rest
  <2> QED BY <2>1, <2>2, <2>7, <2>8, RestIsInv
<1> QED BY <1>1, <1>2, <1>3, <1>4, <1>5, <1>6

-------------------------------------------------------------------------------
(***************************************************************************)
(* Saves.  They are made on table, the open table or what is left of it    *)
(* when a push ends, whose Txns start from base.                           *)
(***************************************************************************)

(* What the Txns of a save have led to so far.                             *)
SavedTo(s, base, state, past) ==
    /\ IsSavedFree(s) /\ AllLive(s.txns) /\ Chained(s.txns, base)
    /\ (past = "Whole" => Contiguous(s.txns, s.curr)) /\ Replay(s.txns, base) = state

(* A change leads from one state to another.                               *)
Leads(change, from, to) ==
    /\ \A key \in DOMAIN change : change[key].old = from[key]
    /\ \A key \in Keys : to[key] = IF key \in DOMAIN change THEN change[key].new
                                   ELSE from[key]

(* What SaveTxn inserts, and where it moves.                               *)
LEMMA SaveTxnInserts ==
    ASSUME NEW from, NEW type \in TxnTypes, NEW change \in Changes,
           NEW s \in SaveTxn(from, type, change)
    PROVE  \E row \in Rows :
              /\ row.change = change /\ ~row.deleted
              /\ s.txns = Insert(from.txns, from.curr, row)
              /\ IF type = "Data" THEN s.curr = Increment(from.curr)
                 ELSE s.curr \in NewSessions(s.txns)
<1> DEFINE isGrouped == from.multi # <<>> /\ Before(Head(from.multi), from.curr)
           row == [type |-> type, deleted |-> FALSE, change |-> change,
                   grouped |-> isGrouped]
           table == Insert(from.txns, from.curr, row)
<1>1. isGrouped \in BOOLEAN
  BY Zenon DEF Before
<1>2. CASE type = "Data"
  <2>1. s = [txns |-> table, curr |-> Increment(from.curr), multi |-> from.multi]
    BY <1>2 DEF SaveTxn
  <2>2. s.txns = table /\ s.curr = Increment(from.curr)
    BY <2>1
  <2> HIDE DEF isGrouped
  <2>3. row \in Rows /\ row.change = change /\ ~row.deleted
    BY <1>1 DEF Rows
  <2> HIDE DEF row
  <2> QED BY <1>2, <2>2, <2>3
<1>3. CASE type # "Data"
  <2>1. PICK id \in NewSessions(table) : s = [txns |-> table, curr |-> id, multi |-> <<>>]
    BY <1>3 DEF SaveTxn
  <2>2. s.txns = table /\ s.curr \in NewSessions(table)
    BY <2>1
  <2> HIDE DEF isGrouped
  <2>3. row \in Rows /\ row.change = change /\ ~row.deleted
    BY <1>1 DEF Rows
  <2> HIDE DEF row
  <2> QED BY <1>3, <2>2, <2>3
<1> QED BY <1>2, <1>3

(* SaveTxn's row leads from the state recorded so far to the next.         *)
LEMMA SaveTxnRecords ==
    ASSUME NEW past, NEW from, NEW base, NEW old \in States, SavedTo(from, base, old, past),
           NEW type \in TxnTypes, NEW change \in Changes,
           NEW new \in States, Leads(change, old, new),
           NEW s \in SaveTxn(from, type, change)
    PROVE  SavedTo(s, base, new, past)
<1>0. PICK row \in Rows :
          /\ row.change = change /\ ~row.deleted
          /\ s.txns = Insert(from.txns, from.curr, row)
          /\ IF type = "Data" THEN s.curr = Increment(from.curr)
             ELSE s.curr \in NewSessions(s.txns)
  BY SaveTxnInserts
<1> DEFINE table == Insert(from.txns, from.curr, row)
<1>1. IsSavedFree(s)
  BY SaveTxnLeavesNextIdFree DEF SavedTo
<1>2. /\ IsFiniteTable(from.txns) /\ from.curr \in TxnIds
      /\ \A i \in DOMAIN from.txns : Before(i, from.curr)
  BY DEF SavedTo, IsSavedFree, IsSaved, AllBefore
<1>4. s.txns = table
  BY <1>0
<1>5. /\ DOMAIN table = DOMAIN from.txns \cup {from.curr}
      /\ \A i \in DOMAIN table : table[i] = IF i = from.curr THEN row ELSE from.txns[i]
  BY DEF Insert
<1>7. AllLive(table)
  BY <1>0, <1>5 DEF AllLive, SavedTo
<1>8. Replay(from.txns, base) = old
  BY DEF SavedTo
<1>9. \A key \in DOMAIN row.change : row.change[key].old = Replay(from.txns, base)[key]
  BY <1>0, <1>8 DEF Leads
<1>10. Chained(table, base)
  BY <1>2, <1>9, InsertKeepsChain DEF SavedTo
<1>11. Replay(table, base) = new
  <2>1. ASSUME NEW key \in Keys PROVE Replay(table, base)[key] = new[key]
    <3>1. Replay(table, base)[key] = IF key \in DOMAIN row.change THEN row.change[key].new
                                     ELSE Replay(from.txns, base)[key]
      BY <1>2, InsertLeadsOn
    <3> QED BY <1>0, <1>8, <3>1 DEF Leads
  <2>2. Replay(table, base) = [k \in Keys |-> Replay(table, base)[k]]
    BY Zenon DEF Replay
  <2> QED BY <2>1, <2>2 DEF States
<1>12. ASSUME past = "Whole" PROVE Contiguous(table, s.curr)
  <2>1. CASE type = "Data"
    <3>1. s.curr = Increment(from.curr)
      BY <1>0, <2>1
    <3>2. ASSUME NEW n \in 0..(from.curr[2] + 1), n # from.curr[2] + 1
          PROVE  <<from.curr[1], n>> \in DOMAIN table
      <4>1. CASE n = from.curr[2]
        <5>1. <<from.curr[1], n>> = from.curr
          BY <1>2, <4>1 DEF TxnIds
        <5> QED BY <1>5, <5>1
      <4>2. CASE n # from.curr[2]
        <5>1. n \in 0..from.curr[2]
          BY <1>2, <3>2, <4>2 DEF TxnIds
        <5> QED BY <1>5, <1>12, <4>2, <5>1 DEF SavedTo, Contiguous
      <4> QED BY <4>1, <4>2
    <3> HIDE DEF table
    <3> QED BY <1>2, <3>1, <3>2 DEF Contiguous, Increment, TxnIds
  <2>2. CASE type # "Data"
    <3>1. s.curr \in NewSessions(table)
      BY <1>0, <1>4, <2>2
    <3>2. s.curr[2] = 0
      BY <3>1, NewSessionIsStart
    <3> QED BY <3>2 DEF Contiguous
  <2> QED BY <2>1, <2>2
<1> QED BY <1>1, <1>4, <1>7, <1>10, <1>11, <1>12 DEF SavedTo

(* What lies before end, up to the start of the session of a save.         *)
Extends(table, s, end) ==
    /\ ~Before(SessionStart(s.curr), end)
    /\ \A i \in TxnIds : Before(i, end) =>
          /\ i \in DOMAIN s.txns <=> i \in DOMAIN table
          /\ i \in DOMAIN s.txns => s.txns[i] = table[i]

(* SaveTxn leaves it alone.                                                *)
LEMMA SaveTxnExtends ==
    ASSUME NEW from, IsSavedFree(from), NEW type \in TxnTypes, NEW change \in Changes,
           NEW table, NEW end \in TxnIds, Extends(table, from, end),
           NEW s \in SaveTxn(from, type, change)
    PROVE  Extends(table, s, end)
<1>0. PICK row \in Rows :
          /\ row.change = change /\ ~row.deleted
          /\ s.txns = Insert(from.txns, from.curr, row)
          /\ IF type = "Data" THEN s.curr = Increment(from.curr)
             ELSE s.curr \in NewSessions(s.txns)
  BY SaveTxnInserts
<1> DEFINE new == Insert(from.txns, from.curr, row)
<1>1. /\ DOMAIN new = DOMAIN from.txns \cup {from.curr}
      /\ \A i \in DOMAIN from.txns : i # from.curr => new[i] = from.txns[i]
  BY DEF Insert
<1>2. s.txns = new
  BY <1>0
<1> HIDE DEF new
<1>3. s.curr = Increment(from.curr) \/ s.curr \in NewSessions(new)
  BY <1>0, <1>2
<1>4. IsFiniteTable(new) /\ s.curr \in TxnIds /\ from.curr \in TxnIds
  BY <1>2, SaveTxnLeavesNextIdFree DEF IsSavedFree, IsSaved
<1>5. s.curr[1] >= from.curr[1]
  <2>1. CASE s.curr = Increment(from.curr)
    BY <1>4, <2>1, IncrementIsLater DEF TxnIds
  <2>2. CASE s.curr \in NewSessions(new)
    <3>1. Before(from.curr, s.curr)
      BY <1>1, <1>4, <2>2, NewSessionIsPast DEF AllBefore
    <3> QED BY <1>4, <3>1 DEF Before, TxnIds
  <2> QED BY <1>3, <2>1, <2>2
<1>6. ~Before(SessionStart(from.curr), end)
  BY DEF Extends
<1>7. ~Before(SessionStart(s.curr), end) /\ ~Before(from.curr, end)
  BY <1>4, <1>5, <1>6, SessionStartIsFirst DEF TxnIds
<1>8. ASSUME NEW i \in TxnIds, Before(i, end)
      PROVE  /\ i \in DOMAIN new <=> i \in DOMAIN table
             /\ i \in DOMAIN new => new[i] = table[i]
  <2>1. i # from.curr
    BY <1>7, <1>8
  <2> QED BY <1>1, <1>8, <2>1 DEF Extends
<1> QED BY <1>2, <1>7, <1>8 DEF Extends

(* A table whose Txns record what was there before the edits.              *)
Savable(table, base, past) ==
    /\ IsFiniteTable(table) /\ Freed(table, curr) /\ base \in States
    /\ Sound(table, base, curr, reversed, past)
    /\ BeforeEdits = Replay(WithoutReversed(table), base)

(* The Txns of a save that lead to the database.                           *)
LEMMA SavedIsSound ==
    ASSUME NEW past, NEW s, NEW base, NEW state, SavedTo(s, base, state, past),
           NEW operations, NEW restart,
           SettleSession(s.txns, s.curr, operations, <<>>, restart)
    PROVE  /\ Sound(s.txns, base, curr', <<>>, past) /\ reversed' = <<>>
           /\ Replay(WithoutReversed(s.txns), base) = state
<1>1. /\ IsFiniteTable(s.txns) /\ AllLive(s.txns) /\ Chained(s.txns, base)
      /\ Replay(s.txns, base) = state /\ AllBefore(s.txns, s.curr)
      /\ past = "Whole" => Contiguous(s.txns, s.curr)
  BY DEF SavedTo, IsSavedFree, IsSaved
<1>2. Replay(WithoutReversed(s.txns), base) = state
  BY <1>1, NothingToDelete
<1>3. LiveFirst(s.txns)
  BY <1>1 DEF AllLive, LiveFirst
<1>4. CutAt(s.txns, s.curr)
  BY <1>1 DEF AllLive, AllBefore, CutAt
<1>5. Sound(s.txns, base, s.curr, <<>>, past)
  BY <1>1, <1>3, <1>4 DEF Sound, Complete
<1>6. CASE curr' \in NewSessions(s.txns) /\ reversed' = <<>>
  BY <1>1, <1>2, <1>3, <1>6, NewSessionIsStart, NewSessionIsSound
<1>7. CASE curr' = s.curr /\ reversed' = <<>>
  BY <1>2, <1>5, <1>7
<1> QED BY <1>6, <1>7 DEF SettleSession

(* No change, or one that leads nowhere else.                              *)
LEMMA NoChangeLeads ==
    ASSUME NEW from
    PROVE  Leads(EmptyMap, from, from)
  BY DEF Leads, EmptyMap

(* What a save packages leads from one state to the other.                 *)
LEMMA DifferenceLeads ==
    ASSUME NEW from \in States, NEW to \in States
    PROVE  Leads(Difference(from, to), from, to)
  BY DEF Leads, Difference, States

(* A commit records the edits, on top of what is live in the table.        *)
LEMMA SaveTrackedRecords ==
    ASSUME NEW past, SavedOK, NEW table, NEW base, Savable(table, base, past),
           NEW version, NEW restart, SaveTracked(table, version, restart)
    PROVE  /\ Sound(txns', base, curr', <<>>, past) /\ reversed' = <<>>
           /\ db' = Replay(WithoutReversed(txns'), base)
           /\ ~restart => \A stop \in TxnIds : ~Before(SessionStart(curr), stop) =>
                 ~Before(SessionStart(curr'), stop) /\ LiveKeptBefore(table, txns', stop)
<1>1. PICK state \in Propagated :
          LET start == [txns |-> WithoutReversed(table), curr |-> curr, multi |-> multi]
          IN \E middle \in SaveDdlTxn(start) :
             \E end \in SaveSchemaAndDataTxns(middle, Difference(BeforeEdits, state)) :
                /\ Cardinality(DOMAIN end.txns) <= MaxTxns /\ end.curr[2] <= MaxTxns
                /\ db' = state /\ txns' = end.txns
                /\ SettleSession(end.txns, end.curr, end.multi, <<>>, restart)
  BY DEF SaveTracked
<1> DEFINE start == [txns |-> WithoutReversed(table), curr |-> curr, multi |-> multi]
           change == Difference(BeforeEdits, state)
<1>2. PICK middle \in SaveDdlTxn(start) :
          \E end \in SaveSchemaAndDataTxns(middle, change) :
             /\ db' = state /\ txns' = end.txns
             /\ SettleSession(end.txns, end.curr, end.multi, <<>>, restart)
  BY <1>1
<1>3. PICK end \in SaveSchemaAndDataTxns(middle, change) :
          /\ db' = state /\ txns' = end.txns
          /\ SettleSession(end.txns, end.curr, end.multi, <<>>, restart)
  BY <1>2
<1>4. /\ BeforeEdits \in States /\ state \in States
      /\ change \in Changes /\ Leads(change, BeforeEdits, state)
  BY BeforeEditsIsState, DifferenceIsChange, DifferenceLeads DEF SavedOK
<1>5. SavedTo(start, base, BeforeEdits, past)
  <2>1. IsFiniteTable(table) /\ Sound(table, base, curr, reversed, past) /\ curr \in TxnIds
    BY DEF Savable, SavedOK, SessionOK
  <2>2. IsSavedFree(start)
    BY WithoutReversedIsTable, WithoutReversedIsBefore
    DEF IsSavedFree, IsSaved, SavedOK, SessionOK, Savable
  <2>3. AllLive(WithoutReversed(table))
    BY <2>1, WithoutReversedRows
  <2>4. Sound(WithoutReversed(table), base, curr, <<>>, past)
    BY <2>1, WithoutReversedIsSound
  <2> QED BY <2>2, <2>3, <2>4 DEF SavedTo, Sound, Complete, Savable
<1>6. ASSUME NEW stop \in TxnIds, ~Before(SessionStart(curr), stop)
      PROVE  Extends(WithoutReversed(table), start, stop)
  BY <1>6 DEF Extends
<1> HIDE DEF start, change
<1>7. /\ SavedTo(middle, base, BeforeEdits, past)
      /\ \A stop \in TxnIds : ~Before(SessionStart(curr), stop) =>
            Extends(WithoutReversed(table), middle, stop)
  <2>1. CASE ddl
    <3>1. middle \in SaveTxn(start, "Ddl", EmptyMap) /\ "Ddl" \in TxnTypes
      BY <2>1 DEF SaveDdlTxn, TxnTypes
    <3>2. SavedTo(middle, base, BeforeEdits, past)
      BY <1>4, <1>5, <3>1, NoChangeLeads, SaveTxnRecords, EmptyIsChange
    <3>3. ASSUME NEW stop \in TxnIds, ~Before(SessionStart(curr), stop)
          PROVE  Extends(WithoutReversed(table), middle, stop)
      BY <1>5, <1>6, <3>1, <3>3, SaveTxnExtends, EmptyIsChange DEF SavedTo
    <3> QED BY <3>2, <3>3
  <2>2. CASE ~ddl
    BY <1>5, <1>6, <2>2 DEF SaveDdlTxn
  <2> QED BY <2>1, <2>2
<1>8. /\ SavedTo(end, base, state, past)
      /\ \A stop \in TxnIds : ~Before(SessionStart(curr), stop) =>
            Extends(WithoutReversed(table), end, stop)
  <2>1. CASE DOMAIN change = {}
    <3>1. BeforeEdits = state
      BY <1>4, <2>1 DEF Leads, States
    <3> QED BY <1>7, <2>1, <3>1 DEF SaveSchemaAndDataTxns
  <2>2. CASE DOMAIN change # {}
    <3> DEFINE type == IF DOMAIN DirectChange \cap SchemaKeys # {} THEN "EcSchema" ELSE "Data"
    <3>1. end \in SaveTxn(middle, type, change) /\ type \in TxnTypes
      BY <2>2 DEF SaveSchemaAndDataTxns, TxnTypes
    <3> HIDE DEF type
    <3>2. SavedTo(end, base, state, past)
      BY <1>4, <1>7, <3>1, SaveTxnRecords
    <3>3. ASSUME NEW stop \in TxnIds, ~Before(SessionStart(curr), stop)
          PROVE  Extends(WithoutReversed(table), end, stop)
      BY <1>4, <1>7, <3>1, <3>3, SaveTxnExtends DEF SavedTo
    <3> QED BY <3>2, <3>3
  <2> QED BY <2>1, <2>2
<1>9. /\ Sound(end.txns, base, curr', <<>>, past) /\ reversed' = <<>>
      /\ Replay(WithoutReversed(end.txns), base) = state
  BY <1>3, <1>8, SavedIsSound
<1>10. ASSUME ~restart, NEW stop \in TxnIds, ~Before(SessionStart(curr), stop)
       PROVE  ~Before(SessionStart(curr'), stop) /\ LiveKeptBefore(table, txns', stop)
  <2>1. curr' = end.curr /\ txns' = end.txns
    BY <1>3, <1>10 DEF SettleSession
  <2>2. LiveKeptBefore(table, WithoutReversed(table), stop)
    BY DeletingReversedKeepsLive DEF Savable
  <2>3. Extends(WithoutReversed(table), end, stop)
    BY <1>8, <1>10
  <2> QED BY <2>1, <2>2, <2>3 DEF Extends, LiveKeptBefore
<1> QED BY <1>3, <1>9, <1>10

(* With nothing to save, the database is what it was before the edits.     *)
LEMMA NothingToSaveIsRecorded ==
    ASSUME TypeInv, NothingToSave
    PROVE  BeforeEdits = db
<1>1. BeforeEdits \in States /\ db \in States
  BY BeforeEditsIsState DEF TypeInv, FileOK
<1>2. CASE ~HasDataChanges
  BY <1>2, NothingTracked DEF HasDataChanges
<1>3. CASE DOMAIN DirectChange = {}
  <2>1. \A k \in Keys : BeforeEdits[k] = db[k]
    BY <1>3 DEF DirectChange, Difference
  <2> QED BY <1>1, <2>1 DEF States
<1> QED BY <1>2, <1>3 DEF NothingToSave

(* With nothing to save the table is committed as it is.                   *)
LEMMA SaveUntrackedRecords ==
    ASSUME NEW past, TypeInv, NEW table, NEW base, Savable(table, base, past),
           NEW version, NEW restart, SaveUntracked(table, version, restart)
    PROVE  /\ Sound(txns', base, curr', reversed', past)
           /\ db' = Replay(WithoutReversed(txns'), base)
           /\ IsStack(reversed, curr) => IsStack(reversed', curr')
           /\ ~restart => curr' = curr
<1>1. /\ txns' = table /\ db' = db /\ NothingToSave
      /\ SettleSession(table, curr, multi, reversed, restart)
  BY DEF SaveUntracked
<1>2. db' = Replay(WithoutReversed(txns'), base)
  BY <1>1, NothingToSaveIsRecorded DEF Savable
<1>3. Sound(table, base, curr, reversed, past)
  BY DEF Savable
<1>4. CASE restart /\ curr' \in NewSessions(table) /\ reversed' = <<>>
  <2>1. Sound(table, base, curr', <<>>, past)
    BY <1>3, <1>4, NewSessionIsStart, NewSessionIsSound DEF Sound
  <2>2. IsStack(<<>>, curr')
    BY DEF IsStack
  <2> QED BY <1>1, <1>2, <1>4, <2>1, <2>2
<1>5. CASE curr' = curr /\ reversed' = reversed
  BY <1>1, <1>2, <1>3, <1>5
<1> QED BY <1>1, <1>4, <1>5 DEF SettleSession

(* A COMMIT of what is recorded leaves the briefcase at rest.              *)
LEMMA CommitRests ==
    ASSUME NEW past, TypeInv', Persist, DOMAIN tracked' = {}, parent' \in 1..Len(hub'),
           Sound(txns', hub'[parent'], curr', reversed', past),
           db' = Replay(WithoutReversed(txns'), hub'[parent']),
           Packaged(txns', creating', hub'), IsStack(reversed', curr'), PushInv(past)'
    PROVE  Rest(past)'
<1>1. /\ disk'.db = db' /\ disk'.txns = txns' /\ disk'.parent = parent'
  BY DEF Persist
<1>2. BeforeEdits' = db'
  BY NothingTrackedNext
<1>3. BeforeEditsRecorded' /\ DiskRecorded' /\ ParentsOK'
  BY <1>1, <1>2 DEF BeforeEditsRecorded, DiskRecorded, ParentsOK
<1> QED BY <1>1, <1>3 DEF Rest

(* A stack without ranges.                                                 *)
LEMMA EmptyIsStack ==
    ASSUME NEW id
    PROVE  IsStack(<<>>, id)
  BY EmptySeq DEF IsStack

(* A save whose propagation fails leaves the file as it was.               *)
LEMMA SaveFailsKeepsRecordInv ==
    ASSUME NEW past, TypeInv, RecordInv(past), job.op = "None", UNCHANGED <<creating, job, hub>>,
           NEW table, NEW version \in 1..Len(hub), Savable(table, hub[version], past),
           SaveFails(table, version)
    PROVE  RecordInv(past)'
<1>1. /\ txns' = WithoutReversed(table) /\ parent' = version /\ reversed' = <<>>
      /\ UNCHANGED <<disk, curr>> /\ Failed'
  BY DEF SaveFails, Failed
<1>2. Chained(txns', hub[version])
  BY <1>1, WithoutReversedIsChained DEF Savable, Sound
<1>3. Sound(disk.txns, hub[disk.parent], curr, <<>>, past)
  BY DroppingRedoIsSound DEF RecordInv, FileInv
<1>4. FileInv(past)'
  BY <1>1, <1>3 DEF RecordInv, FileInv, DiskRecorded
<1>5. OpenInv(past)' /\ ParentsOK' /\ PushInv(past)' /\ FailedHasNoRedo'
  BY <1>1, <1>2 DEF RecordInv, OpenInv, ParentsOK, PushInv, FailedHasNoRedo
<1>6. Resting(past)' /\ Reversing(past)' /\ Reinstating' /\ Discarding' /\ Deleting'
  BY <1>1 DEF Resting, Reversing, Reinstating, Discarding, Deleting
<1> QED BY <1>1, <1>4, <1>5, <1>6, EmptyIsStack DEF RecordInv

(* SaveChanges.                                                            *)
LEMMA SaveChangesKeepsRecordInv ==
    ASSUME NEW past, TypeInv, TypeInv', AbandonsFailure, IdInv, RecordInv(past), SaveChanges
    PROVE  RecordInv(past)'
<1>1. /\ Rest(past) /\ job.op = "None" /\ ~Failed /\ UNCHANGED <<creating, job, hub>>
      /\ Settled
  BY ReadyIsAtRest, ReadyIsSettled DEF SaveChanges
<1>2. parent \in 1..Len(hub) /\ hub[parent] \in States
  BY <1>1, ElementOfSeq DEF Rest, ParentsOK, TypeInv, HubOK
<1>3. Savable(txns, hub[parent], past) /\ SavedOK /\ IsFiniteTable(txns)
  BY <1>1, <1>2
  DEF Savable, Rest, BeforeEditsRecorded, Settled, TypeInv, FileOK, SavedOK
<1>4. /\ Packaged(txns, creating, hub) /\ PushInv(past)
      /\ creating.active => parent = disk.parent
  BY <1>1 DEF Rest, PushInv
<1>5. CASE SaveUntracked(txns, parent, FALSE)
  <2>1. /\ txns' = txns /\ parent' = parent /\ Persist
        /\ DOMAIN tracked' = {} /\ lastSave' = "OK"
    BY <1>5, EmptyMapIsEmpty DEF SaveUntracked
  <2>2. /\ Sound(txns', hub[parent], curr', reversed', past) /\ curr' = curr
        /\ db' = Replay(WithoutReversed(txns'), hub[parent])
        /\ IsStack(reversed', curr')
    BY <1>1, <1>3, <1>5, SaveUntrackedRecords DEF Rest
  <2>3. PushInv(past)'
    BY <1>1, <1>4, <2>1, <2>2 DEF PushInv, Persist
  <2>4. Rest(past)' /\ ~Failed'
    BY <1>1, <1>2, <1>4, <2>1, <2>2, <2>3, CommitRests DEF Failed
  <2> QED BY <1>1, <2>4, RestIsInv
<1>6. CASE SaveTracked(txns, parent, FALSE)
  <2>1. parent' = parent /\ Persist /\ DOMAIN tracked' = {} /\ lastSave' = "OK"
    BY <1>6, EmptyMapIsEmpty DEF SaveTracked
  <2>2. /\ Sound(txns', hub[parent], curr', <<>>, past) /\ reversed' = <<>>
        /\ db' = Replay(WithoutReversed(txns'), hub[parent])
        /\ \A stop \in TxnIds : ~Before(SessionStart(curr), stop) =>
              ~Before(SessionStart(curr'), stop) /\ LiveKeptBefore(txns, txns', stop)
    BY <1>3, <1>6, SaveTrackedRecords
  <2>3. PushInv(past)'
    BY <1>1, <1>4, <2>1, <2>2 DEF PushInv, Persist
  <2>4. Packaged(txns', creating', hub')
    <3>1. IsFiniteTable(txns')
      BY DEF TypeInv, FileOK
    <3>2. creating.active => LiveKeptBefore(txns, txns', creating.end)
      BY <1>4, <2>2 DEF PushInv
    <3>3. Packaged(txns', creating, hub)
      BY <1>3, <1>4, <3>1, <3>2, PackagedIsKept
    <3> QED BY <1>1, <3>3
  <2>5. Rest(past)' /\ ~Failed'
    BY <1>1, <1>2, <2>1, <2>2, <2>3, <2>4, CommitRests, EmptyIsStack DEF Failed
  <2> QED BY <1>1, <2>5, RestIsInv
<1>7. CASE SaveFails(txns, parent)
  BY <1>1, <1>2, <1>3, <1>7, SaveFailsKeepsRecordInv
<1>8. CASE SaveRefused
  <2>1. Failed' = Failed
    BY <1>1, <1>8 DEF SaveRefused, Failed
  <2>2. tracked' = tracked /\ db' = db
    BY <1>8 DEF SaveRefused
  <2>3. BeforeEdits' = BeforeEdits
    BY <2>2 DEF BeforeEdits, Original
  <2> QED BY <1>1, <1>8, <2>1, <2>3, UnchangedKeepsRecordInv DEF SaveRefused
<1> QED BY <1>5, <1>6, <1>7, <1>8 DEF SaveChanges

-------------------------------------------------------------------------------
(***************************************************************************)
(* FinishCreateChangeset.                                                  *)
(***************************************************************************)

(* What is left of the table when a push ends.                             *)
LEMMA PushedIsSound ==
    ASSUME NEW past, NEW table, IsFiniteTable(table), NEW base \in States, NEW id \in TxnIds,
           NEW ranges \in Seq(Ranges), IsStack(ranges, id), Stacked(ranges, id),
           Sound(table, base, id, ranges, past), NEW end \in TxnIds,
           ~Before(SessionStart(id), end)
    PROVE  Sound(From(table, end), StateAt(table, base, end), id, ranges, past)
<1>1. /\ DOMAIN From(table, end) = {i \in DOMAIN table : ~Before(i, end)}
      /\ \A i \in DOMAIN From(table, end) : From(table, end)[i] = table[i]
  BY RowsFrom
<1>2. Chained(From(table, end), StateAt(table, base, end))
  BY FromIsChained DEF Sound
<1>3. LiveFirst(From(table, end))
  BY FromIsLiveFirst DEF Sound
<1>4. CutAt(table, id) => CutAt(From(table, end), id)
  BY <1>1 DEF CutAt
<1>5. ASSUME NEW other \in TxnIds, ~Before(other, id), Contiguous(table, other)
      PROVE  /\ ~Before(other, end)
             /\ Contiguous(From(table, end), other)
  <2>1. other[1] >= id[1]
    BY <1>5 DEF Before, TxnIds
  <2>2. ~Before(other, end) /\ ~Before(SessionStart(other), end)
    BY <2>1, SessionStartIsFirst
  <2>3. ASSUME NEW n \in 0..other[2], n # other[2]
        PROVE  <<other[1], n>> \in DOMAIN From(table, end)
    <3>1. <<other[1], n>> \in DOMAIN table
      BY <1>5, <2>3 DEF Contiguous
    <3>2. ~Before(<<other[1], n>>, end)
      BY <2>2, <2>3 DEF Before, SessionStart, TxnIds
    <3> QED BY <1>1, <3>1, <3>2
  <2> QED BY <2>2, <2>3 DEF Contiguous
<1>6. past = "Whole" => Contiguous(From(table, end), id)
  BY <1>5, BeforeIsTotal DEF Sound, Complete
<1>7. ASSUME NEW n \in 1..Len(ranges)
      PROVE  /\ ranges[n].first \in DOMAIN From(table, end)
             /\ past = "Whole" => Contiguous(From(table, end), ranges[n].last)
  <2>1. /\ ranges[n].first \in TxnIds /\ ranges[n].last \in TxnIds
        /\ ~Before(ranges[n].first, id) /\ ~Before(ranges[n].last, id)
    BY StackIsPast
  <2>2. /\ ranges[n].first \in DOMAIN table
        /\ past = "Whole" => Contiguous(table, ranges[n].last)
    BY DEF Sound, Complete
  <2>3. ~Before(ranges[n].first, end)
    <3>1. ranges[n].first[1] >= id[1]
      BY <2>1 DEF Before, TxnIds
    <3> QED BY <2>1, <3>1, SessionStartIsFirst
  <2> QED BY <1>1, <1>5, <2>1, <2>2, <2>3
<1> QED BY <1>2, <1>3, <1>4, <1>6, <1>7 DEF Sound, Complete

(* FinishCreateChangeset deletes the Txns that led to the version it makes *)
(* the parent.                                                             *)
LEMMA FinishKeepsRecordInv ==
    ASSUME NEW past, TypeInv, TypeInv', AbandonsFailure, IdInv, RecordInv(past),
           FinishCreateChangeset
    PROVE  RecordInv(past)'
<1> DEFINE end == creating.end
           table == From(txns, end)
           version == creating.parent + 1
<1>1. /\ Rest(past) /\ job.op = "None" /\ ~Failed /\ UNCHANGED <<job, hub>> /\ Settled
      /\ creating.uploaded
      /\ \/ SaveUntracked(table, version, TRUE) /\ creating' = NotCreating
         \/ SaveTracked(table, version, TRUE) /\ creating' = NotCreating
         \/ SaveFails(table, version) /\ UNCHANGED creating
  BY ReadyIsAtRest, ReadyIsSettled DEF FinishCreateChangeset
<1>2. parent \in 1..Len(hub) /\ hub[parent] \in States
  BY <1>1, ElementOfSeq DEF Rest, ParentsOK, TypeInv, HubOK
<1>3. /\ creating.active /\ end \in TxnIds /\ ~Before(SessionStart(curr), end)
      /\ creating.parent = parent /\ version \in 1..Len(hub)
  BY <1>1 DEF Rest, PushInv
<1>4. /\ hub[version] = StateAt(txns, hub[parent], end)
      /\ \A i \in DOMAIN txns : Before(i, end) => ~txns[i].deleted
  BY <1>1, <1>3 DEF Rest, Packaged
<1>5. Savable(table, hub[version], past)
  <2>1. IsFiniteTable(txns) /\ curr \in TxnIds /\ reversed \in Seq(Ranges)
    BY DEF TypeInv, FileOK, SessionOK
  <2>2. Freed(txns, curr) /\ Stacked(reversed, curr)
    BY <1>1 DEF Settled
  <2>3. /\ Sound(txns, hub[parent], curr, reversed, past) /\ IsStack(reversed, curr)
        /\ BeforeEdits = Replay(WithoutReversed(txns), hub[parent])
    BY <1>1 DEF Rest, BeforeEditsRecorded
  <2>4. IsFiniteTable(table) /\ Freed(table, curr)
    BY <2>1, <2>2, FromIsTable, KeepIsFreed DEF From
  <2>5. Sound(table, hub[version], curr, reversed, past)
    BY <1>2, <1>3, <1>4, <2>1, <2>2, <2>3, PushedIsSound
  <2>6. BeforeEdits = Replay(WithoutReversed(table), hub[version])
    BY <1>2, <1>3, <1>4, <2>1, <2>3, PushedReplays
  <2>7. hub[version] \in States
    BY <1>3, ElementOfSeq DEF TypeInv, HubOK
  <2> HIDE DEF table, version
  <2> QED BY <2>4, <2>5, <2>6, <2>7 DEF Savable
<1> HIDE DEF table, version
<1>6. ASSUME creating' = NotCreating
      PROVE  PushInv(past)' /\ Packaged(txns', creating', hub')
  BY <1>6 DEF PushInv, Packaged, NotCreating
<1>7. SavedOK
  BY DEF TypeInv, SavedOK
<1>8. CASE SaveUntracked(table, version, TRUE) /\ creating' = NotCreating
  <2>1. /\ parent' = version /\ Persist
        /\ DOMAIN tracked' = {} /\ lastSave' = "OK"
    BY <1>8, EmptyMapIsEmpty DEF SaveUntracked
  <2>2. /\ Sound(txns', hub[version], curr', reversed', past)
        /\ db' = Replay(WithoutReversed(txns'), hub[version])
        /\ IsStack(reversed', curr')
    BY <1>1, <1>5, <1>8, SaveUntrackedRecords DEF Rest
  <2>3. Rest(past)' /\ ~Failed'
    BY <1>1, <1>3, <1>6, <1>8, <2>1, <2>2, CommitRests DEF Failed
  <2> QED BY <1>1, <2>3, RestIsInv
<1>9. CASE SaveTracked(table, version, TRUE) /\ creating' = NotCreating
  <2>1. parent' = version /\ Persist /\ DOMAIN tracked' = {} /\ lastSave' = "OK"
    BY <1>9, EmptyMapIsEmpty DEF SaveTracked
  <2>2. /\ Sound(txns', hub[version], curr', <<>>, past) /\ reversed' = <<>>
        /\ db' = Replay(WithoutReversed(txns'), hub[version])
    BY <1>5, <1>7, <1>9, SaveTrackedRecords
  <2>3. Rest(past)' /\ ~Failed'
    BY <1>1, <1>3, <1>6, <1>9, <2>1, <2>2, CommitRests, EmptyIsStack DEF Failed
  <2> QED BY <1>1, <2>3, RestIsInv
<1>10. CASE SaveFails(table, version) /\ UNCHANGED creating
  BY <1>1, <1>3, <1>5, <1>10, SaveFailsKeepsRecordInv
<1> QED BY <1>1, <1>8, <1>9, <1>10

-------------------------------------------------------------------------------
(***************************************************************************)
(* Undo.                                                                   *)
(***************************************************************************)

(* DeleteReversedTxns deletes none of the Txns being pushed.               *)
LEMMA WithoutReversedIsPackaged ==
    ASSUME NEW table, IsFiniteTable(table), NEW push, NEW versions,
           Packaged(table, push, versions)
    PROVE  Packaged(WithoutReversed(table), push, versions)
  BY WithoutReversedIsTable, DeletingReversedKeepsLive, PackagedIsKept

(* Deleting the reversed Txns twice is deleting them once.                 *)
LEMMA DeletingReversedReplays ==
    ASSUME NEW table, IsFiniteTable(table)
    PROVE  WithoutReversed(WithoutReversed(table)) = WithoutReversed(table)
  BY WithoutReversedRows, NothingToDelete

(* A briefcase at rest is at rest when its reversed Txns have been deleted *)
(* from the open table.                                                    *)
LEMMA DeleteReversedRests ==
    ASSUME NEW past, TypeInv, Rest(past), txns' = WithoutReversed(txns), reversed' = <<>>,
           UNCHANGED <<db, parent, disk, curr, editVars, hub>>, PushInv(past)',
           Packaged(txns', creating', hub), Packaged(disk.txns, creating', hub)
    PROVE  Rest(past)'
<1>1. IsFiniteTable(txns) /\ IsFiniteTable(disk.txns) /\ curr \in TxnIds
  BY DEF TypeInv, FileOK, DiskOK, SessionOK
<1>2. /\ Sound(txns', hub[parent], curr, <<>>, past)
      /\ Sound(disk.txns, hub[disk.parent], curr, <<>>, past)
  BY <1>1, WithoutReversedIsSound, DroppingRedoIsSound DEF Rest
<1>3. BeforeEdits' = BeforeEdits
  BY DEF BeforeEdits, Original
<1>4. BeforeEditsRecorded'
  BY <1>1, <1>3, DeletingReversedReplays DEF Rest, BeforeEditsRecorded
<1>5. ParentsOK' /\ DiskRecorded' /\ (past = "Whole" => parent' = disk'.parent)
  BY DEF Rest, ParentsOK, DiskRecorded
<1> QED BY <1>2, <1>4, <1>5, EmptyIsStack DEF Rest

(* ReverseTxnRange begins at curr, the end of the live Txns.               *)
LEMMA ReverseRangeKeepsRecordInv ==
    ASSUME NEW past, TypeInv, TypeInv', AbandonsFailure, RowsInFile, RecordInv(past),
           NEW first \in DOMAIN txns, NEW cancel, past = "Whole" => first[1] = curr[1],
           Before(first, curr), curr[2] # 0, ReverseRange(first, cancel)
    PROVE  RecordInv(past)'
<1>1. /\ Rest(past) /\ job.op = "None" /\ ~Failed /\ AbandonIfChanged
      /\ UNCHANGED <<disk, curr, reversed, creating, hub>>
      /\ job' = [op |-> "Reverse", at |-> curr, first |-> first, last |-> curr,
                 cancel |-> cancel]
  BY ReadyIsAtRest DEF ReverseRange
<1>2. /\ ParentsOK' /\ (past = "Whole" => parent' = disk'.parent)
      /\ Sound(txns', hub[parent'], curr, reversed, past)
      /\ Packaged(txns', creating, hub)
      /\ DOMAIN tracked' = {} /\ ~Failed'
      /\ db' = Replay(WithoutReversed(txns'), hub[parent'])
  BY <1>1, AbandonRests
<1>3. job'.op = "Reverse" /\ job'.at = curr /\ job'.first = first
  BY <1>1
<1>4. CutAt(txns', curr) /\ db' = StateAt(txns', hub[parent'], curr)
  BY <1>2, SoundIsCut DEF TypeInv, FileOK
<1>5. curr \in TxnIds /\ first \in TxnIds
  BY DEF TypeInv, SessionOK, FileOK, IsFiniteTable, IsTable
<1>6. Reversing(past)'
  <2>1. ~Before(curr, first)
    BY <1>5 DEF Before, TxnIds
  <2>2. first \in DOMAIN txns'
    BY <1>1 DEF AbandonIfChanged, Rollback, RowsInFile
  <2> QED BY <1>1, <1>2, <1>3, <1>4, <2>1, <2>2 DEF Reversing, IsAt
<1>7. OpenInv(past)'
  BY <1>1, <1>2 DEF OpenInv, Sound
<1>8. FileInv(past)' /\ PushInv(past)' /\ IsStack(reversed', curr')
  BY <1>1, <1>3 DEF RecordInv, FileInv, PushInv, DiskRecorded
<1>9. FailedHasNoRedo' /\ Resting(past)' /\ Reinstating' /\ Discarding' /\ Deleting'
  BY <1>2, <1>3 DEF FailedHasNoRedo, Resting, Reinstating, Discarding, Deleting
<1> QED BY <1>2, <1>6, <1>7, <1>8, <1>9 DEF RecordInv

(* ReverseTxns walks no further back than the session.                     *)
LEMMA WalkStaysInSession ==
    ASSUME NEW count, NEW first, Before(SessionStart(curr), curr), curr \in TxnIds,
           IsFiniteTable(txns), Contiguous(txns, curr),
           IsLast(first, {i \in IdsBefore(txns, curr) : WalkEnds(i, count)})
    PROVE  first[1] = curr[1]
<1>1. first \in DOMAIN txns /\ first \in TxnIds /\ Before(first, curr)
  BY DEF IsLast, IdsBefore, IsFiniteTable, IsTable
<1>2. SessionStart(curr) \in DOMAIN txns
  BY DEF Contiguous, SessionStart, Before, TxnIds
<1>3. SessionStart(curr) \in TxnIds
  BY DEF SessionStart, TxnIds
<1>4. WalkEnds(SessionStart(curr), count)
  BY <1>3, BeforeIsTotal DEF WalkEnds
<1>5. ~Before(first, SessionStart(curr))
  BY <1>2, <1>4 DEF IsLast, IdsBefore
<1> QED BY <1>1, <1>5 DEF SessionStart, Before, TxnIds

(* Undo begins.                                                            *)
LEMMA StartOfUndoKeepsRecordInv ==
    ASSUME NEW past, TypeInv, TypeInv', AbandonsFailure, RowsInFile, RecordInv(past),
           \/ \E count \in 1..MaxTxns : ReverseTxns(count)
           \/ \E pos \in Positions :
                 /\ past = "Whole" \/ pos \in DOMAIN txns
                 /\ ReverseTo(pos) \/ CancelTo(pos)
           \/ CancelNothing
    PROVE  RecordInv(past)'
<1>1. curr \in TxnIds /\ IsFiniteTable(txns) /\ IsFiniteTable(disk.txns)
  BY DEF TypeInv, SessionOK, FileOK, DiskOK
<1>2. ASSUME NEW pos \in Positions, past = "Whole" \/ pos \in DOMAIN txns, CanReverseTo(pos),
             NEW cancel, ReverseRange(pos, cancel)
      PROVE  RecordInv(past)'
  <2>1. Before(pos, curr) /\ Before(SessionStart(curr), curr)
    BY <1>2 DEF CanReverseTo
  <2>2. curr[2] # 0
    BY <1>1, <2>1 DEF Before, SessionStart, TxnIds
  <2>3. PICK counter \in 0..curr[2] : pos = <<curr[1], counter>>
    BY <1>2 DEF Positions
  <2>4. past = "Whole" => pos \in DOMAIN txns
    <3>1. counter # curr[2]
      BY <1>1, <2>1, <2>3 DEF Before, TxnIds
    <3>2. past = "Whole" => Contiguous(txns, curr)
      BY <1>2, ReadyIsAtRest DEF ReverseRange, Rest, Sound, Complete
    <3> QED BY <2>3, <3>1, <3>2 DEF Contiguous
  <2>5. pos \in DOMAIN txns /\ pos[1] = curr[1]
    BY <1>2, <2>3, <2>4
  <2> QED BY <1>2, <2>1, <2>2, <2>5, ReverseRangeKeepsRecordInv
<1>3. ASSUME NEW count \in 1..MaxTxns, ReverseTxns(count) PROVE RecordInv(past)'
  <2>1. PICK first \in IdsBefore(txns, curr) :
            /\ IsLast(first, {i \in IdsBefore(txns, curr) : WalkEnds(i, count)})
            /\ ReverseRange(first, FALSE)
    BY <1>3 DEF ReverseTxns
  <2>2. Before(SessionStart(curr), curr) /\ Before(first, curr) /\ first \in TxnIds
    BY <1>1, <1>3 DEF ReverseTxns, IdsBefore, IsFiniteTable, IsTable
  <2>3. curr[2] # 0
    BY <1>1, <2>2 DEF Before, SessionStart, TxnIds
  <2>4. past = "Whole" => Contiguous(txns, curr)
    BY <2>1, ReadyIsAtRest DEF ReverseRange, Rest, Sound, Complete
  <2>5. past = "Whole" => first[1] = curr[1]
    BY <1>1, <2>1, <2>2, <2>4, WalkStaysInSession
  <2>6. first \in DOMAIN txns
    BY <2>1 DEF IdsBefore
  <2> QED BY <2>1, <2>2, <2>3, <2>5, <2>6, ReverseRangeKeepsRecordInv
<1>4. CASE CancelNothing
  <2>1. /\ Rest(past) /\ job.op = "None" /\ ~Failed /\ txns' = WithoutReversed(txns)
        /\ reversed' = <<>>
        /\ UNCHANGED <<db, conf, parent, disk, curr, multi, editVars, creating, job, hub>>
    BY <1>4, ReadyIsAtRest DEF CancelNothing
  <2>2. PushInv(past)'
    BY <2>1 DEF Rest, PushInv
  <2>3. Packaged(txns', creating', hub) /\ Packaged(disk.txns, creating', hub)
    BY <1>1, <2>1, WithoutReversedIsPackaged DEF Rest
  <2>4. Rest(past)' /\ ~Failed'
    BY <2>1, <2>2, <2>3, DeleteReversedRests DEF Failed
  <2> QED BY <2>1, <2>4, RestIsInv
<1> QED BY <1>2, <1>3, <1>4 DEF ReverseTo, CancelTo

(* Reversing the Txn before a cut moves the cut to it.                     *)
LEMMA ReversingMovesCut ==
    ASSUME NEW table, IsFiniteTable(table), NEW at \in TxnIds, CutAt(table, at),
           NEW id, IsPrevious(table, at, id)
    PROVE  CutAt(SetDeleted(table, id, TRUE), id)
<1> DEFINE new == SetDeleted(table, id, TRUE)
<1>1. /\ id \in DOMAIN table /\ Before(id, at) /\ DOMAIN table \subseteq TxnIds
      /\ \A i \in DOMAIN table : Before(i, at) => ~Before(id, i)
  BY DEF IsPrevious, IsLast, IdsBefore, IsFiniteTable, IsTable
<1>2. DOMAIN new = DOMAIN table /\ \A i \in DOMAIN table : i # id => new[i] = table[i]
  BY <1>1 DEF SetDeleted
<1>3. new[id].deleted
  BY <1>1 DEF SetDeleted, IsFiniteTable, IsTable, Rows
<1> HIDE DEF new
<1>4. ASSUME NEW i \in DOMAIN new PROVE new[i].deleted <=> ~Before(i, id)
  <2>1. CASE i = id
    BY <1>1, <1>3, <2>1, BeforeIsTotal
  <2>2. CASE i # id
    <3>1. Before(i, id) <=> Before(i, at)
      BY <1>1, <1>2, <2>2, BeforeIsTotal, BeforeIsTransitive
    <3>2. table[i].deleted <=> ~Before(i, at)
      BY <1>2 DEF CutAt
    <3> QED BY <1>2, <2>2, <3>1, <3>2
  <2> QED BY <2>1, <2>2
<1> QED BY <1>4 DEF CutAt, new

(* Marking a Txn that is not being pushed disturbs no push.                *)
LEMMA MarkingKeepsPackaged ==
    ASSUME NEW table, IsFiniteTable(table), NEW id \in DOMAIN table, NEW flag \in BOOLEAN,
           NEW push, NEW versions, Packaged(table, push, versions),
           push.active => ~Before(id, push.end)
    PROVE  Packaged(SetDeleted(table, id, flag), push, versions)
<1>1. /\ IsFiniteTable(SetDeleted(table, id, flag))
      /\ DOMAIN SetDeleted(table, id, flag) = DOMAIN table
      /\ \A i \in DOMAIN table : i # id => SetDeleted(table, id, flag)[i] = table[i]
  BY SetDeletedIsTable
<1>2. push.active => \A i \in DOMAIN table : Before(i, push.end) => ~table[i].deleted
  BY DEF Packaged
<1>3. push.active => LiveKeptBefore(table, SetDeleted(table, id, flag), push.end)
  BY <1>1, <1>2 DEF LiveKeptBefore
<1> QED BY <1>1, <1>3, PackagedIsKept

(* Marking a Txn keeps the others where undo and redo look for them.       *)
LEMMA MarkingKeepsOpenInv ==
    ASSUME NEW past, TypeInv, RecordInv(past), ~Failed,
           NEW id \in DOMAIN txns, NEW flag \in BOOLEAN,
           creating.active => ~Before(id, creating.end), txns' = SetDeleted(txns, id, flag),
           UNCHANGED <<parent, disk, curr, reversed, creating, hub, lastSave>>
    PROVE  /\ OpenInv(past)' /\ ~Failed'
           /\ \A at : StateAt(txns', hub[parent], at) = StateAt(txns, hub[parent], at)
<1>1. IsFiniteTable(txns)
  BY DEF TypeInv, FileOK
<1>2. /\ Chained(txns, hub[parent]) /\ (past = "Whole" => parent = disk.parent)
      /\ Packaged(txns, creating, hub) /\ Complete(txns, curr, reversed, past)
  BY DEF RecordInv, OpenInv
<1>3. /\ Chained(txns', hub[parent])
      /\ \A at : StateAt(txns', hub[parent], at) = StateAt(txns, hub[parent], at)
  BY <1>1, <1>2, MarkingKeepsChain
<1>5. Packaged(txns', creating, hub)
  BY <1>1, <1>2, MarkingKeepsPackaged
<1>6. DOMAIN txns' = DOMAIN txns
  BY <1>1 DEF SetDeleted
<1>7. Complete(txns', curr, reversed, past)
  BY <1>2, <1>6 DEF Complete, Contiguous
<1>8. ~Failed'
  BY DEF Failed
<1> QED BY <1>2, <1>3, <1>5, <1>7, <1>8 DEF OpenInv

(* The Txns of the session are not being pushed.                           *)
LEMMA SessionIsPastPush ==
    ASSUME NEW past, PushInv(past), curr \in TxnIds, NEW id \in TxnIds, id[1] >= curr[1],
           creating.active
    PROVE  ~Before(id, creating.end) /\ ~Before(SessionStart(id), creating.end)
<1>1. creating.end \in TxnIds /\ ~Before(SessionStart(curr), creating.end)
  BY DEF PushInv
<1> QED BY <1>1, SessionStartIsFirst

(* ReverseTxn undoes one Txn.                                              *)
LEMMA ReverseStepKeepsRecordInv ==
    ASSUME NEW past, TypeInv, TypeInv', IdInv, RecordInv(past), ReverseStep
    PROVE  RecordInv(past)'
<1>1. PICK id \in IdsBefore(txns, job.at) :
          /\ IsPrevious(txns, job.at, id) /\ InRange(id)
          /\ db' = ApplySkipping(Invert(txns[id].change), db)
          /\ txns' = SetDeleted(txns, id, TRUE)
          /\ job' = [job EXCEPT !.at = id]
  BY DEF ReverseStep
<1>2. job.op = "Reverse" /\ UNCHANGED <<parent, disk, txnVars, editVars, creating, hub>>
  BY DEF ReverseStep
<1>3. /\ job.at \in TxnIds /\ CutAt(txns, job.at) /\ db = StateAt(txns, hub[parent], job.at)
      /\ DOMAIN tracked = {} /\ ~Failed
      /\ job.first \in DOMAIN txns /\ (past = "Whole" => job.first[1] = curr[1])
  BY <1>2 DEF IdInv, ReverseFreed, RecordInv, Reversing, IsAt
<1>4. /\ IsFiniteTable(txns) /\ id \in DOMAIN txns /\ id \in TxnIds
      /\ job.first \in TxnIds /\ curr \in TxnIds
  BY <1>2 DEF TypeInv, FileOK, SessionOK, JobOK, IdsBefore, IsFiniteTable, IsTable
<1>5. hub[parent] \in States /\ Chained(txns, hub[parent])
  BY ElementOfSeq DEF RecordInv, ParentsOK, OpenInv, TypeInv, HubOK
<1>6. job'.op = "Reverse" /\ job'.at = id /\ job'.first = job.first
  BY <1>1, <1>2 DEF TypeInv, JobOK
<1>7. /\ ~Before(id, job.first)
      /\ creating.active => ~Before(id, creating.end)
  <2>1. ~Before(id, job.first) /\ (past = "Whole" => id[1] >= curr[1])
    BY <1>1, <1>3, <1>4 DEF InRange, Before, TxnIds
  <2>2. PushInv(past) /\ (creating.active => past = "Whole")
    BY DEF RecordInv, PushInv
  <2> QED BY <1>4, <2>1, <2>2, SessionIsPastPush
<1>8. /\ OpenInv(past)' /\ ~Failed'
      /\ \A at : StateAt(txns', hub[parent], at) = StateAt(txns, hub[parent], at)
  BY <1>1, <1>2, <1>3, <1>4, <1>7, MarkingKeepsOpenInv
<1>9. CutAt(txns', id)
  BY <1>1, <1>3, <1>4, ReversingMovesCut
<1>10. db' = StateAt(txns', hub[parent], id)
  BY <1>1, <1>3, <1>4, <1>5, <1>8, UndoingTxnIsExact, ZenonT(30)
<1>11. Reversing(past)'
  <2>1. DOMAIN txns' = DOMAIN txns
    BY <1>1 DEF SetDeleted
  <2> QED BY <1>2, <1>3, <1>6, <1>7, <1>8, <1>9, <1>10, <2>1 DEF Reversing, IsAt
<1>12. ParentsOK' /\ FileInv(past)' /\ PushInv(past)' /\ IsStack(reversed', curr')
  BY <1>2, <1>6 DEF RecordInv, ParentsOK, FileInv, PushInv, DiskRecorded
<1>13. FailedHasNoRedo' /\ Resting(past)' /\ Reinstating' /\ Discarding' /\ Deleting'
  BY <1>6, <1>8 DEF FailedHasNoRedo, Resting, Reinstating, Discarding, Deleting
<1> QED BY <1>8, <1>11, <1>12, <1>13 DEF RecordInv

(* Undo stops with no Txn left of its range.                               *)
LEMMA NothingLeftInRange ==
    ASSUME NEW table, IsFiniteTable(table), NEW at \in TxnIds, NEW first \in TxnIds,
           ~Before(at, first),
           ~\E id \in IdsBefore(table, at) : IsPrevious(table, at, id) /\ ~Before(id, first)
    PROVE  \A i \in DOMAIN table : Before(i, at) <=> Before(i, first)
<1>1. DOMAIN table \subseteq TxnIds
  BY DEF IsFiniteTable, IsTable
<1>2. ASSUME NEW i \in DOMAIN table, Before(i, first) PROVE Before(i, at)
  BY <1>1, <1>2 DEF Before, TxnIds
<1>3. ASSUME NEW i \in DOMAIN table, Before(i, at), ~Before(i, first) PROVE FALSE
  <2>1. i \in IdsBefore(table, at)
    BY <1>3 DEF IdsBefore
  <2>2. PICK id : IsLast(id, IdsBefore(table, at))
    <3>1. IdsBefore(table, at) \in SUBSET DOMAIN table
      BY DEF IdsBefore
    <3> QED BY <2>1, <3>1, PartIsBounded, LastExists
  <2>3. id \in IdsBefore(table, at) /\ ~Before(id, i) /\ id \in TxnIds
    BY <1>1, <2>1, <2>2 DEF IsLast, IdsBefore
  <2>4. ~Before(id, first)
    BY <1>1, <1>3, <2>3 DEF Before, TxnIds
  <2> QED BY <2>2, <2>3, <2>4 DEF IsPrevious
<1> QED BY <1>2, <1>3

(* The range that has been reversed goes on top of the stack.              *)
LEMMA PushedRangeIsStack ==
    ASSUME NEW ranges \in Seq(Ranges), NEW last, IsStack(ranges, last),
           NEW range \in Ranges, range.last = last
    PROVE  IsStack(Append(ranges, range), range.first)
<1> DEFINE new == Append(ranges, range)
<1>1. /\ Len(ranges) \in Nat /\ Len(new) = Len(ranges) + 1
      /\ new[Len(ranges) + 1] = range /\ \A n \in 1..Len(ranges) : new[n] = ranges[n]
  BY LenProperties, AppendProperties
<1>2. Len(ranges) # 0 => ranges # <<>>
  BY EmptySeq
<1> HIDE DEF new
<1>3. ASSUME NEW n \in 1..(Len(new) - 1) PROVE new[n].first = new[n + 1].last
  <2>1. CASE n = Len(ranges)
    BY <1>1, <1>2, <1>3, <2>1 DEF IsStack
  <2>2. CASE n # Len(ranges)
    <3>1. n \in 1..(Len(ranges) - 1) /\ n \in 1..Len(ranges) /\ n + 1 \in 1..Len(ranges)
      BY <1>1, <1>3, <2>2
    <3> QED BY <1>1, <3>1 DEF IsStack
  <2> QED BY <2>1, <2>2
<1> QED BY <1>1, <1>3 DEF IsStack, new

(* The session has a Txn where an undo of it ends.                         *)
LEMMA EarlierIsInSession ==
    ASSUME NEW a \in TxnIds, NEW b \in TxnIds, a[1] = b[1], Before(a, b),
           NEW table, Contiguous(table, b)
    PROVE  Contiguous(table, a) /\ a \in DOMAIN table
<1>1. a[2] < b[2] /\ a = <<b[1], a[2]>>
  BY DEF Before, TxnIds
<1> QED BY <1>1 DEF Contiguous, TxnIds

(* ReverseTxnRange saves when it has gone through its Txns.                *)
LEMMA ReverseDoneKeepsRecordInv ==
    ASSUME NEW past, TypeInv, TypeInv', IdInv, RecordInv(past), ReverseDone
    PROVE  RecordInv(past)'
<1> DEFINE base == hub[parent]
           first == job.first
           range == [first |-> job.first, last |-> job.last]
<1>1. /\ job.op = "Reverse" /\ job' = Idle /\ curr' = first
      /\ ~\E id \in IdsBefore(txns, job.at) : IsPrevious(txns, job.at, id) /\ InRange(id)
      /\ txns' = IF job.cancel THEN WithoutReversed(txns) ELSE txns
      /\ reversed' = IF job.cancel THEN <<>> ELSE Append(reversed, range)
      /\ UNCHANGED <<db, parent, editVars, creating, hub>>
  BY DEF ReverseDone
<1>2. disk'.db = db /\ disk'.txns = txns /\ disk'.parent = parent
  BY DEF ReverseDone
<1>3. /\ job.at \in TxnIds /\ CutAt(txns, job.at) /\ db = StateAt(txns, base, job.at)
      /\ DOMAIN tracked = {} /\ ~Failed
      /\ first \in DOMAIN txns /\ (past = "Whole" => first[1] = curr[1])
      /\ ~Before(job.at, first) /\ job.last = curr /\ Before(first, curr)
  BY <1>1 DEF IdInv, ReverseFreed, RecordInv, Reversing, IsAt
<1>4. /\ IsFiniteTable(txns) /\ first \in TxnIds /\ curr \in TxnIds
      /\ reversed \in Seq(Ranges)
  BY <1>1 DEF TypeInv, FileOK, SessionOK, JobOK
<1>5. /\ Chained(txns, base) /\ parent \in 1..Len(hub)
      /\ creating.active => past = "Whole" /\ parent = disk.parent
      /\ Packaged(txns, creating, hub) /\ Complete(txns, curr, reversed, past)
      /\ IsStack(reversed, curr) /\ PushInv(past)
  BY <1>3 DEF RecordInv, OpenInv, ParentsOK, PushInv
<1>6. \A i \in DOMAIN txns : Before(i, job.at) <=> Before(i, first)
  BY <1>1, <1>3, <1>4, NothingLeftInRange DEF InRange
<1>7. CutAt(txns, first)
  BY <1>3, <1>6 DEF CutAt
<1>8. db = StateAt(txns, base, first)
  BY <1>3, <1>6, NothingBetween
<1>9. LiveFirst(txns) /\ Replay(WithoutReversed(txns), base) = db
  BY <1>4, <1>7, <1>8, CutIsLiveFirst, ReplayIsStateAtCut
<1>10. past = "Whole" => Contiguous(txns, curr) /\ Contiguous(txns, first)
  <2>1. past = "Whole" => Contiguous(txns, curr)
    BY <1>5 DEF Complete
  <2> QED BY <1>3, <1>4, <2>1, EarlierIsInSession
<1>11. Sound(txns, base, first, <<>>, past)
  BY <1>5, <1>7, <1>9, <1>10 DEF Sound, Complete
<1>12. range \in Ranges /\ range.first = first /\ range.last = curr
  BY <1>3, <1>4 DEF Ranges
<1>13. PushInv(past)'
  <2>1. past = "Whole" => SessionStart(first) = SessionStart(curr)
    BY <1>3 DEF SessionStart
  <2> QED BY <1>1, <1>2, <1>5, <2>1 DEF PushInv, Idle
<1>14. ParentsOK' /\ parent' = disk'.parent /\ job'.op = "None" /\ ~Failed'
  BY <1>1, <1>2, <1>3, <1>5 DEF ParentsOK, Idle, Failed
<1>15. BeforeEdits' = db
  BY <1>1, <1>3, NothingTrackedNext
<1>16. CASE job.cancel
  <2>1. txns' = WithoutReversed(txns) /\ reversed' = <<>>
    BY <1>1, <1>16
  <2>2. Sound(txns', base, first, <<>>, past)
    BY <1>4, <1>11, <2>1, WithoutReversedIsSound
  <2>3. Packaged(txns', creating, hub)
    BY <1>4, <1>5, <2>1, WithoutReversedIsPackaged
  <2>4. Replay(WithoutReversed(txns'), base) = db
    BY <1>4, <1>9, <2>1, DeletingReversedReplays
  <2>5. BeforeEditsRecorded' /\ DiskRecorded' /\ IsStack(reversed', curr')
    BY <1>1, <1>2, <1>9, <1>15, <2>1, <2>4, EmptyIsStack
    DEF BeforeEditsRecorded, DiskRecorded
  <2>6. Rest(past)'
    BY <1>1, <1>2, <1>5, <1>11, <1>13, <1>14, <2>1, <2>2, <2>3, <2>5 DEF Rest
  <2> QED BY <1>14, <2>6, RestIsInv
<1>17. CASE ~job.cancel
  <2>1. txns' = txns /\ reversed' = Append(reversed, range)
    BY <1>1, <1>17
  <2>2. IsStack(reversed', curr')
    BY <1>1, <1>4, <1>5, <1>12, <2>1, PushedRangeIsStack
  <2>3. ASSUME NEW n \in 1..Len(reversed')
        PROVE  /\ reversed'[n].first \in DOMAIN txns
               /\ past = "Whole" => Contiguous(txns, reversed'[n].last)
    <3>1. /\ Len(reversed) \in Nat /\ Len(reversed') = Len(reversed) + 1
          /\ reversed'[Len(reversed) + 1] = range
          /\ \A m \in 1..Len(reversed) : reversed'[m] = reversed[m]
      BY <1>4, <1>12, <2>1, LenProperties, AppendProperties
    <3>2. CASE n = Len(reversed) + 1
      BY <1>3, <1>10, <1>12, <3>1, <3>2
    <3>3. CASE n # Len(reversed) + 1
      <4>1. n \in 1..Len(reversed)
        BY <3>1, <3>3
      <4> QED BY <1>5, <3>1, <4>1 DEF Complete
    <3> QED BY <3>2, <3>3
  <2>4. Sound(txns, base, first, reversed', past)
    BY <1>5, <1>7, <1>9, <1>10, <2>3 DEF Sound, Complete
  <2>5. BeforeEditsRecorded' /\ DiskRecorded'
    BY <1>1, <1>2, <1>9, <1>15, <2>1 DEF BeforeEditsRecorded, DiskRecorded
  <2>6. Rest(past)'
    BY <1>1, <1>2, <1>5, <1>13, <1>14, <2>1, <2>2, <2>4, <2>5 DEF Rest
  <2> QED BY <1>14, <2>6, RestIsInv
<1> QED BY <1>16, <1>17

(* A Txn that cannot be undone: everything falls back on the file.         *)
LEMMA ReverseFailsKeepsRecordInv ==
    ASSUME NEW past, TypeInv, TypeInv', RecordInv(past), ReverseFails
    PROVE  RecordInv(past)'
<1>1. /\ job.op = "Reverse" /\ job' = Idle /\ db' = disk.db /\ parent' = disk.parent
      /\ txns' = IF job.cancel THEN WithoutReversed(disk.txns) ELSE disk.txns
      /\ reversed' = IF job.cancel THEN <<>> ELSE reversed
      /\ UNCHANGED <<disk, curr, multi, editVars, creating, hub>>
  BY DEF ReverseFails
<1>2. DOMAIN tracked = {} /\ ~Failed
  BY <1>1 DEF RecordInv, Reversing, IsAt
<1>3. IsFiniteTable(disk.txns) /\ curr \in TxnIds
  BY DEF TypeInv, DiskOK, SessionOK
<1>4. /\ Sound(disk.txns, hub[disk.parent], curr, reversed, past) /\ DiskRecorded
      /\ Packaged(disk.txns, creating, hub) /\ IsStack(reversed, curr)
      /\ ParentsOK /\ PushInv(past)
  BY <1>1 DEF RecordInv, FileInv
<1>5. PushInv(past)' /\ ParentsOK' /\ job'.op = "None" /\ ~Failed' /\ DiskRecorded'
  BY <1>1, <1>2, <1>4 DEF PushInv, ParentsOK, Idle, Failed, DiskRecorded
<1>6. BeforeEdits' = db'
  BY <1>1, <1>2, NothingTrackedNext
<1>7. CASE job.cancel
  <2>1. txns' = WithoutReversed(disk.txns) /\ reversed' = <<>>
    BY <1>1, <1>7
  <2>2. /\ Sound(txns', hub[disk.parent], curr, <<>>, past)
        /\ Sound(disk.txns, hub[disk.parent], curr, <<>>, past)
        /\ Packaged(txns', creating, hub)
    BY <1>3, <1>4, <2>1, WithoutReversedIsSound, DroppingRedoIsSound,
       WithoutReversedIsPackaged
  <2>3. Replay(WithoutReversed(txns'), hub[disk.parent]) = disk.db
    BY <1>3, <1>4, <2>1, DeletingReversedReplays DEF DiskRecorded
  <2>4. BeforeEditsRecorded'
    BY <1>1, <1>6, <2>3 DEF BeforeEditsRecorded
  <2>5. Rest(past)'
    BY <1>1, <1>4, <1>5, <2>1, <2>2, <2>4, EmptyIsStack DEF Rest
  <2> QED BY <1>5, <2>5, RestIsInv
<1>8. CASE ~job.cancel
  <2>1. txns' = disk.txns /\ reversed' = reversed
    BY <1>1, <1>8
  <2>2. BeforeEditsRecorded'
    BY <1>1, <1>4, <1>6, <2>1 DEF BeforeEditsRecorded, DiskRecorded
  <2>3. Rest(past)'
    BY <1>1, <1>4, <1>5, <2>1, <2>2 DEF Rest
  <2> QED BY <1>5, <2>3, RestIsInv
<1> QED BY <1>7, <1>8

-------------------------------------------------------------------------------
(***************************************************************************)
(* Redo.                                                                   *)
(***************************************************************************)

(* ReinstateTxn begins at curr, with the range on top of the stack.        *)
LEMMA ReinstateTxnKeepsRecordInv ==
    ASSUME NEW past, TypeInv, TypeInv', AbandonsFailure, RecordInv(past), ReinstateTxn
    PROVE  RecordInv(past)'
<1> DEFINE range == reversed[Len(reversed)]
<1>1. /\ Rest(past) /\ job.op = "None" /\ ~Failed /\ AbandonIfChanged /\ reversed # <<>>
      /\ UNCHANGED <<disk, curr, reversed, creating, hub>>
      /\ job' = [op |-> "Reinstate", at |-> range.first, first |-> range.first,
                 last |-> range.last, cancel |-> FALSE]
  BY ReadyIsAtRest DEF ReinstateTxn
<1>2. /\ ParentsOK' /\ (past = "Whole" => parent' = disk'.parent)
      /\ Sound(txns', hub[parent'], curr, reversed, past)
      /\ Packaged(txns', creating, hub)
      /\ DOMAIN tracked' = {} /\ ~Failed'
      /\ db' = Replay(WithoutReversed(txns'), hub[parent'])
  BY <1>1, AbandonRests
<1>3. job'.op = "Reinstate" /\ job'.at = curr
  BY <1>1 DEF Rest, IsStack
<1>4. CutAt(txns', curr) /\ db' = StateAt(txns', hub[parent'], curr)
  BY <1>1, <1>2, SoundIsCut DEF TypeInv, FileOK
<1>5. curr # NoTxn
  BY DEF TypeInv, SessionOK, TxnIds, NoTxn
<1>6. Reinstating'
  BY <1>1, <1>2, <1>3, <1>4, <1>5 DEF Reinstating, ReinstatedTo, IsAt
<1>7. OpenInv(past)'
  BY <1>1, <1>2 DEF OpenInv, Sound
<1>8. FileInv(past)' /\ PushInv(past)' /\ IsStack(reversed', curr')
  BY <1>1, <1>3 DEF RecordInv, FileInv, PushInv, DiskRecorded
<1>9. FailedHasNoRedo' /\ Resting(past)' /\ Reversing(past)' /\ Discarding' /\ Deleting'
  BY <1>2, <1>3 DEF FailedHasNoRedo, Resting, Reversing, Discarding, Deleting
<1> QED BY <1>2, <1>6, <1>7, <1>8, <1>9 DEF RecordInv

(* Reinstating the Txn at a cut moves the cut past it.                     *)
LEMMA ReinstatingMovesCut ==
    ASSUME NEW table, IsFiniteTable(table), NEW id \in DOMAIN table, CutAt(table, id),
           NEW next \in TxnIds, IsPrevious(table, next, id)
    PROVE  CutAt(SetDeleted(table, id, FALSE), next)
<1> DEFINE new == SetDeleted(table, id, FALSE)
<1>1. /\ Before(id, next) /\ DOMAIN table \subseteq TxnIds
      /\ \A i \in DOMAIN table : Before(i, next) => ~Before(id, i)
  BY DEF IsPrevious, IsLast, IdsBefore, IsFiniteTable, IsTable
<1>2. DOMAIN new = DOMAIN table /\ \A i \in DOMAIN table : i # id => new[i] = table[i]
  BY DEF SetDeleted
<1>3. ~new[id].deleted
  BY DEF SetDeleted, IsFiniteTable, IsTable, Rows
<1> HIDE DEF new
<1>4. ASSUME NEW i \in DOMAIN new PROVE new[i].deleted <=> ~Before(i, next)
  <2>1. CASE i = id
    BY <1>1, <1>3, <2>1
  <2>2. CASE i # id
    <3>1. Before(i, id) <=> Before(i, next)
      BY <1>1, <1>2, <2>2, BeforeIsTotal, BeforeIsTransitive
    <3>2. table[i].deleted <=> ~Before(i, id)
      BY <1>2 DEF CutAt
    <3> QED BY <1>2, <2>2, <3>1, <3>2
  <2> QED BY <2>1, <2>2
<1> QED BY <1>4 DEF CutAt, new

(* Where the redo goes next: the next row, or the end of the range.        *)
LEMMA NextIsReinstated ==
    ASSUME TypeInv, TypeInv', ReinstateStep
    PROVE  /\ ReinstatedTo' \in TxnIds /\ IsPrevious(txns, ReinstatedTo', job.at)
           /\ job'.op = "Reinstate" /\ job.at \in TxnIds
<1>1. /\ job.op = "Reinstate" /\ job.at \in DOMAIN txns
      /\ \E id \in IdsBefore(txns, job.last) : ~Before(id, job.at)
  BY DEF ReinstateStep, MoreToReinstate
<1>2. DOMAIN txns \subseteq TxnIds /\ job.last \in TxnIds
  BY <1>1 DEF TypeInv, FileOK, JobOK, IsFiniteTable, IsTable
<1>3. CASE \E id \in IdsAfter(txns, job.at) :
              IsNext(txns, job.at, id) /\ job' = [job EXCEPT !.at = id]
  <2>1. PICK id \in IdsAfter(txns, job.at) :
            IsNext(txns, job.at, id) /\ job' = [job EXCEPT !.at = id]
    BY <1>3
  <2>2. id \in TxnIds /\ Before(job.at, id)
    BY <1>2, <2>1 DEF IdsAfter
  <2>3. id # NoTxn
    BY <2>2 DEF TxnIds, NoTxn
  <2>4. job'.op = "Reinstate" /\ job'.at = id
    BY <1>1, <2>1 DEF TypeInv, JobOK
  <2>5. ReinstatedTo' = id
    BY <2>3, <2>4 DEF ReinstatedTo
  <2>6. IsPrevious(txns, id, job.at)
    <3>1. ASSUME NEW other \in DOMAIN txns, Before(other, id) PROVE ~Before(job.at, other)
      BY <2>1, <3>1 DEF IsNext, IsFirst, IdsAfter
    <3> QED BY <1>1, <2>2, <3>1 DEF IsPrevious, IsLast, IdsBefore
  <2> QED BY <1>1, <1>2, <2>2, <2>4, <2>5, <2>6
<1>4. CASE IdsAfter(txns, job.at) = {} /\ job' = [job EXCEPT !.at = NoTxn]
  <2>1. job'.op = "Reinstate" /\ job'.at = NoTxn /\ job'.last = job.last
    BY <1>1, <1>4 DEF TypeInv, JobOK
  <2>2. ReinstatedTo' = job.last
    BY <2>1 DEF ReinstatedTo
  <2>3. \A other \in DOMAIN txns : ~Before(job.at, other)
    BY <1>4 DEF IdsAfter
  <2>4. PICK id \in DOMAIN txns : Before(id, job.last) /\ ~Before(id, job.at)
    BY <1>1 DEF IdsBefore
  <2>5. Before(job.at, job.last)
    BY <1>1, <1>2, <2>3, <2>4, BeforeIsTotal
  <2>6. IsPrevious(txns, job.last, job.at)
    BY <1>1, <2>3, <2>5 DEF IsPrevious, IsLast, IdsBefore
  <2> QED BY <1>1, <1>2, <2>1, <2>2, <2>6
<1> QED BY <1>3, <1>4 DEF ReinstateStep

(* ReinstateTxn redoes one Txn.                                            *)
LEMMA ReinstateStepKeepsRecordInv ==
    ASSUME NEW past, TypeInv, TypeInv', IdInv, RecordInv(past), ReinstateStep
    PROVE  RecordInv(past)'
<1> DEFINE id == job.at
           next == ReinstatedTo'
<1>1. /\ job.op = "Reinstate" /\ id \in DOMAIN txns
      /\ db' = ApplySkipping(txns[id].change, db)
      /\ txns' = SetDeleted(txns, id, FALSE)
      /\ UNCHANGED <<parent, disk, txnVars, editVars, creating, hub>>
  BY DEF ReinstateStep
<1>2. next \in TxnIds /\ IsPrevious(txns, next, id) /\ job'.op = "Reinstate" /\ id \in TxnIds
  BY NextIsReinstated
<1>3. ReinstatedTo = id
  BY <1>2 DEF ReinstatedTo, TxnIds, NoTxn
<1>4. /\ CutAt(txns, id) /\ db = StateAt(txns, hub[parent], id)
      /\ DOMAIN tracked = {} /\ ~Failed
  BY <1>1, <1>3 DEF RecordInv, Reinstating, IsAt
<1>5. IsFiniteTable(txns)
  BY DEF TypeInv, FileOK
<1>6. hub[parent] \in States /\ Chained(txns, hub[parent])
  BY ElementOfSeq DEF RecordInv, ParentsOK, OpenInv, TypeInv, HubOK
<1>7. creating.active => ~Before(id, creating.end)
  <2>1. txns[id].deleted
    BY <1>1, <1>2, <1>4, BeforeIsTotal DEF CutAt
  <2> QED BY <1>1, <1>4, <2>1 DEF RecordInv, OpenInv, Packaged
<1>8. /\ OpenInv(past)' /\ ~Failed'
      /\ \A at : StateAt(txns', hub[parent], at) = StateAt(txns, hub[parent], at)
  BY <1>1, <1>4, <1>7, MarkingKeepsOpenInv
<1>9. CutAt(txns', next)
  BY <1>1, <1>2, <1>4, <1>5, ReinstatingMovesCut
<1>10. db' = StateAt(txns', hub[parent], next)
  BY <1>1, <1>2, <1>4, <1>5, <1>6, <1>8, RedoingTxnIsExact
<1>11. Reinstating'
  BY <1>1, <1>4, <1>8, <1>9, <1>10 DEF Reinstating, IsAt
<1>12. ParentsOK' /\ FileInv(past)' /\ PushInv(past)' /\ IsStack(reversed', curr')
  BY <1>1, <1>2 DEF RecordInv, ParentsOK, FileInv, PushInv, DiskRecorded
<1>13. FailedHasNoRedo' /\ Resting(past)' /\ Reversing(past)' /\ Discarding' /\ Deleting'
  BY <1>2, <1>8 DEF FailedHasNoRedo, Resting, Reversing, Discarding, Deleting
<1> QED BY <1>8, <1>11, <1>12, <1>13 DEF RecordInv

(* Redo stops where the range ends, or where its Txns do.                  *)
LEMMA ReinstatedIsLast ==
    ASSUME NEW past, TypeInv, IdInv, RecordInv(past), job.op = "Reinstate", ~MoreToReinstate
    PROVE  /\ job.last \in TxnIds /\ CutAt(txns, job.last)
           /\ db = StateAt(txns, hub[parent], job.last)
<1>1. IsAt(ReinstatedTo) /\ Freed(txns, job.last) /\ job.last \in TxnIds
  BY DEF RecordInv, Reinstating, IdInv, ReinstateFreed, TypeInv, JobOK
<1>2. CASE job.at = NoTxn
  BY <1>1, <1>2 DEF IsAt, ReinstatedTo
<1>3. CASE job.at # NoTxn
  <2>1. CutAt(txns, job.at) /\ db = StateAt(txns, hub[parent], job.at)
    BY <1>1, <1>3 DEF IsAt, ReinstatedTo
  <2>2. \A i \in DOMAIN txns : Before(i, job.at) <=> Before(i, job.last)
    <3>1. ASSUME NEW i \in DOMAIN txns, Before(i, job.last) PROVE Before(i, job.at)
      BY <1>3, <3>1 DEF MoreToReinstate, IdsBefore
    <3>2. ASSUME NEW i \in DOMAIN txns, Before(i, job.at) PROVE Before(i, job.last)
      BY <1>1, <2>1, <3>2 DEF CutAt, Freed
    <3> QED BY <3>1, <3>2
  <2>3. CutAt(txns, job.last)
    BY <2>1, <2>2 DEF CutAt
  <2>4. db = StateAt(txns, hub[parent], job.last)
    BY <2>1, <2>2, NothingBetween
  <2> QED BY <1>1, <2>3, <2>4
<1> QED BY <1>2, <1>3

(* The range that has been reinstated leaves the stack.                    *)
LEMMA PoppedIsStack ==
    ASSUME NEW ranges \in Seq(Ranges), ranges # <<>>, NEW id, IsStack(ranges, id)
    PROVE  LET rest == SubSeq(ranges, 1, Len(ranges) - 1)
           IN /\ IsStack(rest, ranges[Len(ranges)].last)
              /\ Len(rest) = Len(ranges) - 1 /\ Len(ranges) \in 1..Len(ranges)
              /\ \A n \in 1..Len(rest) : n \in 1..Len(ranges) /\ rest[n] = ranges[n]
<1> DEFINE rest == SubSeq(ranges, 1, Len(ranges) - 1)
<1>1. Len(ranges) \in Nat /\ Len(ranges) # 0
  BY LenProperties, EmptySeq
<1>2. /\ Len(rest) = Len(ranges) - 1
      /\ \A n \in 1..(Len(ranges) - 1) : rest[n] = ranges[n]
  <2>1. \A n \in 1..(Len(ranges) - 1) : ranges[n] \in Ranges
    BY <1>1, ElementOfSeq
  <2>2. \A n \in 1..((Len(ranges) - 1) - 1 + 1) : rest[n] = ranges[1 + n - 1]
    BY <1>1, <2>1, SubSeqProperties
  <2>3. ASSUME NEW n \in 1..(Len(ranges) - 1) PROVE rest[n] = ranges[n]
    <3>1. n \in 1..((Len(ranges) - 1) - 1 + 1) /\ 1 + n - 1 = n
      BY <1>1, <2>3
    <3> HIDE DEF rest
    <3> QED BY <2>2, <3>1
  <2>4. Len(rest) = Len(ranges) - 1
    <3>1. Len(rest) = IF 1 <= Len(ranges) - 1 THEN (Len(ranges) - 1) - 1 + 1 ELSE 0
      BY <1>1, <2>1, SubSeqProperties
    <3> DEFINE length == Len(ranges)
    <3>2. /\ length \in Nat /\ length # 0
          /\ Len(rest) = IF 1 <= length - 1 THEN (length - 1) - 1 + 1 ELSE 0
      BY <1>1, <3>1
    <3> HIDE DEF length, rest
    <3>3. Len(rest) = length - 1
      BY <3>2
    <3> QED BY <3>3 DEF length
  <2> QED BY <2>3, <2>4
<1>3. rest # <<>> => Len(rest) # 0
  <2>1. rest \in Seq(Ranges)
    BY <1>1, PrefixIsSeq
  <2> QED BY <2>1, EmptySeq
<1> HIDE DEF rest
<1>4. ASSUME Len(rest) # 0 PROVE rest[Len(rest)].first = ranges[Len(ranges)].last
  <2>1. Len(rest) \in 1..(Len(ranges) - 1) /\ Len(rest) + 1 = Len(ranges)
    BY <1>1, <1>2, <1>4
  <2> QED BY <1>2, <2>1 DEF IsStack
<1>5. ASSUME NEW n \in 1..(Len(rest) - 1) PROVE rest[n].first = rest[n + 1].last
  <2>1. n \in 1..(Len(ranges) - 1) /\ n + 1 \in 1..(Len(ranges) - 1)
    BY <1>1, <1>2, <1>5
  <2> QED BY <1>2, <2>1 DEF IsStack
<1>6. Len(ranges) \in 1..Len(ranges)
  BY <1>1
<1>7. \A n \in 1..Len(rest) : n \in 1..Len(ranges) /\ rest[n] = ranges[n]
  BY <1>1, <1>2
<1> QED BY <1>2, <1>3, <1>4, <1>5, <1>6, <1>7 DEF IsStack, rest

(* Redo saves when it has gone through its Txns.                           *)
LEMMA ReinstateDoneKeepsRecordInv ==
    ASSUME NEW past, TypeInv, TypeInv', IdInv, RecordInv(past), ReinstateDone
    PROVE  RecordInv(past)'
<1> DEFINE base == hub[parent]
           rest == SubSeq(reversed, 1, Len(reversed) - 1)
<1>1. /\ job.op = "Reinstate" /\ ~MoreToReinstate /\ curr' = job.last
      /\ reversed' = rest /\ job' = Idle /\ Persist
      /\ UNCHANGED <<db, txns, parent, editVars, creating, hub>>
  BY DEF ReinstateDone
<1>2. /\ job.last \in TxnIds /\ CutAt(txns, job.last)
      /\ db = StateAt(txns, base, job.last)
  BY <1>1, ReinstatedIsLast
<1>3. DOMAIN tracked = {} /\ ~Failed
  BY <1>1 DEF RecordInv, Reinstating, IsAt
<1>4. /\ reversed # <<>> /\ job.last = reversed[Len(reversed)].last
      /\ Stacked(reversed, curr)
  BY <1>1 DEF IdInv, ReinstateFreed
<1>5. IsFiniteTable(txns) /\ curr \in TxnIds /\ reversed \in Seq(Ranges)
  BY DEF TypeInv, FileOK, SessionOK
<1>6. /\ Chained(txns, base) /\ parent \in 1..Len(hub)
      /\ creating.active => parent = disk.parent
      /\ Packaged(txns, creating, hub) /\ Complete(txns, curr, reversed, past)
      /\ IsStack(reversed, curr) /\ PushInv(past)
  BY <1>3 DEF RecordInv, OpenInv, ParentsOK, PushInv
<1>7. /\ IsStack(rest, job.last) /\ Len(reversed) \in 1..Len(reversed)
      /\ \A n \in 1..Len(rest) : n \in 1..Len(reversed) /\ rest[n] = reversed[n]
  BY <1>4, <1>5, <1>6, PoppedIsStack
<1> HIDE DEF rest
<1>8. past = "Whole" => Contiguous(txns, job.last)
  BY <1>4, <1>6, <1>7 DEF Complete
<1>9. Complete(txns, job.last, rest, past)
  BY <1>6, <1>7, <1>8 DEF Complete
<1>10. LiveFirst(txns) /\ Replay(WithoutReversed(txns), base) = db
  BY <1>2, <1>5, CutIsLiveFirst, ReplayIsStateAtCut
<1>11. Sound(txns, base, job.last, rest, past)
  BY <1>2, <1>6, <1>9, <1>10 DEF Sound
<1>12. PushInv(past)'
  <2>1. ~Before(job.last, curr)
    BY <1>4, <1>7 DEF Stacked
  <2>2. job.last[1] >= curr[1]
    BY <1>2, <1>5, <2>1 DEF Before, TxnIds
  <2>3. creating.active => ~Before(SessionStart(job.last), creating.end)
    BY <1>2, <1>5, <1>6, <2>2, SessionIsPastPush
  <2> QED BY <1>1, <1>6, <2>3 DEF PushInv, Persist, Idle
<1>13. Rest(past)'
  BY <1>1, <1>3, <1>6, <1>7, <1>10, <1>11, <1>12, CommitRests
<1>14. job'.op = "None" /\ ~Failed'
  BY <1>1, <1>3 DEF Idle, Failed
<1> QED BY <1>13, <1>14, RestIsInv

(* Redo, by all its actions.                                               *)
LEMMA ReinstateKeepsRecordInv ==
    ASSUME NEW past, TypeInv, TypeInv', AbandonsFailure, IdInv, RecordInv(past),
           ReinstateTxn \/ ReinstateStep \/ ReinstateDone \/ ReinstateFails
    PROVE  RecordInv(past)'
<1>1. CASE ReinstateFails
  <2>1. /\ job.op # "DeleteAll" /\ Rollback /\ job'.op = "None"
        /\ UNCHANGED <<disk, curr, reversed, creating, hub>>
    BY <1>1 DEF ReinstateFails, Idle
  <2> QED BY <2>1, RollbackRests, RestIsInv
<1> QED BY <1>1, ReinstateTxnKeepsRecordInv, ReinstateStepKeepsRecordInv,
           ReinstateDoneKeepsRecordInv

-------------------------------------------------------------------------------
(***************************************************************************)
(* Pushing.  A client whose new session would go back before the present   *)
(* one, the mishap SessionGoesBack, may lose the invariant: see run        *)
(* session_goes_back.                                                      *)
(***************************************************************************)
KeepsSession == "SessionGoesBack" \notin Mishaps

(* The changeset that StartCreateChangeset makes of the live Txns.         *)
LEMMA StartedIsPackaged ==
    ASSUME NEW table, IsFiniteTable(table), AllLive(table), DOMAIN table # {},
           NEW end \in TxnIds, AllBefore(table, end), NEW push, push.end = end,
           NEW versions, versions[push.parent] \in States,
           Chained(table, versions[push.parent]), ~push.uploaded,
           push.change = GroupedChange(table, end),
           \E i \in DOMAIN table : ~Before(<<i[1] + 1, 0>>, end)
    PROVE  Packaged(table, push, versions)
<1>1. push.change = Difference(versions[push.parent],
                               StateAt(table, versions[push.parent], end))
  BY GroupedIsDifference
<1>2. \A i \in DOMAIN table : Before(i, end) /\ ~table[i].deleted
  BY DEF AllLive, AllBefore
<1> QED BY <1>1, <1>2 DEF Packaged

(* What the new session starts past, and does not start past more of.      *)
LEMMA NewSessionFollows ==
    ASSUME NEW table, DOMAIN table # {}, NEW id \in NewSessions(table),
           NEW end, ~Before(id, end)
    PROVE  \E i \in DOMAIN table : ~Before(<<i[1] + 1, 0>>, end)
  BY DEF NewSessions, IsNewSession

(* StartCreateChangeset packages the live Txns and begins a session, which *)
(* is whole whatever those before it were.                                 *)
LEMMA StartCreateChangesetKeepsRecordInv ==
    ASSUME NEW past, TypeInv, TypeInv', AbandonsFailure, KeepsSession, IdInv, RecordInv(past),
           StartCreateChangeset
    PROVE  RecordInv("Whole")'
<1> DEFINE base == hub[parent]
           live == WithoutReversed(txns)
<1>1. /\ Rest(past) /\ job.op = "None" /\ ~Failed /\ Settled /\ DOMAIN tracked = {}
      /\ HasPendingTxns(txns) /\ txns' = live
      /\ curr' \in NewSessions(live) /\ ~Before(curr', curr)
      /\ reversed' = <<>> /\ Persist
      /\ UNCHANGED <<db, parent, editVars, job, hub>>
  BY ReadyIsAtRest, ReadyIsSettled
  DEF StartCreateChangeset, MayPush, HasChanges, HasDataChanges, KeepsSession
<1>2. creating' = [active |-> TRUE, end |-> curr, parent |-> parent,
                   change |-> GroupedChange(live, curr), uploaded |-> FALSE]
  BY DEF StartCreateChangeset
<1>3. /\ creating'.active /\ creating'.end = curr /\ creating'.parent = parent
      /\ creating'.change = GroupedChange(live, curr) /\ ~creating'.uploaded
  BY <1>2
<1>4. IsFiniteTable(txns) /\ curr \in TxnIds
  BY DEF TypeInv, FileOK, SessionOK
<1>5. /\ IsFiniteTable(live) /\ AllLive(live) /\ DOMAIN live # {}
      /\ AllBefore(live, curr)
  BY <1>1, <1>4, WithoutReversedRows, WithoutReversedIsBefore DEF Settled, HasPendingTxns
<1>6. Sound(live, base, curr, <<>>, past)
  BY <1>1, <1>4, WithoutReversedIsSound DEF Rest
<1>7. curr' \in TxnIds /\ curr'[2] = 0 /\ SessionStart(curr') = curr'
  BY <1>1, NewSessionIsStart
<1>8. Sound(live, base, curr', <<>>, "Whole")
  BY <1>6, <1>7, NewSessionIsSound DEF Sound
<1>9. BeforeEdits = db
  BY <1>1, NothingTracked
<1>10. db = Replay(WithoutReversed(live), base)
  BY <1>1, <1>4, <1>9, DeletingReversedReplays DEF Rest, BeforeEditsRecorded
<1>11. parent \in 1..Len(hub) /\ base \in States
  BY <1>1, ElementOfSeq DEF Rest, ParentsOK, TypeInv, HubOK
<1>12. Packaged(live, creating', hub)
  <2>1. \E i \in DOMAIN live : ~Before(<<i[1] + 1, 0>>, curr)
    BY <1>1, <1>5, NewSessionFollows
  <2>2. Chained(live, base)
    BY <1>6 DEF Sound
  <2> HIDE DEF live
  <2> QED BY <1>3, <1>4, <1>5, <1>11, <2>1, <2>2, StartedIsPackaged
<1>13. PushInv("Whole")'
  BY <1>1, <1>3, <1>4, <1>7 DEF PushInv, Persist
<1>14. Rest("Whole")'
  BY <1>1, <1>8, <1>10, <1>11, <1>12, <1>13, CommitRests, EmptyIsStack
<1>15. ~Failed'
  BY <1>1 DEF Failed
<1> QED BY <1>1, <1>14, <1>15, RestIsInv

(* No push, no claim.                                                      *)
LEMMA NotCreatingIsPackaged ==
    ASSUME NEW table, NEW versions
    PROVE  Packaged(table, NotCreating, versions)
  BY DEF Packaged, NotCreating

(* What the hub makes of the changeset is the state it leads to.           *)
LEMMA UploadedIsPackaged ==
    ASSUME TypeInv, NEW table, IsFiniteTable(table), Packaged(table, creating, hub), Upload,
           creating.parent \in 1..Len(hub)
    PROVE  Packaged(table, creating', hub')
<1> DEFINE base == hub[creating.parent]
           reached == StateAt(table, base, creating.end)
           version == [k \in Keys |-> IF k \in DOMAIN creating.change
                                      THEN creating.change[k].new
                                      ELSE hub[Len(hub)][k]]
<1>1. /\ creating.active /\ creating.parent = Len(hub) /\ hub' = Append(hub, version)
      /\ creating' = [creating EXCEPT !.uploaded = TRUE]
  BY DEF Upload
<1>2. /\ creating'.active /\ creating'.end = creating.end
      /\ creating'.parent = creating.parent /\ creating'.change = creating.change
  BY <1>1 DEF TypeInv, PushOK
<1>3. hub \in Seq(States) /\ base \in States
  BY ElementOfSeq DEF TypeInv, HubOK
<1>4. reached \in States
  BY <1>3, StateAtIsState
<1>5. /\ creating.change = Difference(base, reached)
      /\ \A i \in DOMAIN table : Before(i, creating.end) => ~table[i].deleted
      /\ \E i \in DOMAIN table :
            Before(i, creating.end) /\ ~Before(<<i[1] + 1, 0>>, creating.end)
  BY <1>1 DEF Packaged
<1>6. version = reached
  <2>1. version = [k \in Keys |-> IF k \in DOMAIN Difference(base, reached)
                                  THEN Difference(base, reached)[k].new ELSE base[k]]
    BY <1>1, <1>5
  <2> HIDE DEF version, reached, base
  <2> QED BY <1>3, <1>4, <2>1, DifferenceLeadsThere
<1>7. version \in States
  BY <1>4, <1>6
<1> HIDE DEF version
<1>8. hub'[creating.parent] = base /\ hub'[creating.parent + 1] = version
  BY <1>1, <1>3, <1>7, LenProperties, AppendProperties
<1> QED BY <1>2, <1>5, <1>6, <1>8 DEF Packaged

(* The hub takes a changeset that follows its last version.                *)
LEMMA UploadKeepsRecordInv ==
    ASSUME NEW past, TypeInv, TypeInv', RecordInv(past), Upload
    PROVE  RecordInv(past)'
<1> DEFINE version == [k \in Keys |-> IF k \in DOMAIN creating.change
                                      THEN creating.change[k].new
                                      ELSE hub[Len(hub)][k]]
<1>1. /\ job.op = "None" /\ creating.active /\ hub' = Append(hub, version)
      /\ creating.parent = Len(hub) /\ creating' = [creating EXCEPT !.uploaded = TRUE]
      /\ UNCHANGED <<fileVars, disk, txnVars, editVars, job>>
  BY DEF Upload
<1>2. /\ creating'.active /\ creating'.end = creating.end
      /\ creating'.parent = creating.parent
  BY <1>1 DEF TypeInv, PushOK
<1>3. hub \in Seq(States) /\ hub' \in Seq(States)
  BY DEF TypeInv, HubOK
<1> HIDE DEF version
<1>4. /\ Len(hub') = Len(hub) + 1 /\ Len(hub) \in Nat
      /\ \A n \in 1..Len(hub) : hub'[n] = hub[n]
  <2>1. \A n \in 1..Len(hub') : hub'[n] \in States
    BY <1>3, ElementOfSeq
  <2>2. Len(hub') = Len(hub) + 1 /\ Len(hub) \in Nat
    BY <1>1, <1>3, LenProperties
  <2>3. \A n \in 1..Len(hub) : hub'[n] = hub[n]
    BY <1>1, <1>3, <2>2
  <2> QED BY <2>2, <2>3
<1>5. ParentsOK' /\ hub'[parent] = hub[parent] /\ hub'[disk.parent] = hub[disk.parent]
  BY <1>1, <1>4 DEF RecordInv, ParentsOK
<1>6. IsFiniteTable(txns) /\ IsFiniteTable(disk.txns)
  BY DEF TypeInv, FileOK, DiskOK
<1>7. creating.parent \in 1..Len(hub)
  BY <1>1 DEF RecordInv, PushInv, ParentsOK
<1>8. FileInv(past)'
  BY <1>1, <1>5, <1>6, <1>7, UploadedIsPackaged DEF RecordInv, FileInv, DiskRecorded
<1>9. Failed' = Failed
  BY <1>1 DEF Failed
<1>10. OpenInv(past)'
  BY <1>1, <1>5, <1>6, <1>7, <1>9, UploadedIsPackaged DEF RecordInv, OpenInv
<1>11. BeforeEdits' = BeforeEdits
  BY <1>1 DEF BeforeEdits, Original
<1>12. Resting(past)'
  BY <1>1, <1>5, <1>9, <1>11 DEF RecordInv, Resting, BeforeEditsRecorded
<1>13. PushInv(past)'
  BY <1>1, <1>2, <1>4, <1>7 DEF RecordInv, PushInv
<1>14. IsStack(reversed', curr') /\ FailedHasNoRedo'
  BY <1>1, <1>9 DEF RecordInv, FailedHasNoRedo
<1>15. Reversing(past)' /\ Reinstating' /\ Discarding' /\ Deleting'
  BY <1>1 DEF Reversing, Reinstating, Discarding, Deleting
<1> QED BY <1>5, <1>8, <1>10, <1>12, <1>13, <1>14, <1>15 DEF RecordInv

(* Pushing, by all its actions.                                            *)
LEMMA PushKeepsRecordInv ==
    ASSUME NEW past, TypeInv, TypeInv', AbandonsFailure, KeepsSession, IdInv,
           RecordInv(past), PushNext
    PROVE  RecordInv(past)' \/ (StartCreateChangeset /\ RecordInv("Whole")')
<1>1. CASE StartCreateChangesetFails
  <2>1. /\ Rest(past) /\ job.op = "None" /\ ~Failed /\ txns' = WithoutReversed(txns)
        /\ reversed' = <<>> /\ creating' = NotCreating
        /\ UNCHANGED <<db, conf, parent, disk, curr, multi, editVars, job, hub>>
    BY <1>1, ReadyIsAtRest DEF StartCreateChangesetFails, MayPush
  <2>2. PushInv(past)'
    BY <2>1 DEF PushInv, NotCreating
  <2>3. Rest(past)' /\ ~Failed'
    BY <2>1, <2>2, DeleteReversedRests, NotCreatingIsPackaged DEF Failed
  <2> QED BY <2>1, <2>3, RestIsInv
<1>2. CASE StopCreateChangeset
  <2>1. /\ Rest(past) /\ job.op = "None" /\ ~Failed /\ creating' = NotCreating
        /\ UNCHANGED <<fileVars, disk, txnVars, editVars, job, hub>>
    BY <1>2, ReadyIsAtRest DEF StopCreateChangeset
  <2>2. BeforeEdits' = BeforeEdits
    BY <2>1 DEF BeforeEdits, Original
  <2>3. PushInv(past)'
    BY <2>1 DEF PushInv, NotCreating
  <2>4. Rest(past)' /\ ~Failed'
    BY <2>1, <2>2, <2>3, NotCreatingIsPackaged
    DEF Rest, Failed, ParentsOK, BeforeEditsRecorded, DiskRecorded
  <2> QED BY <2>1, <2>4, RestIsInv
<1> QED BY <1>1, <1>2, StartCreateChangesetKeepsRecordInv, UploadKeepsRecordInv,
           FinishKeepsRecordInv DEF PushNext

-------------------------------------------------------------------------------
(***************************************************************************)
(* Discarding.  A client that discards while it pushes, the mishap         *)
(* DiscardWhilePushing, loses PackagedTxnsKept: the Txns it discards are   *)
(* those the hub was given.                                                *)
(***************************************************************************)
KeepsPushed == "DiscardWhilePushing" \notin Mishaps

(* A table whose rows are all reversed leads nowhere.                      *)
LEMMA AllReversedLeadsNowhere ==
    ASSUME NEW table, IsFiniteTable(table), \A i \in DOMAIN table : table[i].deleted,
           NEW base \in States
    PROVE  Replay(WithoutReversed(table), base) = base /\ LiveFirst(table)
<1>1. \A i \in DOMAIN table : ~Before(i, <<1, 0>>)
  BY DEF IsFiniteTable, IsTable, TxnIds, Before
<1>2. CutAt(table, <<1, 0>>)
  BY <1>1 DEF CutAt
<1>3. StateAt(table, base, <<1, 0>>) = base
  BY <1>1, NothingBefore
<1>4. LiveFirst(table)
  BY DEF LiveFirst
<1> QED BY <1>2, <1>3, <1>4, ReplayIsStateAtCut

(* DiscardLocalChanges begins past every Txn, on the file.                 *)
LEMMA DiscardBeginsOnFile ==
    ASSUME NEW past, TypeInv, TypeInv', KeepsPushed, Freed(disk.txns, curr),
           FileInv(past), ParentsOK, PushInv(past), DiscardLocalChanges
    PROVE  RecordInv(past)'
<1> DEFINE base == hub[disk.parent]
           at == <<curr[1] + 1, 0>>
<1>1. /\ job.op = "None" /\ ~creating.active
      /\ db' = disk.db /\ parent' = disk.parent /\ reversed' = <<>>
      /\ txns' = WithoutReversed(disk.txns)
      /\ DOMAIN tracked' = {} /\ ~Failed'
      /\ job' = [Idle EXCEPT !.op = "Discard", !.at = at]
      /\ UNCHANGED <<disk, curr, creating, hub>>
  BY EmptyMapIsEmpty DEF DiscardLocalChanges, ClientReady, KeepsPushed, Failed
<1>2. job'.op = "Discard" /\ job'.at = at
  BY <1>1 DEF Idle
<1>3. IsFiniteTable(disk.txns) /\ curr \in TxnIds /\ at \in TxnIds
  BY DEF TypeInv, DiskOK, SessionOK, TxnIds
<1>4. Sound(disk.txns, base, curr, reversed, past) /\ DiskRecorded /\ Chained(disk.txns, base)
  BY <1>1 DEF FileInv
<1>5. Sound(txns', base, curr, <<>>, past) /\ Sound(disk.txns, base, curr, <<>>, past)
  BY <1>1, <1>3, <1>4, WithoutReversedIsSound, DroppingRedoIsSound
<1>6. CutAt(txns', at)
  <2>1. AllBefore(txns', curr) /\ AllLive(txns') /\ DOMAIN txns' \subseteq TxnIds
    <3>1. IsFiniteTable(txns') /\ AllLive(txns')
      BY <1>1, <1>3, WithoutReversedRows
    <3>2. AllBefore(txns', curr)
      BY <1>1, <1>3, WithoutReversedIsBefore
    <3> QED BY <3>1, <3>2 DEF IsFiniteTable, IsTable
  <2>2. ASSUME NEW i \in DOMAIN txns' PROVE Before(i, at)
    <3>1. i \in TxnIds /\ Before(i, curr)
      BY <2>1 DEF AllBefore
    <3> QED BY <1>3, <3>1 DEF Before, TxnIds
  <2> QED BY <2>1, <2>2 DEF CutAt, AllLive
<1>7. db' = StateAt(txns', base, at)
  <2>1. IsFiniteTable(txns')
    BY DEF TypeInv, FileOK
  <2>2. Replay(WithoutReversed(txns'), base) = StateAt(txns', base, at)
    BY <1>6, <2>1, ReplayIsStateAtCut
  <2> QED BY <1>1, <1>3, <1>4, <2>2, DeletingReversedReplays DEF DiskRecorded
<1>8. Discarding'
  BY <1>1, <1>2, <1>6, <1>7 DEF Discarding, IsAt
<1>9. FileInv(past)'
  BY <1>1, <1>4, <1>5 DEF FileInv, DiskRecorded, Packaged
<1>10. OpenInv(past)'
  BY <1>1, <1>5 DEF OpenInv, Sound, Packaged
<1>11. ParentsOK' /\ PushInv(past)' /\ FailedHasNoRedo'
  BY <1>1 DEF ParentsOK, PushInv, FailedHasNoRedo
<1>12. Resting(past)' /\ Reversing(past)' /\ Reinstating' /\ Deleting'
  BY <1>2 DEF Resting, Reversing, Reinstating, Deleting
<1> QED BY <1>1, <1>8, <1>9, <1>10, <1>11, <1>12, EmptyIsStack DEF RecordInv

LEMMA DiscardLocalChangesKeepsRecordInv ==
    ASSUME NEW past, TypeInv, TypeInv', KeepsPushed, IdInv, RecordInv(past),
           DiscardLocalChanges
    PROVE  RecordInv(past)'
  BY DiscardBeginsOnFile DEF RecordInv, IdInv, FileFreed

(* Discarding reverses one Txn.                                            *)
LEMMA DiscardStepKeepsRecordInv ==
    ASSUME NEW past, TypeInv, TypeInv', RecordInv(past), DiscardStep
    PROVE  RecordInv(past)'
<1>1. PICK id \in IdsBefore(txns, job.at) :
          /\ IsPrevious(txns, job.at, id)
          /\ db' = ApplySkipping(Invert(txns[id].change), db)
          /\ txns' = SetDeleted(txns, id, TRUE)
          /\ job' = [job EXCEPT !.at = id]
  BY DEF DiscardStep
<1>2. job.op = "Discard" /\ UNCHANGED <<parent, disk, txnVars, editVars, creating, hub>>
  BY DEF DiscardStep
<1>3. /\ CutAt(txns, job.at) /\ db = StateAt(txns, hub[parent], job.at)
      /\ DOMAIN tracked = {} /\ ~Failed /\ reversed = <<>>
  BY <1>2 DEF RecordInv, Discarding, IsAt
<1>4. IsFiniteTable(txns) /\ id \in DOMAIN txns /\ id \in TxnIds /\ job.at \in TxnIds
  <2>1. IsFiniteTable(txns) /\ id \in DOMAIN txns /\ id \in TxnIds /\ Before(id, job.at)
    BY DEF TypeInv, FileOK, IdsBefore, IsFiniteTable, IsTable
  <2>2. job.at \in TxnIds \cup {NoTxn}
    BY DEF TypeInv, JobOK
  <2> QED BY <2>1, <2>2 DEF NoTxn, Before, TxnIds
<1>5. hub[parent] \in States /\ Chained(txns, hub[parent])
  BY ElementOfSeq DEF RecordInv, ParentsOK, OpenInv, TypeInv, HubOK
<1>6. job'.op = "Discard" /\ job'.at = id
  BY <1>1, <1>2 DEF TypeInv, JobOK
<1>7. ~creating.active
  BY <1>2 DEF RecordInv, PushInv
<1>8. /\ OpenInv(past)' /\ ~Failed'
      /\ \A at : StateAt(txns', hub[parent], at) = StateAt(txns, hub[parent], at)
  BY <1>1, <1>2, <1>3, <1>4, <1>7, MarkingKeepsOpenInv
<1>9. CutAt(txns', id)
  BY <1>1, <1>3, <1>4, ReversingMovesCut
<1>10. db' = StateAt(txns', hub[parent], id)
  BY <1>1, <1>3, <1>4, <1>5, <1>8, UndoingTxnIsExact
<1>11. Discarding'
  BY <1>2, <1>3, <1>6, <1>8, <1>9, <1>10 DEF Discarding, IsAt
<1>12. ParentsOK' /\ FileInv(past)' /\ PushInv(past)' /\ IsStack(reversed', curr')
  BY <1>2, <1>6, <1>7 DEF RecordInv, ParentsOK, FileInv, PushInv, DiskRecorded
<1>13. FailedHasNoRedo' /\ Resting(past)' /\ Reversing(past)' /\ Reinstating' /\ Deleting'
  BY <1>6, <1>8 DEF FailedHasNoRedo, Resting, Reversing, Reinstating, Deleting
<1> QED BY <1>8, <1>11, <1>12, <1>13 DEF RecordInv

(* The first COMMIT of DiscardLocalChanges: every Txn is reversed.         *)
LEMMA DiscardReversedRecords ==
    ASSUME NEW past, TypeInv, TypeInv', ParentsOK, OpenInv(past), PushInv(past),
           IsAt(job.at), reversed = <<>>, ~creating.active, DiscardReversed
    PROVE  RecordInv(past)'
<1> DEFINE base == hub[parent]
<1>1. /\ job.op = "Discard" /\ IdsBefore(txns, job.at) = {}
      /\ job' = [Idle EXCEPT !.op = "DeleteAll"] /\ Persist
      /\ UNCHANGED <<db, txns, parent, txnVars, editVars, creating, hub>>
  BY DEF DiscardReversed
<1>2. job'.op = "DeleteAll" /\ disk'.db = db /\ disk'.txns = txns /\ disk'.parent = parent
  BY <1>1 DEF Idle, Persist
<1>3. /\ CutAt(txns, job.at) /\ db = StateAt(txns, base, job.at)
      /\ DOMAIN tracked = {} /\ ~Failed
  BY DEF IsAt
<1>4. \A i \in DOMAIN txns : txns[i].deleted
  BY <1>1, <1>3 DEF CutAt, IdsBefore
<1>5. DiskRecorded'
  BY <1>1, <1>2, <1>3, ReplayIsStateAtCut DEF DiskRecorded, TypeInv, FileOK
<1>6. FileInv(past)'
  BY <1>1, <1>2, <1>3, <1>5 DEF FileInv, OpenInv, Packaged
<1>7. OpenInv(past)'
  BY <1>1, <1>2, <1>3 DEF OpenInv, Failed
<1>8. Deleting'
  BY <1>1, <1>2, <1>3, <1>4 DEF Deleting, Failed
<1>9. ParentsOK' /\ PushInv(past)' /\ FailedHasNoRedo' /\ IsStack(reversed', curr')
  BY <1>1, <1>2, <1>3, EmptyIsStack DEF ParentsOK, PushInv, FailedHasNoRedo, Failed
<1>10. Resting(past)' /\ Reversing(past)' /\ Reinstating' /\ Discarding'
  BY <1>2 DEF Resting, Reversing, Reinstating, Discarding
<1> QED BY <1>6, <1>7, <1>8, <1>9, <1>10 DEF RecordInv

LEMMA DiscardReversedKeepsRecordInv ==
    ASSUME NEW past, TypeInv, TypeInv', RecordInv(past), DiscardReversed
    PROVE  RecordInv(past)'
<1>1. job.op = "Discard"
  BY DEF DiscardReversed
<1> QED BY <1>1, DiscardReversedRecords DEF RecordInv, Discarding, PushInv

(* The table of a briefcase without Txns, at the first id.                 *)
LEMMA EmptyIsSound ==
    ASSUME NEW past, NEW base \in States
    PROVE  /\ Sound(EmptyMap, base, <<1, 0>>, <<>>, past)
           /\ Replay(WithoutReversed(EmptyMap), base) = base
<1>1. IsFiniteTable(EmptyMap) /\ DOMAIN EmptyMap = {}
  BY EmptyIsTable, EmptyMapIsEmpty
<1>2. Chained(EmptyMap, base)
  BY <1>1 DEF Chained
<1>3. Replay(WithoutReversed(EmptyMap), base) = base /\ LiveFirst(EmptyMap)
  BY <1>1, AllReversedLeadsNowhere
<1> QED BY <1>2, <1>3, NewSessionIsSound

(* The second: they are deleted.                                           *)
LEMMA DeleteAllTxnsKeepsRecordInv ==
    ASSUME NEW past, TypeInv, TypeInv', RecordInv(past), DeleteAllTxns
    PROVE  RecordInv(past)'
<1> DEFINE base == hub[parent]
<1>1. /\ job.op = "DeleteAll" /\ txns' = EmptyMap /\ curr' = <<1, 0>> /\ reversed' = <<>>
      /\ job' = Idle /\ Persist
      /\ UNCHANGED <<db, parent, editVars, creating, hub>>
  BY DEF DeleteAllTxns
<1>2. /\ txns = disk.txns /\ db = disk.db /\ parent = disk.parent
      /\ DOMAIN tracked = {} /\ ~Failed
      /\ \A i \in DOMAIN txns : txns[i].deleted
      /\ ~creating.active /\ PushInv(past)
  BY <1>1 DEF RecordInv, Deleting, PushInv
<1>3. parent \in 1..Len(hub) /\ DiskRecorded
  BY DEF RecordInv, ParentsOK, FileInv
<1>4. base \in States /\ IsFiniteTable(txns)
  BY <1>3, ElementOfSeq DEF TypeInv, HubOK, FileOK
<1>5. db = base
  BY <1>2, <1>3, <1>4, AllReversedLeadsNowhere DEF DiskRecorded
<1>6. /\ Sound(txns', base, curr', reversed', past)
      /\ db' = Replay(WithoutReversed(txns'), base)
  BY <1>1, <1>4, <1>5, EmptyIsSound
<1>7. PushInv(past)' /\ Packaged(txns', creating', hub')
  BY <1>1, <1>2 DEF PushInv, Packaged
<1>8. Rest(past)'
  BY <1>1, <1>2, <1>3, <1>6, <1>7, CommitRests, EmptyIsStack
<1> QED BY <1>1, <1>2, <1>8, RestIsInv DEF Idle, Failed

(* Discarding all local changes, by all its actions.                       *)
LEMMA DiscardKeepsRecordInv ==
    ASSUME NEW past, TypeInv, TypeInv', AbandonsFailure, KeepsPushed, IdInv,
           RecordInv(past), DiscardNext
    PROVE  RecordInv(past)'
<1>1. CASE DiscardFails
  <2>1. /\ job.op # "DeleteAll" /\ Rollback /\ job'.op = "None"
        /\ UNCHANGED <<disk, curr, reversed, creating, hub>>
    BY <1>1 DEF DiscardFails, Idle
  <2> QED BY <2>1, RollbackRests, RestIsInv
<1> QED BY <1>1, DiscardLocalChangesKeepsRecordInv, DiscardStepKeepsRecordInv,
           DiscardReversedKeepsRecordInv, DeleteAllTxnsKeepsRecordInv DEF DiscardNext

(* A crash falls back on the file, wherever it happens.                    *)
LEMMA CrashFallsOnFile ==
    ASSUME NEW past, TypeInv, TypeInv', ParentsOK, FileInv(past), Deleting, Crash
    PROVE  RecordInv(past)'
<1> DEFINE base == hub[disk.parent]
<1>1. /\ db' = disk.db /\ txns' = disk.txns /\ parent' = disk.parent
      /\ DOMAIN tracked' = {} /\ ~Failed' /\ curr' \in NewSessions(disk.txns)
      /\ reversed' = <<>> /\ creating' = NotCreating /\ job'.op = "None"
      /\ UNCHANGED <<disk, hub>>
  BY EmptyMapIsEmpty DEF Crash, Rollback, Idle, Failed
<1>2. Chained(disk.txns, base) /\ DiskRecorded /\ ParentsOK
  BY DEF FileInv
<1>3. LiveFirst(disk.txns)
  <2>1. CASE job.op = "DeleteAll"
    BY <2>1 DEF Deleting, LiveFirst
  <2>2. CASE job.op # "DeleteAll"
    BY <2>2 DEF FileInv, Sound
  <2> QED BY <2>1, <2>2
<1>4. Sound(disk.txns, base, curr', <<>>, past)
  BY <1>1, <1>2, <1>3, NewSessionIsStart, NewSessionIsSound
<1>5. BeforeEdits' = db'
  BY <1>1, NothingTrackedNext
<1>6. BeforeEditsRecorded' /\ DiskRecorded' /\ ParentsOK'
  BY <1>1, <1>2, <1>5 DEF BeforeEditsRecorded, DiskRecorded, ParentsOK
<1>7. PushInv(past)'
  BY <1>1 DEF PushInv, NotCreating
<1>8. Rest(past)'
  BY <1>1, <1>4, <1>6, <1>7, NotCreatingIsPackaged, EmptyIsStack DEF Rest
<1> QED BY <1>1, <1>8, RestIsInv

LEMMA CrashKeepsRecordInv ==
    ASSUME NEW past, TypeInv, TypeInv', RecordInv(past), Crash
    PROVE  RecordInv(past)'
  BY CrashFallsOnFile DEF RecordInv

-------------------------------------------------------------------------------
(* The invariant holds in a briefcase as it was downloaded.                *)
LEMMA RecordInvInit == Init => RecordInv("Whole")
<1> SUFFICES ASSUME Init PROVE RecordInv("Whole")
  OBVIOUS
<1>1. /\ db = InitialState /\ txns = EmptyMap /\ parent = 1
      /\ disk.db = InitialState /\ disk.txns = EmptyMap /\ disk.parent = 1
      /\ curr = <<1, 0>> /\ reversed = <<>> /\ DOMAIN tracked = {} /\ ~Failed
      /\ creating = NotCreating /\ job.op = "None" /\ hub = <<InitialState>>
  BY EmptyMapIsEmpty DEF Init, Idle, Failed
<1>2. InitialState \in States /\ hub[1] = InitialState /\ Len(hub) = 1
  BY <1>1, InitialStateAssumption
<1>3. /\ Sound(EmptyMap, hub[1], <<1, 0>>, <<>>, "Whole")
      /\ Replay(WithoutReversed(EmptyMap), hub[1]) = InitialState
  BY <1>2, EmptyIsSound
<1>4. BeforeEdits = db
  BY <1>1, <1>2 DEF BeforeEdits, Original, States
<1>5. DiskRecorded /\ BeforeEditsRecorded /\ ParentsOK
  BY <1>1, <1>2, <1>3, <1>4 DEF DiskRecorded, BeforeEditsRecorded, ParentsOK
<1>6. FileInv("Whole") /\ OpenInv("Whole")
  BY <1>1, <1>3, <1>5, NotCreatingIsPackaged DEF FileInv, OpenInv, Sound
<1>7. PushInv("Whole") /\ IsStack(reversed, curr) /\ FailedHasNoRedo
  BY <1>1, EmptyIsStack DEF PushInv, NotCreating, FailedHasNoRedo
<1>8. Resting("Whole") /\ Reversing("Whole") /\ Reinstating /\ Discarding /\ Deleting
  BY <1>1, <1>3, <1>5 DEF Resting, Reversing, Reinstating, Discarding, Deleting
<1> QED BY <1>5, <1>6, <1>7, <1>8 DEF RecordInv

(* No call adds a row to the open table that it does not write to the      *)
(* file, and the file loses rows only to a commit of the open table.       *)
RowsCommitted ==
    \/ disk'.txns = txns'
    \/ disk'.txns = txns /\ DOMAIN txns' \subseteq DOMAIN txns
    \/ UNCHANGED disk /\ DOMAIN txns' \subseteq DOMAIN txns \cup DOMAIN disk.txns

LEMMA RowsInit == Init => RowsInFile
  BY DEF Init, RowsInFile

LEMMA RowsAreCommitted ==
    ASSUME [Next]_vars
    PROVE  RowsCommitted
<1> USE DEF RowsCommitted
<1>1. /\ Persist => RowsCommitted
      /\ Rollback /\ UNCHANGED disk => RowsCommitted
      /\ AbandonIfChanged /\ UNCHANGED disk => RowsCommitted
      /\ UNCHANGED <<txns, disk>> => RowsCommitted
  BY DEF Persist, Rollback, AbandonIfChanged
<1>2. \A table : DOMAIN WithoutReversed(table) \subseteq DOMAIN table
  BY DEF WithoutReversed, Keep
<1>3. \A id, flag : DOMAIN SetDeleted(txns, id, flag) = DOMAIN txns
  BY DEF SetDeleted
<1>4. \A table, version, restart : DOMAIN table \subseteq DOMAIN txns
         /\ (\/ SaveUntracked(table, version, restart) \/ SaveTracked(table, version, restart)
             \/ SaveFails(table, version))
         => RowsCommitted
  <2> SUFFICES ASSUME NEW table, NEW version, NEW restart, DOMAIN table \subseteq DOMAIN txns,
                      \/ SaveUntracked(table, version, restart)
                      \/ SaveTracked(table, version, restart) \/ SaveFails(table, version)
               PROVE  RowsCommitted
    OBVIOUS
  <2>1. CASE SaveFails(table, version)
    <3>1. txns' = WithoutReversed(table) /\ UNCHANGED disk
      BY <2>1 DEF SaveFails
    <3> QED BY <1>2, <3>1
  <2> QED BY <1>1, <2>1 DEF SaveUntracked, SaveTracked
<1>5. CASE SaveChanges
  BY <1>1, <1>4, <1>5 DEF SaveChanges, SaveRefused
<1>6. CASE FinishCreateChangeset
  <2>1. DOMAIN From(txns, creating.end) \subseteq DOMAIN txns
    BY DEF From, Keep
  <2>2. \/ SaveUntracked(From(txns, creating.end), creating.parent + 1, TRUE)
        \/ SaveTracked(From(txns, creating.end), creating.parent + 1, TRUE)
        \/ SaveFails(From(txns, creating.end), creating.parent + 1)
    BY <1>6 DEF FinishCreateChangeset
  <2> QED BY <1>4, <2>1, <2>2
<1>7. CASE \/ \E key \in Keys, value \in Values : Edit(key, value)
           \/ EditDdl \/ AbandonChanges \/ Crash \/ UNCHANGED vars
           \/ BeginMultiTxnOperation \/ EndMultiTxnOperation \/ RestartTxnSession
  BY <1>1, <1>7 DEF Edit, EditDdl, AbandonChanges, Crash, BeginMultiTxnOperation,
     EndMultiTxnOperation, RestartTxnSession
<1>8. CASE \E first, cancel : ReverseRange(first, cancel)
  BY <1>1, <1>8 DEF ReverseRange
<1>9. CASE CancelNothing \/ ReverseStep
  <2>1. CASE CancelNothing
    <3>1. txns' = WithoutReversed(txns) /\ disk' = disk
      BY <2>1 DEF CancelNothing
    <3>2. DOMAIN txns' \subseteq DOMAIN txns
      BY <1>2, <3>1
    <3> QED BY <3>1, <3>2
  <2>2. CASE ReverseStep
    <3>1. DOMAIN txns' = DOMAIN txns /\ disk' = disk
      BY <1>3, <2>2 DEF ReverseStep
    <3> QED BY <3>1
  <2> QED BY <1>9, <2>1, <2>2
<1>10. CASE ReverseDone
  <2>1. disk'.txns = txns /\ DOMAIN txns' \subseteq DOMAIN txns
    BY <1>2, <1>10 DEF ReverseDone
  <2> QED BY <2>1
<1>11. CASE ReverseFails
  <2>1. UNCHANGED disk /\ DOMAIN txns' \subseteq DOMAIN disk.txns
    BY <1>2, <1>11 DEF ReverseFails
  <2> QED BY <2>1
<1>12. CASE ReinstateTxn \/ ReinstateStep \/ ReinstateDone \/ ReinstateFails
  BY <1>1, <1>3, <1>12 DEF ReinstateTxn, ReinstateStep, ReinstateDone, ReinstateFails
<1>13. CASE PushNext
  BY <1>1, <1>2, <1>6, <1>13
  DEF PushNext, StartCreateChangeset, StartCreateChangesetFails, Upload, StopCreateChangeset
<1>14. CASE DiscardNext
  <2>1. CASE DiscardLocalChanges
    <3>1. UNCHANGED disk /\ DOMAIN txns' \subseteq DOMAIN disk.txns
      BY <1>2, <2>1 DEF DiscardLocalChanges
    <3> QED BY <3>1
  <2> QED BY <1>1, <1>3, <1>14, <2>1
      DEF DiscardNext, DiscardStep, DiscardFails, DiscardReversed, DeleteAllTxns
<1> QED BY <1>5, <1>7, <1>8, <1>9, <1>10, <1>11, <1>12, <1>13, <1>14
    DEF Next, UndoNext, ReverseTxns, ReverseTo, ReverseAll, CancelTo

LEMMA RowsStep == RowsInFile /\ RowsCommitted => RowsInFile'
  BY DEF RowsInFile, RowsCommitted

(* A client that makes none of the calls known to do harm.                 *)
Careful == AbandonsFailure /\ KeepsSession /\ KeepsPushed

(* Every step of such a client keeps it.                                   *)
LEMMA RecordInvStep ==
    Careful /\ TypeInv /\ TypeInv' /\ IdInv /\ RowsInFile /\ RecordInv("Whole") /\ [Next]_vars
        => RecordInv("Whole")'
<1> SUFFICES ASSUME AbandonsFailure, KeepsSession, KeepsPushed,
                    TypeInv, TypeInv', IdInv, RowsInFile, RecordInv("Whole"), [Next]_vars
             PROVE  RecordInv("Whole")'
  BY DEF Careful
<1>1. CASE \/ \E key \in Keys, value \in Values : Edit(key, value)
           \/ EditDdl \/ AbandonChanges
           \/ BeginMultiTxnOperation \/ EndMultiTxnOperation \/ RestartTxnSession
  BY <1>1, SessionActionsKeepRecordInv
<1>2. CASE SaveChanges
  BY <1>2, SaveChangesKeepsRecordInv
<1>3. CASE UndoNext
  <2>1. ReverseAll => \E pos \in Positions : ReverseTo(pos)
    BY DEF ReverseAll, SessionStart, Positions, TypeInv, SessionOK, TxnIds
  <2> QED BY <1>3, <2>1, StartOfUndoKeepsRecordInv, ReverseStepKeepsRecordInv,
             ReverseDoneKeepsRecordInv, ReverseFailsKeepsRecordInv, ReinstateKeepsRecordInv
          DEF UndoNext
<1>4. CASE PushNext
  BY <1>4, PushKeepsRecordInv
<1>5. CASE DiscardNext
  BY <1>5, DiscardKeepsRecordInv
<1>6. CASE Crash
  BY <1>6, CrashKeepsRecordInv
<1>7. CASE UNCHANGED vars
  BY <1>7, UnchangedKeepsRecordInv DEF Failed, BeforeEdits, Original
<1> QED BY <1>1, <1>2, <1>3, <1>4, <1>5, <1>6, <1>7 DEF Next

(* The invariants of a careful client's briefcase.                         *)
LEMMA RecordIsInvariant ==
    ASSUME Careful
    PROVE  Spec => [](TypeInv /\ IdInv /\ RowsInFile /\ RecordInv("Whole"))
<1>1. Spec => []TypeInv
  BY TypeInvInit, TypeInvStep, PTL DEF Spec
<1>2. Init => IdInv /\ RowsInFile /\ RecordInv("Whole")
  BY IdInvInit, RowsInit, RecordInvInit
<1>3. TypeInv /\ TypeInv' /\ IdInv /\ RowsInFile /\ RecordInv("Whole") /\ [Next]_vars
          => IdInv' /\ RowsInFile' /\ RecordInv("Whole")'
  BY IdInvStep, RowsAreCommitted, RowsStep, RecordInvStep DEF Careful
<1> QED BY <1>1, <1>2, <1>3, PTL DEF Spec

(* "It is impossible to make changes to the database that aren't also      *)
(* saved in the dgn_Txn table" (_OnCommit): through undo, redo, pushes,    *)
(* discards and crashes at any point, the file holds its parent version    *)
(* and what its live Txns say.                                             *)
THEOREM FileIsAlwaysRecorded ==
    ASSUME Careful
    PROVE  Spec => []DiskRecorded
<1>1. TypeInv /\ IdInv /\ RecordInv("Whole") => DiskRecorded
  BY RecordInvImplies
<1> QED BY <1>1, RecordIsInvariant, PTL

(* Between calls the open database, less the edits the session tracks, is  *)
(* what the live Txns say.                                                 *)
THEOREM WorkIsAlwaysRecorded ==
    ASSUME Careful
    PROVE  Spec => []WorkRecorded
<1>1. TypeInv /\ IdInv /\ RecordInv("Whole") => WorkRecorded
  BY RecordInvImplies
<1> QED BY <1>1, RecordIsInvariant, PTL

(* Every Txn, reversed or not, finds the values it expects when it is      *)
(* undone or redone: the rows UndoChangeSet::_OnConflict would skip are    *)
(* never skipped.                                                          *)
THEOREM TxnsAlwaysChain ==
    ASSUME Careful
    PROVE  Spec => []TxnsChain
<1>1. TypeInv /\ IdInv /\ RecordInv("Whole") => TxnsChain
  BY RecordInvImplies
<1> QED BY <1>1, RecordIsInvariant, PTL

(* The assertion of ReinstateTxn: the range on top of the redo stack       *)
(* starts at m_curr, and no range has lost its Txns.                       *)
THEOREM RedoStackIsAlwaysSound ==
    ASSUME Careful
    PROVE  Spec => []RedoStackSound
<1>1. TypeInv /\ IdInv /\ RecordInv("Whole") => RedoStackSound
  BY RecordInvImplies
<1> QED BY <1>1, RecordIsInvariant, PTL

(* What FinishCreateChangeset deletes is what StartCreateChangeset         *)
(* packaged and the hub was given.                                         *)
THEOREM PackagedTxnsAreAlwaysKept ==
    ASSUME Careful
    PROVE  Spec => []PackagedTxnsKept
<1>1. TypeInv /\ IdInv /\ RecordInv("Whole") => PackagedTxnsKept
  BY RecordInvImplies
<1> QED BY <1>1, RecordIsInvariant, PTL
-------------------------------------------------------------------------------
(***************************************************************************)
(* The session undo and redo stay in.                                      *)
(***************************************************************************)

(* The Txns from a session on hold nothing but data.                       *)
DataFrom(table, id) == \A i \in DOMAIN table : table[i].type = "Data" \/ i[1] < id[1]

(* So it is with those undo and redo could reach: a session that has       *)
(* neither may find reversed Txns of any kind where it begins, which       *)
(* discarding leaves in the file and deleting them does not commit.        *)
ReachesData(table) ==
    \A i \in DOMAIN table :
        table[i].type = "Data" \/ i[1] < curr[1]
        \/ (table[i].deleted /\ curr[2] = 0 /\ reversed = <<>>)

(* Undo and redo are about ranges of the present session.                  *)
RangesInSession ==
    \A n \in 1..Len(reversed) :
        reversed[n].first[1] = curr[1] /\ reversed[n].last[1] = curr[1]
ReverseInSession == job.op = "Reverse" => ~Before(curr, job.at)
ReinstateInSession ==
    job.op = "Reinstate" =>
        /\ job.first[1] = curr[1] /\ job.last[1] = curr[1]
        /\ job.at # NoTxn => ~Before(job.at, job.first)

SessionInv ==
    /\ ReachesData(txns) /\ ReachesData(disk.txns)
    /\ RangesInSession /\ ReverseInSession /\ ReinstateInSession

(* A new session is past every row, of any kind.                           *)
LEMMA NewSessionIsDataFrom ==
    ASSUME NEW table, IsFiniteTable(table), NEW id \in NewSessions(table)
    PROVE  DataFrom(table, id)
<1>1. AllBefore(table, id) /\ id[2] = 0
  BY NewSessionIsPast DEF NewSessions
<1>2. ASSUME NEW i \in DOMAIN table PROVE i[1] < id[1]
  <2>1. i \in TxnIds /\ Before(i, id)
    BY <1>1 DEF AllBefore, IsFiniteTable, IsTable
  <2> QED BY <1>1, <2>1 DEF TxnIds, Before
<1> QED BY <1>2 DEF DataFrom

(* SaveTxn leaves the session at data only: a Txn of another kind ends it. *)
LEMMA SaveTxnIsDataFrom ==
    ASSUME NEW from, IsSaved(from), DataFrom(from.txns, from.curr),
           NEW type \in TxnTypes, NEW change \in Changes,
           NEW s \in SaveTxn(from, type, change)
    PROVE  DataFrom(s.txns, s.curr)
<1> DEFINE isGrouped == from.multi # <<>> /\ Before(Head(from.multi), from.curr)
           row == [type |-> type, deleted |-> FALSE, change |-> change,
                   grouped |-> isGrouped]
           table == Insert(from.txns, from.curr, row)
<1>1. IsSaved(s)
  BY SaveTxnKeepsTypes
<1>2. /\ DOMAIN table = DOMAIN from.txns \cup {from.curr}
      /\ table[from.curr] = row
      /\ \A i \in DOMAIN from.txns : i # from.curr => table[i] = from.txns[i]
  BY DEF Insert
<1>3. row.type = type
  OBVIOUS
<1> HIDE DEF table, row, isGrouped
<1>4. CASE type = "Data"
  <2>1. s.txns = table /\ s.curr = Increment(from.curr)
    BY <1>4 DEF SaveTxn, isGrouped, row, table
  <2>2. s.curr[1] = from.curr[1]
    BY <2>1 DEF Increment
  <2> QED BY <1>2, <1>3, <1>4, <2>1, <2>2 DEF DataFrom
<1>5. CASE type # "Data"
  <2>1. PICK id \in NewSessions(table) : s = [txns |-> table, curr |-> id, multi |-> <<>>]
    BY <1>5 DEF SaveTxn, isGrouped, row, table
  <2>2. s.txns = table /\ s.curr = id
    BY <2>1
  <2> QED BY <1>1, <2>1, <2>2, NewSessionIsDataFrom DEF IsSaved
<1> QED BY <1>4, <1>5

(* Only data can be reached where everything from the session on is data.  *)
LEMMA DataFromReachesData ==
    ASSUME NEW table, DataFrom(table, curr)
    PROVE  ReachesData(table)
  BY DEF DataFrom, ReachesData

(* Once reversed Txns are deleted nothing but data is left.                *)
LEMMA WithoutReversedIsDataFrom ==
    ASSUME NEW table, IsFiniteTable(table), ReachesData(table)
    PROVE  DataFrom(WithoutReversed(table), curr)
<1> DEFINE live == {i \in DOMAIN table : ~table[i].deleted}
<1>1. /\ DOMAIN Keep(table, live) = DOMAIN table \cap live
      /\ \A i \in DOMAIN Keep(table, live) : Keep(table, live)[i] = table[i]
  BY KeepIsTable
<1> QED BY <1>1 DEF WithoutReversed, ReachesData, DataFrom

(* Deleting rows brings none into reach.                                   *)
LEMMA KeepReachesData ==
    ASSUME NEW table, IsFiniteTable(table), ReachesData(table), NEW ids
    PROVE  ReachesData(Keep(table, ids))
<1>1. /\ DOMAIN Keep(table, ids) = DOMAIN table \cap ids
      /\ \A i \in DOMAIN Keep(table, ids) : Keep(table, ids)[i] = table[i]
  BY KeepIsTable
<1> QED BY <1>1 DEF ReachesData

(* Marking a row changes its flag and nothing else.                        *)
LEMMA SetDeletedEffect ==
    ASSUME NEW table, IsFiniteTable(table), NEW id \in DOMAIN table,
           NEW flag \in BOOLEAN
    PROVE  /\ DOMAIN SetDeleted(table, id, flag) = DOMAIN table
           /\ SetDeleted(table, id, flag)[id].deleted = flag
           /\ SetDeleted(table, id, flag)[id].type = table[id].type
           /\ \A i \in DOMAIN table :
                 i # id => SetDeleted(table, id, flag)[i] = table[i]
<1>1. table[id] \in Rows
  BY DEF IsFiniteTable, IsTable
<1>2. DOMAIN SetDeleted(table, id, flag) = DOMAIN table
  BY DEF SetDeleted
<1>3. SetDeleted(table, id, flag)[id] = [table[id] EXCEPT !.deleted = flag]
  BY DEF SetDeleted
<1>4. \A i \in DOMAIN table : i # id => SetDeleted(table, id, flag)[i] = table[i]
  BY DEF SetDeleted
<1> QED BY <1>1, <1>2, <1>3, <1>4 DEF Rows

(* Between calls nothing but the two tables and the stack matters.         *)
SessionSettled ==
    ReachesData(txns) /\ ReachesData(disk.txns) /\ RangesInSession

LEMMA SessionSettledIsInv ==
    ASSUME job'.op \notin {"Reverse", "Reinstate"}, SessionSettled'
    PROVE  SessionInv'
  BY DEF SessionSettled, SessionInv, ReverseInSession, ReinstateInSession

(* A session with no redo stack, where everything is data.                 *)
LEMMA FreshSessionSettles ==
    ASSUME DataFrom(txns', curr'), DataFrom(disk'.txns, curr'), reversed' = <<>>
    PROVE  SessionSettled'
<1>1. ReachesData(txns)' /\ ReachesData(disk.txns)'
  BY DEF DataFrom, ReachesData
<1>2. RangesInSession'
  BY DEF RangesInSession
<1> QED BY <1>1, <1>2 DEF SessionSettled

(* Falling back on the file.                                               *)
LEMMA RollbackSettlesSession ==
    ASSUME SessionInv, txns' = disk.txns, UNCHANGED <<disk, curr, reversed>>
    PROVE  SessionSettled'
  BY DEF SessionInv, SessionSettled, ReachesData, RangesInSession

(* Steps that leave Txns and session alone.                                *)
LEMMA UnchangedKeepsSessionInv ==
    ASSUME SessionInv, UNCHANGED <<txns, disk, curr, reversed, job>>
    PROVE  SessionInv'
  BY DEF SessionInv, ReachesData, RangesInSession, ReverseInSession, ReinstateInSession

(* The session a save is settled on reaches nothing but data.              *)
LEMMA SaveUntrackedSettlesSession ==
    ASSUME NEW table, IsFiniteTable(table), ReachesData(table), RangesInSession,
           NEW version, NEW restart, SaveUntracked(table, version, restart)
    PROVE  SessionSettled'
<1>1. /\ txns' = table /\ disk'.txns = table
      /\ SettleSession(table, curr, multi, reversed, restart)
  BY PersistKeepsLive DEF SaveUntracked
<1>2. CASE restart /\ ~HasPendingTxns(table)
  <2>1. curr' \in NewSessions(table) /\ reversed' = <<>>
    BY <1>1, <1>2 DEF SettleSession
  <2> QED BY <1>1, <2>1, NewSessionIsDataFrom, FreshSessionSettles
<1>3. CASE ~(restart /\ ~HasPendingTxns(table))
  <2>1. curr' = curr /\ reversed' = reversed
    BY <1>1, <1>3 DEF SettleSession
  <2> QED BY <1>1, <2>1 DEF SessionSettled, ReachesData, RangesInSession
<1> QED BY <1>2, <1>3

LEMMA SaveTrackedSettlesSession ==
    ASSUME SavedOK, NEW table, IsFiniteTable(table), ReachesData(table),
           NEW version, NEW restart, SaveTracked(table, version, restart)
    PROVE  SessionSettled'
<1>1. PICK state \in Propagated :
          LET start == [txns |-> WithoutReversed(table), curr |-> curr, multi |-> multi]
          IN \E middle \in SaveDdlTxn(start) :
             \E end \in SaveSchemaAndDataTxns(middle, Difference(BeforeEdits, state)) :
                /\ Cardinality(DOMAIN end.txns) <= MaxTxns /\ end.curr[2] <= MaxTxns
                /\ db' = state /\ txns' = end.txns
                /\ SettleSession(end.txns, end.curr, end.multi, <<>>, restart)
  BY DEF SaveTracked
<1> DEFINE start == [txns |-> WithoutReversed(table), curr |-> curr, multi |-> multi]
           change == Difference(BeforeEdits, state)
<1>2. PICK middle \in SaveDdlTxn(start) :
          \E end \in SaveSchemaAndDataTxns(middle, change) :
             /\ txns' = end.txns
             /\ SettleSession(end.txns, end.curr, end.multi, <<>>, restart)
  BY <1>1
<1>3. PICK end \in SaveSchemaAndDataTxns(middle, change) :
          /\ txns' = end.txns
          /\ SettleSession(end.txns, end.curr, end.multi, <<>>, restart)
  BY <1>2
<1>4. change \in Changes
  BY BeforeEditsIsState, DifferenceIsChange DEF SavedOK
<1>5. IsSaved(start) /\ DataFrom(start.txns, start.curr)
  BY WithoutReversedIsTable, WithoutReversedIsDataFrom DEF IsSaved, SavedOK, SessionOK
<1> HIDE DEF start, change
<1>6. IsSaved(middle) /\ DataFrom(middle.txns, middle.curr)
  <2>1. CASE ddl
    <3>1. middle \in SaveTxn(start, "Ddl", EmptyMap)
      BY <2>1 DEF SaveDdlTxn
    <3> QED BY <1>5, <3>1, SaveTxnKeepsTypes, SaveTxnIsDataFrom, EmptyIsChange
            DEF TxnTypes
  <2>2. CASE ~ddl
    BY <1>5, <2>2 DEF SaveDdlTxn
  <2> QED BY <2>1, <2>2
<1>7. IsSaved(end) /\ DataFrom(end.txns, end.curr)
  <2>1. CASE DOMAIN change = {}
    BY <1>6, <2>1 DEF SaveSchemaAndDataTxns
  <2>2. CASE DOMAIN change # {}
    <3> DEFINE type == IF DOMAIN DirectChange \cap SchemaKeys # {} THEN "EcSchema" ELSE "Data"
    <3>1. end \in SaveTxn(middle, type, change) /\ type \in TxnTypes
      BY <2>2 DEF SaveSchemaAndDataTxns, TxnTypes
    <3> HIDE DEF type
    <3> QED BY <1>4, <1>6, <3>1, SaveTxnKeepsTypes, SaveTxnIsDataFrom
  <2> QED BY <2>1, <2>2
<1>8. DataFrom(end.txns, curr') /\ reversed' = <<>>
  <2>1. CASE restart /\ ~HasPendingTxns(end.txns)
    <3>1. curr' \in NewSessions(end.txns) /\ reversed' = <<>>
      BY <1>3, <2>1 DEF SettleSession
    <3> QED BY <1>7, <3>1, NewSessionIsDataFrom DEF IsSaved
  <2>2. CASE ~(restart /\ ~HasPendingTxns(end.txns))
    BY <1>3, <1>7, <2>2 DEF SettleSession
  <2> QED BY <2>1, <2>2
<1>9. disk'.txns = txns'
  BY PersistKeepsLive DEF SaveTracked
<1> QED BY <1>3, <1>8, <1>9, FreshSessionSettles

LEMMA SaveFailsSettlesSession ==
    ASSUME SessionInv, NEW table, IsFiniteTable(table), ReachesData(table),
           NEW version, SaveFails(table, version)
    PROVE  SessionSettled'
<1>1. txns' = WithoutReversed(table) /\ UNCHANGED <<disk, curr>> /\ reversed' = <<>>
  BY DEF SaveFails
<1>2. DataFrom(txns', curr')
  BY <1>1, WithoutReversedIsDataFrom
<1>3. ReachesData(disk.txns)'
  BY <1>1 DEF SessionInv, ReachesData
<1>4. ReachesData(txns)' /\ RangesInSession'
  BY <1>1, <1>2 DEF DataFrom, ReachesData, RangesInSession
<1> QED BY <1>3, <1>4 DEF SessionSettled

(* A new session, found in an open table that keeps the file's live Txns:  *)
(* what else the file holds is reversed.                                   *)
LEMMA RestartSettlesSession ==
    ASSUME NEW table, IsFiniteTable(table), IsFiniteTable(disk.txns),
           LiveKept(disk.txns, table), UNCHANGED disk, txns' = table,
           curr' \in NewSessions(table), reversed' = <<>>
    PROVE  SessionSettled'
<1>1. AllBefore(table, curr') /\ curr'[2] = 0 /\ DataFrom(table, curr')
  BY NewSessionIsPast, NewSessionIsDataFrom DEF NewSessions
<1>2. ASSUME NEW i \in DOMAIN disk.txns
      PROVE  i[1] < curr'[1] \/ disk.txns[i].deleted
  <2>1. i \in TxnIds
    BY DEF IsFiniteTable, IsTable
  <2>2. CASE ~disk.txns[i].deleted
    <3>1. Before(i, curr')
      BY <1>1, <2>2 DEF LiveKept, AllBefore
    <3> QED BY <1>1, <2>1, <3>1 DEF TxnIds, Before
  <2> QED BY <2>2
<1>3. ReachesData(disk.txns)'
  BY <1>1, <1>2 DEF ReachesData
<1>4. ReachesData(txns)' /\ RangesInSession'
  BY <1>1 DEF DataFrom, ReachesData, RangesInSession
<1> QED BY <1>3, <1>4 DEF SessionSettled

(* Deleting the reversed Txns of the open table, and the redo stack.       *)
LEMMA DeleteReversedSettlesSession ==
    ASSUME SessionInv, NEW table, IsFiniteTable(table), ReachesData(table),
           UNCHANGED <<disk, curr>>, txns' = WithoutReversed(table), reversed' = <<>>
    PROVE  SessionSettled'
<1>1. DataFrom(txns', curr')
  BY WithoutReversedIsDataFrom
<1>2. ReachesData(disk.txns)'
  BY DEF SessionInv, ReachesData
<1>3. ReachesData(txns)' /\ RangesInSession'
  BY <1>1 DEF DataFrom, ReachesData, RangesInSession
<1> QED BY <1>2, <1>3 DEF SessionSettled

(* Editing, abandoning, saving, multi-Txn operations, restarting, crashes. *)
LEMMA SessionActionsKeepSession ==
    ASSUME TypeInv, AbandonsFailure, IdInv, SessionInv,
           \/ \E key \in Keys, value \in Values : Edit(key, value)
           \/ EditDdl \/ SaveChanges \/ AbandonChanges \/ BeginMultiTxnOperation
           \/ EndMultiTxnOperation \/ RestartTxnSession \/ Crash
    PROVE  SessionInv'
<1>1. SavedOK /\ IsFiniteTable(txns) /\ IsFiniteTable(disk.txns)
  BY DEF TypeInv, SavedOK, FileOK, DiskOK
<1>2. ReachesData(txns) /\ RangesInSession
  BY DEF SessionInv
<1>3. CASE \E key \in Keys, value \in Values : Edit(key, value)
  BY <1>3, UnchangedKeepsSessionInv DEF Edit
<1>4. CASE EditDdl
  BY <1>4, UnchangedKeepsSessionInv DEF EditDdl
<1>5. CASE SaveChanges
  <2>1. job.op = "None" /\ UNCHANGED job
    BY <1>5 DEF SaveChanges, ClientReady
  <2>2. CASE SaveUntracked(txns, parent, FALSE)
    BY <1>1, <1>2, <2>1, <2>2, SaveUntrackedSettlesSession, SessionSettledIsInv
  <2>3. CASE SaveTracked(txns, parent, FALSE)
    BY <1>1, <1>2, <2>1, <2>3, SaveTrackedSettlesSession, SessionSettledIsInv
  <2>4. CASE SaveFails(txns, parent)
    BY <1>1, <1>2, <2>1, <2>4, SaveFailsSettlesSession, SessionSettledIsInv
  <2>5. CASE SaveRefused
    BY <2>1, <2>5, UnchangedKeepsSessionInv DEF SaveRefused
  <2> QED BY <1>5, <2>2, <2>3, <2>4, <2>5 DEF SaveChanges
<1>6. CASE AbandonChanges
  BY <1>6, RollbackSettlesSession, SessionSettledIsInv DEF AbandonChanges, Rollback
<1>7. CASE BeginMultiTxnOperation
  BY <1>7, UnchangedKeepsSessionInv DEF BeginMultiTxnOperation
<1>8. CASE EndMultiTxnOperation
  BY <1>8, UnchangedKeepsSessionInv DEF EndMultiTxnOperation
<1>9. CASE RestartTxnSession
  <2>1. Settled /\ job.op = "None"
    BY <1>9, ReadyIsSettled DEF RestartTxnSession
  <2>2. SessionSettled'
    BY <1>1, <1>9, <2>1, RestartSettlesSession DEF Settled, RestartTxnSession
  <2> QED BY <1>9, <2>1, <2>2, SessionSettledIsInv DEF RestartTxnSession
<1>10. CASE Crash
  <2>1. LiveKept(disk.txns, disk.txns)
    BY DEF LiveKept
  <2>2. SessionSettled'
    BY <1>1, <1>10, <2>1, RestartSettlesSession DEF Crash, Rollback
  <2> QED BY <1>10, <2>2, SessionSettledIsInv DEF Crash, Idle
<1> QED BY <1>3, <1>4, <1>5, <1>6, <1>7, <1>8, <1>9, <1>10

(* Undo begins.                                                            *)
LEMMA ReverseRangeKeepsSession ==
    ASSUME TypeInv, SessionInv, NEW first, NEW cancel, ReverseRange(first, cancel)
    PROVE  SessionInv'
<1>1. txns' = txns \/ txns' = disk.txns
  BY DEF ReverseRange, AbandonIfChanged, Rollback
<1>2. UNCHANGED <<disk, curr, reversed>>
  BY DEF ReverseRange
<1>3. ReachesData(txns)' /\ ReachesData(disk.txns)' /\ RangesInSession'
  BY <1>1, <1>2 DEF SessionInv, ReachesData, RangesInSession
<1>4. job'.op = "Reverse" /\ job'.at = curr
  BY DEF ReverseRange
<1>5. ~Before(curr, curr)
  BY BeforeIsTotal DEF TypeInv, SessionOK
<1>6. ReverseInSession' /\ ReinstateInSession'
  BY <1>2, <1>4, <1>5 DEF ReverseInSession, ReinstateInSession
<1> QED BY <1>3, <1>6 DEF SessionInv

LEMMA StartOfUndoKeepsSession ==
    ASSUME TypeInv, SessionInv,
           \/ \E count \in 1..MaxTxns : ReverseTxns(count)
           \/ \E pos \in Positions : ReverseTo(pos) \/ CancelTo(pos)
           \/ ReverseAll \/ CancelNothing
    PROVE  SessionInv'
<1>1. CASE CancelNothing
  <2>1. IsFiniteTable(txns) /\ ReachesData(txns) /\ job'.op = "None"
    BY <1>1 DEF TypeInv, FileOK, SessionInv, CancelNothing, ClientReady
  <2> QED BY <1>1, <2>1, DeleteReversedSettlesSession, SessionSettledIsInv
          DEF CancelNothing
<1>2. CASE ~CancelNothing
  <2>1. \E first, cancel : ReverseRange(first, cancel)
    BY <1>2 DEF ReverseTxns, ReverseTo, CancelTo, ReverseAll
  <2> QED BY <2>1, ReverseRangeKeepsSession
<1> QED BY <1>1, <1>2

(* A row marked reversed comes no nearer.                                  *)
LEMMA SetReversedReachesData ==
    ASSUME IsFiniteTable(txns), ReachesData(txns), NEW id \in DOMAIN txns
    PROVE  ReachesData(SetDeleted(txns, id, TRUE))
<1> DEFINE new == SetDeleted(txns, id, TRUE)
<1>1. /\ DOMAIN new = DOMAIN txns /\ new[id].type = txns[id].type
      /\ new[id].deleted = TRUE
      /\ \A i \in DOMAIN txns : i # id => new[i] = txns[i]
  <2>1. txns[id] \in Rows /\ new[id] = [txns[id] EXCEPT !.deleted = TRUE]
    BY DEF SetDeleted, IsFiniteTable, IsTable
  <2>2. new[id].deleted = TRUE /\ new[id].type = txns[id].type
    BY <2>1 DEF Rows
  <2> QED BY <2>2 DEF SetDeleted
<1> HIDE DEF new
<1>2. ReachesData(new)
  BY <1>1 DEF ReachesData
<1> QED BY <1>2 DEF new

(* What undo reverses lies in the session, and the range it leaves does.   *)
LEMMA ReverseKeepsSession ==
    ASSUME TypeInv, IdInv, RecordInv("Whole"), SessionInv,
           ReverseStep \/ ReverseDone \/ ReverseFails
    PROVE  SessionInv'
<1>1. IsFiniteTable(txns) /\ IsFiniteTable(disk.txns) /\ curr \in TxnIds
  BY DEF TypeInv, FileOK, DiskOK, SessionOK
<1>2. job.op = "Reverse" /\ job.first \in TxnIds
  BY DEF TypeInv, JobOK, ReverseStep, ReverseDone, ReverseFails
<1>3. /\ job.at \in TxnIds /\ job.last = curr /\ Before(job.first, curr)
      /\ job.first[1] = curr[1] /\ ~Before(curr, job.at)
  BY <1>2 DEF IdInv, ReverseFreed, RecordInv, Reversing, SessionInv, ReverseInSession
<1>4. ReachesData(txns) /\ ReachesData(disk.txns) /\ RangesInSession
  BY DEF SessionInv
<1>5. CASE ReverseStep
  <2>1. PICK id \in IdsBefore(txns, job.at) :
            txns' = SetDeleted(txns, id, TRUE) /\ job' = [job EXCEPT !.at = id]
    BY <1>5 DEF ReverseStep
  <2>2. id \in DOMAIN txns /\ id \in TxnIds /\ Before(id, job.at)
    BY <1>1 DEF IdsBefore, IsFiniteTable, IsTable
  <2>3. UNCHANGED <<disk, curr, reversed>>
    BY <1>5 DEF ReverseStep
  <2>4. job'.op = "Reverse" /\ job'.at = id
    BY <1>2, <2>1 DEF TypeInv, JobOK
  <2>5. ~Before(curr, id)
    BY <1>1, <1>3, <2>2 DEF TxnIds, Before
  <2>6. ReachesData(txns')
    BY <1>1, <1>4, <2>1, <2>2, SetReversedReachesData
  <2>7. ReachesData(txns)' /\ ReachesData(disk.txns)' /\ RangesInSession'
    BY <1>4, <2>3, <2>6 DEF ReachesData, RangesInSession
  <2>8. ReverseInSession' /\ ReinstateInSession'
    BY <2>3, <2>4, <2>5 DEF ReverseInSession, ReinstateInSession
  <2> QED BY <2>7, <2>8 DEF SessionInv
<1>6. CASE ReverseDone
  <2>1. disk'.txns = txns /\ curr' = job.first /\ job'.op = "None"
    BY <1>6 DEF ReverseDone, Idle
  <2>2. curr[2] # 0
    BY <1>1, <1>2, <1>3 DEF TxnIds, Before
  <2>3. DataFrom(txns, curr)
    BY <1>4, <2>2 DEF ReachesData, DataFrom
  <2>4. DataFrom(txns, curr')
    BY <1>3, <2>1, <2>3 DEF DataFrom
  <2>5. CASE job.cancel
    <3>1. txns' = WithoutReversed(txns) /\ reversed' = <<>>
      BY <1>6, <2>5 DEF ReverseDone
    <3>2. DataFrom(txns', curr')
      <4>1. DataFrom(WithoutReversed(txns), curr)
        BY <1>1, <1>4, WithoutReversedIsDataFrom
      <4> QED BY <1>3, <2>1, <3>1, <4>1 DEF DataFrom
    <3> QED BY <2>1, <2>4, <3>1, <3>2, FreshSessionSettles, SessionSettledIsInv
  <2>6. CASE ~job.cancel
    <3> DEFINE range == [first |-> job.first, last |-> job.last]
    <3>1. txns' = txns /\ reversed' = Append(reversed, range)
      BY <1>6, <2>6 DEF ReverseDone
    <3>2. reversed \in Seq(Ranges) /\ range \in Ranges
      BY <1>1, <1>2, <1>3 DEF TypeInv, SessionOK, Ranges
    <3>3. /\ Len(reversed') = Len(reversed) + 1
          /\ \A n \in 1..Len(reversed) : reversed'[n] = reversed[n]
          /\ reversed'[Len(reversed) + 1] = range
      BY <3>1, <3>2, AppendProperties
    <3>4. Len(reversed) \in Nat
      BY <3>2, LenProperties
    <3>5. range.first[1] = curr'[1] /\ range.last[1] = curr'[1]
      BY <1>3, <2>1
    <3> HIDE DEF range
    <3>6. ASSUME NEW n \in 1..Len(reversed')
          PROVE  reversed'[n].first[1] = curr'[1] /\ reversed'[n].last[1] = curr'[1]
      <4>1. CASE n = Len(reversed) + 1
        BY <3>3, <3>5, <4>1
      <4>2. CASE n \in 1..Len(reversed)
        BY <1>3, <1>4, <2>1, <3>3, <4>2 DEF RangesInSession
      <4> QED BY <3>3, <3>4, <4>1, <4>2
    <3>7. SessionSettled'
      BY <2>1, <2>4, <3>1, <3>6 DEF SessionSettled, RangesInSession, DataFrom, ReachesData
    <3> QED BY <2>1, <3>7, SessionSettledIsInv
  <2> QED BY <2>5, <2>6
<1>7. CASE ReverseFails
  <2>1. UNCHANGED <<disk, curr>> /\ job'.op = "None"
    BY <1>7 DEF ReverseFails, Idle
  <2>2. CASE job.cancel
    <3>1. txns' = WithoutReversed(disk.txns) /\ reversed' = <<>>
      BY <1>7, <2>2 DEF ReverseFails
    <3> QED BY <1>1, <1>4, <2>1, <3>1, DeleteReversedSettlesSession, SessionSettledIsInv
  <2>3. CASE ~job.cancel
    <3>1. txns' = disk.txns /\ UNCHANGED reversed
      BY <1>7, <2>3 DEF ReverseFails
    <3> QED BY <2>1, <3>1, RollbackSettlesSession, SessionSettledIsInv
  <2> QED BY <2>2, <2>3
<1> QED BY <1>5, <1>6, <1>7

(* What redo reinstates lies in the session, and so does where it ends.    *)
LEMMA ReinstateKeepsSession ==
    ASSUME TypeInv, IdInv, RecordInv("Whole"), SessionInv,
           ReinstateTxn \/ ReinstateStep \/ ReinstateDone \/ ReinstateFails
    PROVE  SessionInv'
<1>1. IsFiniteTable(txns) /\ IsFiniteTable(disk.txns) /\ curr \in TxnIds
  BY DEF TypeInv, FileOK, DiskOK, SessionOK
<1>2. reversed \in Seq(Ranges) /\ Len(reversed) \in Nat
  BY LenProperties DEF TypeInv, SessionOK
<1>3. ReachesData(txns) /\ ReachesData(disk.txns) /\ RangesInSession
  BY DEF SessionInv
<1>4. CASE ReinstateTxn
  <2> DEFINE range == reversed[Len(reversed)]
  <2>1. /\ job' = [op |-> "Reinstate", at |-> range.first, first |-> range.first,
                   last |-> range.last, cancel |-> FALSE]
        /\ reversed # <<>> /\ UNCHANGED <<disk, curr, reversed>>
    BY <1>4 DEF ReinstateTxn
  <2>2. Len(reversed) \in 1..Len(reversed)
    BY <1>2, <2>1, EmptySeq
  <2>3. range.first[1] = curr[1] /\ range.last[1] = curr[1]
    BY <1>3, <2>2 DEF RangesInSession
  <2>4. range.first \in TxnIds
    <3>1. range \in Ranges
      BY <1>2, <2>2, ElementOfSeq
    <3> QED BY <3>1 DEF Ranges
  <2> HIDE DEF range
  <2>5. ~Before(range.first, range.first)
    BY <2>4, BeforeIsTotal
  <2>6. ReverseInSession' /\ ReinstateInSession'
    BY <2>1, <2>3, <2>5 DEF ReverseInSession, ReinstateInSession
  <2>7. txns' = txns \/ txns' = disk.txns
    BY <1>4 DEF ReinstateTxn, AbandonIfChanged, Rollback
  <2>8. ReachesData(txns)' /\ ReachesData(disk.txns)' /\ RangesInSession'
    BY <1>3, <2>1, <2>7 DEF ReachesData, RangesInSession
  <2> QED BY <2>6, <2>8 DEF SessionInv
<1>5. CASE ReinstateStep
  <2>1. /\ job.op = "Reinstate" /\ job.at \in DOMAIN txns
        /\ txns' = SetDeleted(txns, job.at, FALSE)
        /\ UNCHANGED <<disk, curr, reversed>>
    BY <1>5 DEF ReinstateStep
  <2>2. reversed # <<>>
    BY <2>1 DEF IdInv, ReinstateFreed
  <2>3. job.at \in TxnIds /\ job.first \in TxnIds
    BY <1>1, <2>1 DEF IsFiniteTable, IsTable, TypeInv, JobOK
  <2>4. job.at # NoTxn
    BY <2>3 DEF TxnIds, NoTxn
  <2>5. job.first[1] = curr[1] /\ job.last[1] = curr[1] /\ ~Before(job.at, job.first)
    BY <2>1, <2>4 DEF SessionInv, ReinstateInSession
  <2>6. \E id : /\ job' = [job EXCEPT !.at = id]
                /\ id = NoTxn \/ id \in IdsAfter(txns, job.at)
    BY <1>5 DEF ReinstateStep
  <2>7. PICK id : /\ job' = [job EXCEPT !.at = id]
                  /\ id = NoTxn \/ id \in IdsAfter(txns, job.at)
    BY <2>6
  <2>8. job'.op = "Reinstate" /\ job'.at = id /\ job'.first = job.first /\ job'.last = job.last
    BY <2>1, <2>7 DEF TypeInv, JobOK
  <2>9. id # NoTxn => ~Before(id, job.first)
    <3>1. SUFFICES ASSUME id # NoTxn PROVE ~Before(id, job.first)
      OBVIOUS
    <3>2. Before(job.at, id) /\ id \in TxnIds
      BY <1>1, <2>7, <3>1 DEF IdsAfter, IsFiniteTable, IsTable
    <3> QED BY <2>3, <2>5, <3>2 DEF TxnIds, Before
  <2>10. ReverseInSession' /\ ReinstateInSession'
    BY <2>1, <2>5, <2>8, <2>9 DEF ReverseInSession, ReinstateInSession
  <2>11. ReachesData(txns)'
    <3> DEFINE new == SetDeleted(txns, job.at, FALSE)
    <3>1. FALSE \in BOOLEAN
      OBVIOUS
    <3>2. /\ DOMAIN new = DOMAIN txns /\ new[job.at].type = txns[job.at].type
          /\ \A i \in DOMAIN txns : i # job.at => new[i] = txns[i]
      BY <1>1, <2>1, <3>1, SetDeletedEffect, ZenonT(30)
    <3> HIDE DEF new
    <3>3. txns' = new
      BY <2>1 DEF new
    <3> QED BY <1>3, <2>1, <2>2, <3>2, <3>3 DEF ReachesData
  <2>12. ReachesData(disk.txns)' /\ RangesInSession'
    BY <1>3, <2>1 DEF ReachesData, RangesInSession
  <2> QED BY <2>10, <2>11, <2>12 DEF SessionInv
<1>6. CASE ReinstateDone
  <2>1. /\ job.op = "Reinstate" /\ curr' = job.last /\ txns' = txns /\ disk'.txns = txns
        /\ reversed' = SubSeq(reversed, 1, Len(reversed) - 1) /\ job'.op = "None"
    BY <1>6, PersistKeepsLive DEF ReinstateDone, Idle
  <2>2. reversed # <<>>
    BY <2>1 DEF IdInv, ReinstateFreed
  <2>3. job.last[1] = curr[1]
    BY <2>1 DEF SessionInv, ReinstateInSession
  <2>4. DataFrom(txns, curr')
    BY <1>3, <2>1, <2>2, <2>3 DEF ReachesData, DataFrom
  <2>5. ReachesData(txns)' /\ ReachesData(disk.txns)'
    BY <2>1, <2>4 DEF DataFrom, ReachesData
  <2>6. IsStack(reversed, curr)
    BY DEF RecordInv
  <2>7. \A n \in 1..Len(reversed') : n \in 1..Len(reversed) /\ reversed'[n] = reversed[n]
    BY <1>2, <2>1, <2>2, <2>6, PoppedIsStack
  <2>8. RangesInSession'
    BY <1>3, <2>1, <2>3, <2>7 DEF RangesInSession
  <2> QED BY <2>1, <2>5, <2>8, SessionSettledIsInv DEF SessionSettled
<1>7. CASE ReinstateFails
  <2>1. txns' = disk.txns /\ UNCHANGED <<disk, curr, reversed>> /\ job'.op = "None"
    BY <1>7 DEF ReinstateFails, Rollback, Idle
  <2> QED BY <2>1, RollbackSettlesSession, SessionSettledIsInv
<1> QED BY <1>4, <1>5, <1>6, <1>7

(* Pushing and discarding.                                                 *)
LEMMA PushKeepsSession ==
    ASSUME TypeInv, SessionInv, PushNext
    PROVE  SessionInv'
<1>1. /\ SavedOK /\ IsFiniteTable(txns) /\ IsFiniteTable(disk.txns)
      /\ IsFiniteTable(WithoutReversed(txns))
  BY WithoutReversedIsTable DEF TypeInv, SavedOK, FileOK, DiskOK
<1>2. ReachesData(txns) /\ ReachesData(disk.txns) /\ RangesInSession
  BY DEF SessionInv
<1>3. CASE StartCreateChangeset
  <2>1. /\ txns' = WithoutReversed(txns) /\ curr' \in NewSessions(txns')
        /\ reversed' = <<>> /\ disk'.txns = txns' /\ job'.op = "None"
    BY <1>3, PersistKeepsLive DEF StartCreateChangeset, MayPush, ClientReady
  <2>2. DataFrom(txns', curr')
    BY <1>1, <2>1, NewSessionIsDataFrom
  <2> QED BY <2>1, <2>2, FreshSessionSettles, SessionSettledIsInv
<1>4. CASE StartCreateChangesetFails
  <2>1. /\ txns' = WithoutReversed(txns) /\ reversed' = <<>>
        /\ UNCHANGED <<disk, curr>> /\ job'.op = "None"
    BY <1>4 DEF StartCreateChangesetFails, MayPush, ClientReady
  <2> QED BY <1>1, <1>2, <2>1, DeleteReversedSettlesSession, SessionSettledIsInv
<1>5. CASE Upload
  BY <1>5, UnchangedKeepsSessionInv DEF Upload
<1>6. CASE FinishCreateChangeset
  <2> DEFINE table == From(txns, creating.end)
             version == creating.parent + 1
  <2>1. job.op = "None" /\ UNCHANGED job
    BY <1>6 DEF FinishCreateChangeset, ClientReady
  <2>2. IsFiniteTable(table) /\ ReachesData(table)
    BY <1>1, <1>2, FromIsTable, KeepReachesData DEF From
  <2>3. \/ SaveUntracked(table, version, TRUE) \/ SaveTracked(table, version, TRUE)
        \/ SaveFails(table, version)
    BY <1>6 DEF FinishCreateChangeset
  <2> HIDE DEF table, version
  <2>4. CASE SaveUntracked(table, version, TRUE)
    BY <1>2, <2>1, <2>2, <2>4, SaveUntrackedSettlesSession, SessionSettledIsInv
  <2>5. CASE SaveTracked(table, version, TRUE)
    BY <1>1, <2>1, <2>2, <2>5, SaveTrackedSettlesSession, SessionSettledIsInv
  <2>6. CASE SaveFails(table, version)
    BY <2>1, <2>2, <2>6, SaveFailsSettlesSession, SessionSettledIsInv
  <2> QED BY <2>3, <2>4, <2>5, <2>6
<1>7. CASE StopCreateChangeset
  BY <1>7, UnchangedKeepsSessionInv DEF StopCreateChangeset
<1> QED BY <1>3, <1>4, <1>5, <1>6, <1>7 DEF PushNext

LEMMA DiscardKeepsSession ==
    ASSUME TypeInv, SessionInv, DiscardNext
    PROVE  SessionInv'
<1>1. IsFiniteTable(txns) /\ IsFiniteTable(disk.txns)
  BY DEF TypeInv, FileOK, DiskOK
<1>2. ReachesData(txns) /\ ReachesData(disk.txns) /\ RangesInSession
  BY DEF SessionInv
<1>3. CASE DiscardLocalChanges
  <2>1. /\ txns' = WithoutReversed(disk.txns) /\ reversed' = <<>>
        /\ UNCHANGED <<disk, curr>> /\ job'.op = "Discard"
    BY <1>3 DEF DiscardLocalChanges, Idle
  <2> QED BY <1>1, <1>2, <2>1, DeleteReversedSettlesSession, SessionSettledIsInv
<1>4. CASE DiscardStep
  <2>1. PICK id \in IdsBefore(txns, job.at) :
            txns' = SetDeleted(txns, id, TRUE) /\ job' = [job EXCEPT !.at = id]
    BY <1>4 DEF DiscardStep
  <2>2. job.op = "Discard" /\ UNCHANGED <<disk, curr, reversed>>
    BY <1>4 DEF DiscardStep
  <2>3. job'.op = "Discard"
    BY <2>1, <2>2 DEF TypeInv, JobOK
  <2>4. ReachesData(txns')
    BY <1>1, <1>2, <2>1, SetReversedReachesData DEF IdsBefore
  <2>5. SessionSettled'
    BY <1>2, <2>2, <2>4 DEF SessionSettled, ReachesData, RangesInSession
  <2> QED BY <2>3, <2>5, SessionSettledIsInv
<1>5. CASE DiscardFails
  <2>1. txns' = disk.txns /\ UNCHANGED <<disk, curr, reversed>> /\ job'.op = "None"
    BY <1>5 DEF DiscardFails, Rollback, Idle
  <2> QED BY <2>1, RollbackSettlesSession, SessionSettledIsInv
<1>6. CASE DiscardReversed
  <2>1. UNCHANGED <<txns, curr, reversed>> /\ disk'.txns = txns /\ job'.op = "DeleteAll"
    BY <1>6, PersistKeepsLive DEF DiscardReversed, Idle
  <2>2. SessionSettled'
    BY <1>2, <2>1 DEF SessionSettled, ReachesData, RangesInSession
  <2> QED BY <2>1, <2>2, SessionSettledIsInv
<1>7. CASE DeleteAllTxns
  <2>1. txns' = EmptyMap /\ disk'.txns = txns' /\ reversed' = <<>> /\ job'.op = "None"
    BY <1>7, PersistKeepsLive DEF DeleteAllTxns, Idle
  <2>2. DataFrom(txns', curr')
    BY <2>1 DEF DataFrom, EmptyMap
  <2> QED BY <2>1, <2>2, FreshSessionSettles, SessionSettledIsInv
<1> QED BY <1>3, <1>4, <1>5, <1>6, <1>7 DEF DiscardNext

LEMMA SessionInvInit == Init => SessionInv
<1> SUFFICES ASSUME Init PROVE SessionInv
  OBVIOUS
<1>1. txns = EmptyMap /\ disk.txns = EmptyMap /\ reversed = <<>> /\ job.op = "None"
  BY DEF Init, Idle
<1> QED BY <1>1 DEF SessionInv, ReachesData, RangesInSession, ReverseInSession,
                    ReinstateInSession, EmptyMap

LEMMA SessionInvStep ==
    AbandonsFailure /\ TypeInv /\ IdInv /\ RecordInv("Whole") /\ SessionInv /\ [Next]_vars
        => SessionInv'
<1> SUFFICES ASSUME AbandonsFailure, TypeInv, IdInv, RecordInv("Whole"), SessionInv, [Next]_vars
             PROVE  SessionInv'
  OBVIOUS
<1>1. CASE \/ \E key \in Keys, value \in Values : Edit(key, value)
           \/ EditDdl \/ SaveChanges \/ AbandonChanges \/ BeginMultiTxnOperation
           \/ EndMultiTxnOperation \/ RestartTxnSession \/ Crash
  BY <1>1, SessionActionsKeepSession
<1>2. CASE UndoNext
  BY <1>2, StartOfUndoKeepsSession, ReverseKeepsSession, ReinstateKeepsSession DEF UndoNext
<1>3. CASE PushNext
  BY <1>3, PushKeepsSession
<1>4. CASE DiscardNext
  BY <1>4, DiscardKeepsSession
<1>5. CASE UNCHANGED vars
  BY <1>5, UnchangedKeepsSessionInv
<1> QED BY <1>1, <1>2, <1>3, <1>4, <1>5 DEF Next

(* A Txn of the present session is one of data while undo or redo runs.    *)
LEMMA ReachedIsData ==
    ASSUME NEW table, ReachesData(table), curr[2] # 0 \/ reversed # <<>>,
           NEW id \in DOMAIN table, id \in TxnIds, curr \in TxnIds, id[1] = curr[1]
    PROVE  table[id].type = "Data"
<1>1. ~(id[1] < curr[1])
  BY DEF TxnIds
<1> QED BY <1>1 DEF ReachesData

(* A step of undo or redo reverses or reinstates one Txn of the session.   *)
UndoInSession ==
    job.op \in {"Reverse", "Reinstate"} /\ job'.op = job.op =>
        \A id \in DOMAIN txns :
            txns'[id].deleted # txns[id].deleted =>
                txns[id].type = "Data" /\ id[1] = curr[1]

LEMMA ReverseStepInSession ==
    ASSUME TypeInv, IdInv, RecordInv("Whole"), SessionInv, ReverseStep,
           NEW id \in DOMAIN txns, txns'[id].deleted # txns[id].deleted
    PROVE  txns[id].type = "Data" /\ id[1] = curr[1]
<1>1. IsFiniteTable(txns) /\ curr \in TxnIds /\ job.op = "Reverse" /\ job.first \in TxnIds
  BY DEF TypeInv, FileOK, SessionOK, JobOK, ReverseStep
<1>2. /\ job.at \in TxnIds /\ Before(job.first, curr)
      /\ job.first[1] = curr[1] /\ ~Before(curr, job.at)
  BY <1>1 DEF IdInv, ReverseFreed, RecordInv, Reversing, SessionInv, ReverseInSession
<1>3. PICK row \in IdsBefore(txns, job.at) :
          InRange(row) /\ txns' = SetDeleted(txns, row, TRUE)
  BY DEF ReverseStep
<1>4. row \in DOMAIN txns /\ Before(row, job.at)
  BY DEF IdsBefore
<1>5. id = row
  BY <1>1, <1>3, <1>4 DEF SetDeleted
<1>6. id \in TxnIds
  BY <1>1 DEF IsFiniteTable, IsTable
<1>7. ~Before(id, job.first) /\ Before(id, job.at)
  BY <1>3, <1>4, <1>5 DEF InRange
<1>8. id[1] = curr[1]
  BY <1>1, <1>2, <1>6, <1>7 DEF TxnIds, Before
<1>9. curr[2] # 0
  BY <1>1, <1>2 DEF TxnIds, Before
<1> QED BY <1>1, <1>6, <1>8, <1>9, ReachedIsData DEF SessionInv

LEMMA ReinstateStepInSession ==
    ASSUME TypeInv, IdInv, SessionInv, ReinstateStep,
           NEW id \in DOMAIN txns, txns'[id].deleted # txns[id].deleted
    PROVE  txns[id].type = "Data" /\ id[1] = curr[1]
<1>1. /\ IsFiniteTable(txns) /\ curr \in TxnIds /\ job.op = "Reinstate"
      /\ job.first \in TxnIds /\ job.last \in TxnIds
  BY DEF TypeInv, FileOK, SessionOK, JobOK, ReinstateStep
<1>2. job.at \in DOMAIN txns /\ txns' = SetDeleted(txns, job.at, FALSE) /\ MoreToReinstate
  BY DEF ReinstateStep
<1>3. job.at = id
  BY <1>1, <1>2 DEF SetDeleted
<1>4. id \in TxnIds /\ id # NoTxn
  BY <1>1 DEF IsFiniteTable, IsTable, TxnIds, NoTxn
<1>5. /\ job.first[1] = curr[1] /\ job.last[1] = curr[1]
      /\ ~Before(id, job.first) /\ reversed # <<>>
  BY <1>1, <1>3, <1>4 DEF SessionInv, ReinstateInSession, IdInv, ReinstateFreed
<1>6. PICK other \in IdsBefore(txns, job.last) : ~Before(other, id)
  BY <1>2, <1>3 DEF MoreToReinstate
<1>7. other \in TxnIds /\ Before(other, job.last)
  BY <1>1 DEF IdsBefore, IsFiniteTable, IsTable
<1>8. id[1] = curr[1]
  BY <1>1, <1>4, <1>5, <1>6, <1>7 DEF TxnIds, Before
<1> QED BY <1>1, <1>4, <1>5, <1>8, ReachedIsData DEF SessionInv

LEMMA StepStaysInSession ==
    TypeInv /\ IdInv /\ RecordInv("Whole") /\ SessionInv /\ [Next]_vars => [UndoInSession]_vars
<1> SUFFICES ASSUME TypeInv, IdInv, RecordInv("Whole"), SessionInv, Next,
                    job.op \in {"Reverse", "Reinstate"}, job'.op = job.op,
                    NEW id \in DOMAIN txns, txns'[id].deleted # txns[id].deleted
             PROVE  txns[id].type = "Data" /\ id[1] = curr[1]
  BY DEF UndoInSession
<1>1. CASE ReverseStep
  BY <1>1, ReverseStepInSession
<1>2. CASE ReinstateStep
  BY <1>2, ReinstateStepInSession
<1>3. ASSUME ~ReverseStep, ~ReinstateStep PROVE FALSE
  <2>1. ~ClientReady
    BY DEF ClientReady
  <2>2. ~\E key \in Keys, value \in Values : Edit(key, value)
    BY <2>1 DEF Edit, MayEdit
  <2>3. ~(\/ EditDdl \/ SaveChanges \/ AbandonChanges \/ BeginMultiTxnOperation
          \/ EndMultiTxnOperation \/ RestartTxnSession)
    BY <2>1 DEF EditDdl, MayEdit, SaveChanges, AbandonChanges, BeginMultiTxnOperation,
                EndMultiTxnOperation, RestartTxnSession
  <2>4. ~\E first, cancel : ReverseRange(first, cancel)
    BY <2>1 DEF ReverseRange
  <2>5. ~(\/ \E count \in 1..MaxTxns : ReverseTxns(count)
          \/ \E pos \in Positions : ReverseTo(pos) \/ CancelTo(pos)
          \/ ReverseAll \/ CancelNothing)
    BY <2>1, <2>4 DEF ReverseTxns, ReverseTo, CancelTo, ReverseAll, CancelNothing
  <2>6. ~(ReverseDone \/ ReverseFails \/ ReinstateTxn \/ ReinstateDone \/ ReinstateFails)
    BY <2>1 DEF ReverseDone, ReverseFails, ReinstateTxn, ReinstateDone, ReinstateFails, Idle
  <2>7. ~PushNext
    BY <2>1 DEF PushNext, StartCreateChangeset, StartCreateChangesetFails, MayPush,
                Upload, FinishCreateChangeset, StopCreateChangeset
  <2>8. ~DiscardNext
    BY <2>1 DEF DiscardNext, DiscardLocalChanges, DiscardStep, DiscardFails,
                DiscardReversed, DeleteAllTxns
  <2>9. ~Crash
    BY DEF Crash, Idle
  <2> QED BY <1>3, <2>2, <2>3, <2>5, <2>6, <2>7, <2>8, <2>9 DEF Next, UndoNext
<1> QED BY <1>1, <1>2, <1>3

(* Undo and redo touch only data Txns of the current session: schema and   *)
(* DDL Txns, those before them, those packaged for a push and those of     *)
(* earlier sessions are out of the reach of ReverseTxnRange and            *)
(* ReinstateTxn.                                                           *)
THEOREM UndoAlwaysStaysInSession ==
    ASSUME Careful
    PROVE  Spec => UndoStaysInSession
<1>1. Init => SessionInv
  BY SessionInvInit
<1>2. TypeInv /\ IdInv /\ RecordInv("Whole") /\ SessionInv /\ [Next]_vars => SessionInv'
  BY SessionInvStep DEF Careful
<1>3. Spec => [](TypeInv /\ IdInv /\ RecordInv("Whole"))
  BY RecordIsInvariant, PTL
<1>4. Spec => [][UndoInSession]_vars
  BY <1>1, <1>2, <1>3, StepStaysInSession, PTL DEF Spec
<1> QED BY <1>4 DEF UndoStaysInSession, UndoInSession

-------------------------------------------------------------------------------
(***************************************************************************)
(* The rest of the module: TxnManager implements UndoHistory.  The states  *)
(* of a session are one line; undo and redo cut it at another place, a     *)
(* save makes it longer, and what a call deletes or marks as reversed      *)
(* changes none of them.                                                   *)
(***************************************************************************)

(***************************************************************************)
(* A line of states and what lies on it before one point, and between two. *)
(***************************************************************************)
UpTo(line, n) == [i \in 1..n |-> line[i - 1]]
Between(line, a, b) == [i \in 1..(b - a) |-> line[a + i]]

(* A function on the first naturals is a sequence.                         *)
LEMMA FunctionIsSeq ==
    ASSUME NEW S, NEW n \in Nat, NEW f \in [1..n -> S]
    PROVE  f \in Seq(S) /\ Len(f) = n
  OBVIOUS

(* The states of a line, as sequences.                                     *)
LEMMA UpToIsSeq ==
    ASSUME NEW S, NEW line \in [Nat -> S], NEW b \in Nat
    PROVE  /\ UpTo(line, b) \in Seq(S) /\ Len(UpTo(line, b)) = b
           /\ \A i \in 1..b : UpTo(line, b)[i] = line[i - 1]
<1>1. UpTo(line, b) \in [1..b -> S]
  BY DEF UpTo
<1>2. UpTo(line, b) \in Seq(S) /\ Len(UpTo(line, b)) = b
  BY <1>1, FunctionIsSeq
<1> QED BY <1>2 DEF UpTo

LEMMA BetweenIsSeq ==
    ASSUME NEW S, NEW line \in [Nat -> S], NEW a \in Nat, NEW b \in Nat, a < b
    PROVE  /\ Between(line, a, b) \in Seq(S) /\ Len(Between(line, a, b)) = b - a
           /\ \A i \in 1..(b - a) : Between(line, a, b)[i] = line[a + i]
<1>1. b - a \in Nat /\ Between(line, a, b) \in [1..(b - a) -> S]
  BY DEF Between
<1>2. Between(line, a, b) \in Seq(S) /\ Len(Between(line, a, b)) = b - a
  BY <1>1, FunctionIsSeq
<1> QED BY <1>2 DEF Between

(* Going back from b to a leaves the states after a.                       *)
LEMMA UndoOnLine ==
    ASSUME NEW S, NEW line \in [Nat -> S], NEW a \in Nat, NEW b \in Nat, a < b
    PROVE  LET past == UpTo(line, b)
           IN /\ b - a \in 1..Len(past)
              /\ past[Len(past) - (b - a) + 1] = line[a]
              /\ SubSeq(past, 1, Len(past) - (b - a)) = UpTo(line, a)
              /\ Append(SubSeq(past, Len(past) - (b - a) + 2, Len(past)), line[b])
                     = Between(line, a, b)
<1> DEFINE past == UpTo(line, b)
           left == SubSeq(past, a + 2, b)
<1>1. /\ past \in Seq(S) /\ Len(past) = b /\ \A i \in 1..b : past[i] = line[i - 1]
      /\ UpTo(line, a) \in Seq(S) /\ Len(UpTo(line, a)) = a
      /\ \A i \in 1..a : UpTo(line, a)[i] = line[i - 1]
  BY UpToIsSeq
<1>7. /\ Between(line, a, b) \in Seq(S) /\ Len(Between(line, a, b)) = b - a
      /\ \A i \in 1..(b - a) : Between(line, a, b)[i] = line[a + i]
  BY BetweenIsSeq, ZenonT(30)
<1> HIDE DEF past
<1>2. b - a \in 1..b /\ b - (b - a) = a
  OBVIOUS
<1>3. past[a + 1] = line[a]
  BY <1>1
<1>4. \A i \in 1..b : past[i] \in S
  BY <1>1
<1>5. SubSeq(past, 1, a) = UpTo(line, a)
  <2>1. /\ SubSeq(past, 1, a) \in Seq(S) /\ Len(SubSeq(past, 1, a)) = a
        /\ \A i \in 1..a : SubSeq(past, 1, a)[i] = past[i]
    BY <1>4, SubSeqProperties
  <2> HIDE DEF UpTo
  <2> QED BY <1>1, <2>1, SeqEqual
<1>6. Append(left, line[b]) = Between(line, a, b)
  <2>1. /\ left \in Seq(S) /\ Len(left) = b - a - 1
        /\ \A i \in 1..(b - a - 1) : left[i] = past[a + 1 + i]
    BY <1>4, SubSeqProperties
  <2> HIDE DEF left
  <2>2. line[b] \in S
    OBVIOUS
  <2>3. /\ Append(left, line[b]) \in Seq(S) /\ Len(Append(left, line[b])) = b - a
        /\ \A i \in 1..(b - a - 1) : Append(left, line[b])[i] = left[i]
        /\ Append(left, line[b])[b - a] = line[b]
    BY <2>1, <2>2, AppendProperties
  <2>4. \A i \in 1..(b - a) : Append(left, line[b])[i] = line[a + i]
    <3>1. \A i \in 1..(b - a - 1) : left[i] = line[a + i]
      BY <1>1, <2>1
    <3> QED BY <2>3, <3>1
  <2> DEFINE more == Append(left, line[b])
  <2>5. /\ more \in Seq(S) /\ Len(more) = Len(Between(line, a, b))
        /\ \A i \in 1..Len(more) : more[i] = Between(line, a, b)[i]
    BY <1>7, <2>3, <2>4
  <2> HIDE DEF more, Between
  <2>6. more = Between(line, a, b)
    BY <1>7, <2>5, SeqEqual
  <2> QED BY <2>6 DEF more
<1> QED BY <1>1, <1>2, <1>3, <1>5, <1>6 DEF past

(* Going forward from a to b again.                                        *)
LEMMA RedoOnLine ==
    ASSUME NEW S, NEW line \in [Nat -> S], NEW a \in Nat, NEW b \in Nat, a < b
    PROVE  LET top == Between(line, a, b)
           IN /\ top[Len(top)] = line[b]
              /\ Append(UpTo(line, a), line[a]) \o SubSeq(top, 1, Len(top) - 1)
                     = UpTo(line, b)
<1> DEFINE top == Between(line, a, b)
           start == Append(UpTo(line, a), line[a])
           rest == SubSeq(top, 1, b - a - 1)
<1>9. /\ top \in Seq(S) /\ Len(top) = b - a
      /\ \A i \in 1..(b - a) : top[i] = line[a + i]
  BY BetweenIsSeq
<1>1. /\ UpTo(line, a) \in Seq(S) /\ Len(UpTo(line, a)) = a
      /\ \A i \in 1..a : UpTo(line, a)[i] = line[i - 1]
      /\ UpTo(line, b) \in Seq(S) /\ Len(UpTo(line, b)) = b
      /\ \A i \in 1..b : UpTo(line, b)[i] = line[i - 1]
  BY UpToIsSeq
<1>2. line[a] \in S
  OBVIOUS
<1>3. /\ start \in Seq(S) /\ Len(start) = a + 1
      /\ \A i \in 1..(a + 1) : start[i] = line[i - 1]
  <2> HIDE DEF UpTo
  <2> QED BY <1>1, <1>2, AppendProperties
<1> HIDE DEF top, start
<1>4. /\ rest \in Seq(S) /\ Len(rest) = b - a - 1
      /\ \A i \in 1..(b - a - 1) : rest[i] = top[i]
  <2>1. \A i \in 1..(b - a - 1) : top[i] \in S
    BY <1>9
  <2> QED BY <2>1, SubSeqProperties
<1> HIDE DEF rest
<1>10. (a + 1) + (b - a - 1) = b
  OBVIOUS
<1>5. /\ start \o rest \in Seq(S) /\ Len(start \o rest) = b
      /\ \A i \in 1..b : (start \o rest)[i] = IF i <= a + 1 THEN start[i] ELSE rest[i - (a + 1)]
  <2>1. start \in Seq(S) /\ rest \in Seq(S)
    BY <1>3, <1>4
  <2>2. /\ start \o rest \in Seq(S) /\ Len(start \o rest) = Len(start) + Len(rest)
        /\ \A i \in 1..(Len(start) + Len(rest)) :
              (start \o rest)[i] = IF i <= Len(start) THEN start[i] ELSE rest[i - Len(start)]
    BY <2>1, ConcatProperties
  <2>3. Len(start) + Len(rest) = b /\ Len(start) = a + 1
    BY <1>3, <1>4, <1>10
  <2> QED BY <2>2, <2>3
<1>6. \A i \in 1..b : (start \o rest)[i] = line[i - 1]
  <2>1. ASSUME NEW i \in 1..b PROVE (start \o rest)[i] = line[i - 1]
    <3>1. CASE i <= a + 1
      BY <1>3, <1>5, <3>1
    <3>2. CASE ~(i <= a + 1)
      <4>1. i - (a + 1) \in 1..(b - a - 1) /\ i - (a + 1) \in 1..(b - a)
        BY <3>2
      <4>2. a + (i - (a + 1)) = i - 1
        OBVIOUS
      <4> QED BY <1>9, <1>4, <1>5, <3>2, <4>1, <4>2
    <3> QED BY <3>1, <3>2
  <2> QED BY <2>1
<1>7. start \o rest = UpTo(line, b)
  <2> HIDE DEF UpTo
  <2> QED BY <1>1, <1>5, <1>6, SeqEqual
<1>8. top[b - a] = line[b]
  <2>1. b - a \in 1..(b - a) /\ a + (b - a) = b
    OBVIOUS
  <2> QED BY <1>9, <2>1
<1> QED BY <1>9, <1>7, <1>8 DEF top, start, rest

(* One step further.                                                       *)
LEMMA SaveOnLine ==
    ASSUME NEW S, NEW line \in [Nat -> S], NEW a \in Nat
    PROVE  /\ Append(UpTo(line, a), line[a]) = UpTo(line, a + 1)
           /\ UpTo(line, 0) = <<>> /\ UpTo(line, 1) = <<line[0]>>
<1>6. a + 1 \in Nat
  OBVIOUS
<1>1. /\ UpTo(line, a) \in Seq(S) /\ Len(UpTo(line, a)) = a
      /\ \A i \in 1..a : UpTo(line, a)[i] = line[i - 1]
      /\ UpTo(line, a + 1) \in Seq(S) /\ Len(UpTo(line, a + 1)) = a + 1
      /\ \A i \in 1..(a + 1) : UpTo(line, a + 1)[i] = line[i - 1]
  BY <1>6, UpToIsSeq
<1>2. line[a] \in S /\ line[0] \in S
  OBVIOUS
<1>3. Append(UpTo(line, a), line[a]) = UpTo(line, a + 1)
  <2> DEFINE more == Append(UpTo(line, a), line[a])
  <2> HIDE DEF UpTo
  <2>1. /\ more \in Seq(S) /\ Len(more) = a + 1
        /\ \A i \in 1..(a + 1) : more[i] = line[i - 1]
    BY <1>1, <1>2, AppendProperties
  <2> HIDE DEF more
  <2>2. more = UpTo(line, a + 1)
    BY <1>1, <2>1, SeqEqual
  <2> QED BY <2>2 DEF more
<1>4. UpTo(line, 0) = <<>>
  BY DEF UpTo
<1>5. UpTo(line, 1) = <<line[0]>>
  BY DEF UpTo
<1> QED BY <1>3, <1>4, <1>5

-------------------------------------------------------------------------------
(***************************************************************************)
(* The file and the open transaction, as far as undo and redo can see.     *)
(***************************************************************************)

(* The open table leads, on the states of the session that undo and redo   *)
(* can reach, to what the file leads to: it differs from the file only by  *)
(* the deletion of reversed Txns and, during undo or redo, by the marks.   *)
Follows(table, base) ==
    \A k \in Nat :
        reversed # <<>> \/ (curr[2] # 0 /\ k <= curr[2]) =>
            StateAt(table, base, <<curr[1], k>>)
                = StateAt(disk.txns, hub[disk.parent], <<curr[1], k>>)

SameLine ==
    ~Failed /\ job.op \in {"None", "Reverse", "Reinstate"} => Follows(txns, hub[parent])

(* What is not in the file is what the session tracks.                     *)
OnlyEdits == job.op = "None" /\ ~Failed => BeforeEdits = disk.db

(* Every range on the redo stack has a Txn.                                *)
RangesAhead == \A n \in 1..Len(reversed) : Before(reversed[n].first, reversed[n].last)

HistoryInv == SameLine /\ OnlyEdits /\ RangesAhead

(* After a COMMIT or a ROLLBACK the file holds everything.                 *)
LEMMA CommittedIsInv ==
    ASSUME TypeInv', disk'.db = db', disk'.txns = txns', disk'.parent = parent',
           DOMAIN tracked' = {}, RangesAhead'
    PROVE  HistoryInv'
<1>1. BeforeEdits' = db'
  BY NothingTrackedNext
<1>2. OnlyEdits' /\ SameLine'
  BY <1>1 DEF OnlyEdits, SameLine, Follows
<1> QED BY <1>2 DEF HistoryInv

(* So it does after a ROLLBACK that leaves the session alone.              *)
LEMMA RollbackIsInv ==
    ASSUME TypeInv', RangesAhead, Rollback, UNCHANGED <<disk, reversed>>
    PROVE  HistoryInv'
<1>1. /\ disk'.db = db' /\ disk'.txns = txns' /\ disk'.parent = parent'
      /\ DOMAIN tracked' = {} /\ RangesAhead'
  BY EmptyMapIsEmpty DEF Rollback, RangesAhead
<1> QED BY <1>1, CommittedIsInv

(* Edits and calls that leave the table, the file and the session alone.   *)
LEMMA UnchangedKeepsHistory ==
    ASSUME HistoryInv, Failed' = Failed, BeforeEdits' = BeforeEdits \/ job.op # "None",
           UNCHANGED <<txns, parent, disk, curr, reversed, job, hub>>
    PROVE  HistoryInv'
<1>1. SameLine' /\ RangesAhead'
  BY DEF HistoryInv, SameLine, Follows, RangesAhead
<1>2. OnlyEdits'
  BY DEF HistoryInv, OnlyEdits
<1> QED BY <1>1, <1>2 DEF HistoryInv

(* A new session has nothing to undo or redo.                              *)
LEMMA NewSessionKeepsHistory ==
    ASSUME HistoryInv, job.op = "None", curr'[2] = 0, reversed' = <<>>,
           UNCHANGED <<db, tracked, txns, parent, disk, lastSave, job, hub>>
    PROVE  HistoryInv'
<1>1. SameLine'
  BY DEF SameLine, Follows
<1>2. RangesAhead'
  BY DEF RangesAhead
<1>3. BeforeEdits' = BeforeEdits
  BY DEF BeforeEdits, Original
<1>4. OnlyEdits'
  BY <1>3 DEF HistoryInv, OnlyEdits, Failed
<1> QED BY <1>1, <1>2, <1>4 DEF HistoryInv

(* Deleting the reversed Txns changes no state up to curr.                 *)
LEMMA DeletingReversedFollows ==
    ASSUME NEW table, IsFiniteTable(table), NEW base, curr \in TxnIds,
           curr[2] # 0 => CutAt(table, curr), NEW k \in Nat, curr[2] # 0, k <= curr[2]
    PROVE  StateAt(WithoutReversed(table), base, <<curr[1], k>>)
               = StateAt(table, base, <<curr[1], k>>)
<1> DEFINE at == <<curr[1], k>>
<1>1. ASSUME NEW i \in DOMAIN table, Before(i, at) PROVE ~table[i].deleted
  <2>1. i \in TxnIds
    BY DEF IsFiniteTable, IsTable
  <2>2. Before(i, curr)
    BY <1>1, <2>1 DEF Before, TxnIds
  <2> QED BY <2>2 DEF CutAt
<1> HIDE DEF at
<1>2. StateAt(WithoutReversed(table), base, at) = StateAt(table, base, at)
  BY <1>1, DeletingReversedAgrees
<1> QED BY <1>2 DEF at

(* Editing, saving, abandoning, multi-Txn operations, restarting the       *)
(* session.                                                                *)
LEMMA EditKeepsHistory ==
    ASSUME TypeInv, HistoryInv, NEW key \in Keys, NEW value \in Values, Edit(key, value)
    PROVE  HistoryInv'
<1>1. /\ db' = [db EXCEPT ![key] = value] /\ db \in States
      /\ tracked' = [k \in DOMAIN tracked \cup {key} |->
                        IF k \in DOMAIN tracked THEN tracked[k] ELSE db[k]]
  BY DEF Edit, TypeInv, FileOK
<1>2. \A k \in Keys : (IF k \in DOMAIN tracked' THEN tracked'[k] ELSE db'[k])
                         = IF k \in DOMAIN tracked THEN tracked[k] ELSE db[k]
  BY <1>1 DEF States
<1>3. BeforeEdits' = BeforeEdits
  BY <1>2 DEF BeforeEdits, Original
<1> QED BY <1>3, UnchangedKeepsHistory DEF Edit, Failed

LEMMA SaveKeepsHistory ==
    ASSUME TypeInv', RangesAhead, NEW table, NEW version, NEW restart,
           \/ SaveUntracked(table, version, restart) \/ SaveTracked(table, version, restart)
           \/ SaveFails(table, version)
    PROVE  HistoryInv'
<1>1. CASE SaveFails(table, version)
  BY <1>1 DEF SaveFails, Failed, HistoryInv, SameLine, OnlyEdits, RangesAhead
<1>2. CASE SaveUntracked(table, version, restart)
  <2>1. Persist /\ DOMAIN tracked' = {}
    BY <1>2, EmptyMapIsEmpty DEF SaveUntracked
  <2>2. reversed' = reversed \/ reversed' = <<>>
    BY <1>2 DEF SaveUntracked, SettleSession
  <2>3. RangesAhead'
    BY <2>2 DEF RangesAhead
  <2> QED BY <2>1, <2>3, CommittedIsInv DEF Persist
<1>3. CASE SaveTracked(table, version, restart)
  <2>1. Persist /\ DOMAIN tracked' = {}
    BY <1>3, EmptyMapIsEmpty DEF SaveTracked
  <2>2. reversed' = <<>>
    BY <1>3 DEF SaveTracked, SettleSession
  <2>3. RangesAhead'
    BY <2>2 DEF RangesAhead
  <2> QED BY <2>1, <2>3, CommittedIsInv DEF Persist
<1> QED BY <1>1, <1>2, <1>3

LEMMA SessionActionsKeepHistory ==
    ASSUME TypeInv, TypeInv', AbandonsFailure, HistoryInv,
           \/ \E key \in Keys, value \in Values : Edit(key, value)
           \/ EditDdl \/ SaveChanges \/ AbandonChanges
           \/ BeginMultiTxnOperation \/ EndMultiTxnOperation \/ RestartTxnSession
           \/ Crash
    PROVE  HistoryInv'
<1>1. CASE \E key \in Keys, value \in Values : Edit(key, value)
  BY <1>1, EditKeepsHistory
<1>2. CASE EditDdl
  BY <1>2, UnchangedKeepsHistory DEF EditDdl, BeforeEdits, Original, Failed
<1>3. CASE AbandonChanges
  BY <1>3, RollbackIsInv DEF AbandonChanges, HistoryInv
<1>4. CASE BeginMultiTxnOperation
  BY <1>4, UnchangedKeepsHistory DEF BeginMultiTxnOperation, BeforeEdits, Original, Failed
<1>5. CASE EndMultiTxnOperation
  BY <1>5, UnchangedKeepsHistory DEF EndMultiTxnOperation, BeforeEdits, Original, Failed
<1>6. CASE RestartTxnSession
  <2>1. curr'[2] = 0
    BY <1>6, NewSessionIsStart DEF RestartTxnSession
  <2>2. /\ job.op = "None" /\ reversed' = <<>>
        /\ UNCHANGED <<db, tracked, txns, parent, disk, lastSave, job, hub>>
    BY <1>6 DEF RestartTxnSession, ClientReady, fileVars, editVars
  <2> QED BY <2>1, <2>2, NewSessionKeepsHistory
<1>7. CASE Crash
  <2>1. reversed' = <<>> /\ Rollback /\ DOMAIN tracked' = {} /\ disk' = disk
    BY <1>7, EmptyMapIsEmpty DEF Crash, Rollback
  <2>2. RangesAhead'
    BY <2>1 DEF RangesAhead
  <2> QED BY <2>1, <2>2, CommittedIsInv DEF Rollback
<1>8. CASE SaveChanges
  <2>1. CASE SaveRefused
    <3>1. Failed' = Failed
      BY <1>8, <2>1 DEF SaveChanges, SaveRefused, ClientReady, AbandonsFailure, Failed
    <3>2. BeforeEdits' = BeforeEdits
      BY <2>1 DEF SaveRefused, BeforeEdits, Original, fileVars
    <3> QED BY <1>8, <2>1, <3>1, <3>2, UnchangedKeepsHistory
        DEF SaveChanges, SaveRefused, fileVars, txnVars
  <2>2. CASE ~SaveRefused
    BY <1>8, <2>2, SaveKeepsHistory DEF SaveChanges, HistoryInv
  <2> QED BY <2>1, <2>2
<1> QED BY <1>1, <1>2, <1>3, <1>4, <1>5, <1>6, <1>7, <1>8

(* Undo and redo begin by abandoning the edits.                            *)
LEMMA BeginKeepsHistory ==
    ASSUME HistoryInv, job.op = "None", ~Failed, job'.op # "None", AbandonIfChanged,
           UNCHANGED <<disk, curr, reversed, hub>>
    PROVE  HistoryInv'
<1>1. \/ UNCHANGED fileVars
      \/ txns' = disk.txns /\ parent' = disk.parent
  BY DEF AbandonIfChanged, Rollback
<1>2. SameLine'
  <2>1. CASE UNCHANGED fileVars
    BY <2>1 DEF HistoryInv, SameLine, Follows, fileVars
  <2>2. CASE txns' = disk.txns /\ parent' = disk.parent
    BY <2>2 DEF SameLine, Follows
  <2> QED BY <1>1, <2>1, <2>2
<1>3. OnlyEdits' /\ RangesAhead'
  BY DEF HistoryInv, OnlyEdits, RangesAhead
<1> QED BY <1>2, <1>3 DEF HistoryInv

(* Deleting the reversed Txns from the open table.                         *)
LEMMA DeleteReversedKeepsHistory ==
    ASSUME TypeInv, HistoryInv, Rest("Whole"), job.op = "None", ~Failed,
           txns' = WithoutReversed(txns), reversed' = <<>>,
           UNCHANGED <<db, parent, disk, curr, editVars, job, hub>>
    PROVE  HistoryInv'
<1>1. IsFiniteTable(txns) /\ curr \in TxnIds
  BY DEF TypeInv, FileOK, SessionOK
<1>2. curr[2] # 0 => CutAt(txns, curr)
  BY DEF Rest, Sound
<1>3. Follows(txns, hub[parent])
  BY DEF HistoryInv, SameLine
<1>4. SameLine'
  BY <1>1, <1>2, <1>3, DeletingReversedFollows DEF SameLine, Follows
<1>5. BeforeEdits' = BeforeEdits
  BY DEF BeforeEdits, Original, editVars
<1>6. OnlyEdits' /\ RangesAhead'
  BY <1>5 DEF HistoryInv, OnlyEdits, RangesAhead
<1> QED BY <1>4, <1>6 DEF HistoryInv

(* Marking a Txn changes no state.                                         *)
LEMMA MarkingKeepsHistory ==
    ASSUME TypeInv, HistoryInv, RecordInv("Whole"), ~Failed, job.op \in {"Reverse", "Reinstate"},
           NEW id \in DOMAIN txns, NEW flag \in BOOLEAN,
           txns' = SetDeleted(txns, id, flag), job'.op # "None",
           UNCHANGED <<parent, disk, curr, reversed, hub>>
    PROVE  HistoryInv'
<1>1. IsFiniteTable(txns) /\ Chained(txns, hub[parent])
  BY DEF TypeInv, FileOK, RecordInv, OpenInv
<1>2. \A at : StateAt(txns', hub[parent], at) = StateAt(txns, hub[parent], at)
  BY <1>1, MarkingKeepsChain
<1>3. Follows(txns, hub[parent])
  BY DEF HistoryInv, SameLine
<1>5. OnlyEdits' /\ RangesAhead' /\ SameLine'
  BY <1>2, <1>3 DEF HistoryInv, OnlyEdits, RangesAhead, SameLine, Follows
<1> QED BY <1>5 DEF HistoryInv

(* Undo, redo, pushing and discarding, one action at a time.               *)
LEMMA StartOfUndoKeepsHistory ==
    ASSUME TypeInv, AbandonsFailure, RecordInv("Whole"), HistoryInv,
           \/ \E count \in 1..MaxTxns : ReverseTxns(count)
           \/ \E pos \in Positions : ReverseTo(pos) \/ CancelTo(pos)
           \/ ReverseAll \/ CancelNothing
    PROVE  HistoryInv'
<1>1. ASSUME NEW first, NEW cancel, ReverseRange(first, cancel)
      PROVE  HistoryInv'
  <2>1. job.op = "None" /\ ~Failed /\ job'.op # "None"
    BY <1>1, ReadyIsAtRest DEF ReverseRange
  <2> QED BY <1>1, <2>1, BeginKeepsHistory DEF ReverseRange
<1>2. CASE CancelNothing
  BY <1>2, ReadyIsAtRest, DeleteReversedKeepsHistory DEF CancelNothing
<1> QED BY <1>1, <1>2 DEF ReverseTxns, ReverseTo, CancelTo, ReverseAll

LEMMA ReverseKeepsHistory ==
    ASSUME TypeInv, TypeInv', IdInv, RecordInv("Whole"), HistoryInv,
           ReverseStep \/ ReverseDone \/ ReverseFails
    PROVE  HistoryInv'
<1>1. job.op = "Reverse" /\ DOMAIN tracked = {} /\ ~Failed
  BY DEF ReverseStep, ReverseDone, ReverseFails, RecordInv, Reversing, IsAt
<1>2. /\ IsFiniteTable(txns) /\ IsFiniteTable(disk.txns) /\ curr \in TxnIds
      /\ reversed \in Seq(Ranges) /\ job.first \in TxnIds /\ job.last \in TxnIds
  BY <1>1 DEF TypeInv, FileOK, DiskOK, SessionOK, JobOK
<1>3. job.last = curr /\ Before(job.first, curr)
  BY <1>1 DEF IdInv, ReverseFreed
<1>4. RangesAhead
  BY DEF HistoryInv
<1>5. CASE ReverseStep
  <2>1. PICK id \in DOMAIN txns : txns' = SetDeleted(txns, id, TRUE)
    BY <1>5 DEF ReverseStep, IdsBefore
  <2>2. job'.op # "None" /\ UNCHANGED <<parent, disk, curr, reversed, hub>>
    BY <1>1, <1>5 DEF ReverseStep, TypeInv, JobOK
  <2> QED BY <1>1, <2>1, <2>2, MarkingKeepsHistory
<1>6. CASE ReverseFails
  <2>1. BeforeEdits' = disk'.db
    BY <1>1, <1>6, NothingTrackedNext DEF ReverseFails
  <2>2. OnlyEdits'
    BY <2>1 DEF OnlyEdits
  <2>3. CASE job.cancel
    <3>1. reversed' = <<>> /\ txns' = WithoutReversed(disk.txns) /\ parent' = disk.parent
          /\ disk' = disk /\ curr' = curr /\ hub' = hub
      BY <1>6, <2>3 DEF ReverseFails
    <3>2. curr[2] # 0 => CutAt(disk.txns, curr)
      BY <1>1 DEF RecordInv, FileInv, Sound
    <3>3. SameLine'
      BY <1>2, <3>1, <3>2, DeletingReversedFollows DEF SameLine, Follows
    <3>4. RangesAhead'
      BY <3>1 DEF RangesAhead
    <3> QED BY <2>2, <3>3, <3>4 DEF HistoryInv
  <2>4. CASE ~job.cancel
    <3>1. reversed' = reversed /\ txns' = disk.txns /\ parent' = disk.parent
          /\ disk' = disk /\ curr' = curr /\ hub' = hub
      BY <1>6, <2>4 DEF ReverseFails
    <3>2. SameLine' /\ RangesAhead'
      BY <1>4, <3>1 DEF SameLine, Follows, RangesAhead
    <3> QED BY <2>2, <3>2 DEF HistoryInv
  <2> QED BY <2>3, <2>4
<1>7. CASE ReverseDone
  <2> DEFINE range == [first |-> job.first, last |-> job.last]
  <2>1. /\ disk'.db = db' /\ disk'.txns = txns /\ disk'.parent = parent'
        /\ parent' = parent /\ curr' = job.first /\ hub' = hub /\ tracked' = tracked
        /\ txns' = IF job.cancel THEN WithoutReversed(txns) ELSE txns
        /\ reversed' = IF job.cancel THEN <<>> ELSE Append(reversed, range)
    BY <1>7 DEF ReverseDone
  <2>2. BeforeEdits' = disk'.db
    BY <1>1, <2>1, NothingTrackedNext
  <2>3. OnlyEdits'
    BY <2>2 DEF OnlyEdits
  <2>4. CASE job.cancel
    <3>1. reversed' = <<>> /\ txns' = WithoutReversed(txns)
      BY <2>1, <2>4
    <3>2. CutAt(txns, job.first)
      <4>1. CutAt(txns, job.at) /\ ~Before(job.at, job.first) /\ job.at \in TxnIds
        BY <1>1 DEF RecordInv, Reversing, IsAt, IdInv, ReverseFreed
      <4>2. ~\E id \in IdsBefore(txns, job.at) :
                IsPrevious(txns, job.at, id) /\ ~Before(id, job.first)
        BY <1>7 DEF ReverseDone, InRange
      <4>3. \A i \in DOMAIN txns : Before(i, job.at) <=> Before(i, job.first)
        BY <1>2, <4>1, <4>2, NothingLeftInRange
      <4> QED BY <4>1, <4>3 DEF CutAt
    <3>3. ASSUME NEW k \in Nat, k <= job.first[2], job.first[2] # 0
          PROVE  StateAt(WithoutReversed(txns), hub[parent], <<job.first[1], k>>)
                     = StateAt(txns, hub[parent], <<job.first[1], k>>)
      <4> DEFINE at == <<job.first[1], k>>
      <4>1. ASSUME NEW i \in DOMAIN txns, Before(i, at) PROVE ~txns[i].deleted
        <5>1. i \in TxnIds
          BY <1>2 DEF IsFiniteTable, IsTable
        <5>2. Before(i, job.first)
          BY <1>2, <3>3, <4>1, <5>1 DEF Before, TxnIds
        <5> QED BY <3>2, <5>2 DEF CutAt
      <4> HIDE DEF at
      <4>2. StateAt(WithoutReversed(txns), hub[parent], at) = StateAt(txns, hub[parent], at)
        BY <1>2, <4>1, DeletingReversedAgrees
      <4> QED BY <4>2 DEF at
    <3>4. SameLine'
      BY <2>1, <3>1, <3>3 DEF SameLine, Follows
    <3>5. RangesAhead'
      BY <3>1 DEF RangesAhead
    <3> QED BY <2>3, <3>4, <3>5 DEF HistoryInv
  <2>5. CASE ~job.cancel
    <3>1. reversed' = Append(reversed, range) /\ txns' = txns
      BY <2>1, <2>5
    <3>2. range \in Ranges
      BY <1>2 DEF Ranges
    <3>3. RangesAhead'
      BY <1>2, <1>3, <1>4, <3>1, <3>2, AppendProperties, LenProperties DEF RangesAhead
    <3>4. SameLine'
      BY <2>1, <3>1 DEF SameLine, Follows
    <3> QED BY <2>3, <3>3, <3>4 DEF HistoryInv
  <2> QED BY <2>4, <2>5
<1> QED BY <1>5, <1>6, <1>7

LEMMA ReinstateKeepsHistory ==
    ASSUME TypeInv, TypeInv', AbandonsFailure, IdInv, RecordInv("Whole"), HistoryInv,
           ReinstateTxn \/ ReinstateStep \/ ReinstateDone \/ ReinstateFails
    PROVE  HistoryInv'
<1>1. CASE ReinstateTxn
  <2>1. job.op = "None" /\ ~Failed
    BY <1>1, ReadyIsAtRest DEF ReinstateTxn
  <2>2. job'.op # "None"
    BY <1>1 DEF ReinstateTxn
  <2> QED BY <1>1, <2>1, <2>2, BeginKeepsHistory DEF ReinstateTxn
<1>2. ASSUME job.op = "Reinstate" PROVE DOMAIN tracked = {} /\ ~Failed
  BY <1>2 DEF RecordInv, Reinstating, IsAt
<1>3. CASE ReinstateStep
  <2>1. job.at \in DOMAIN txns /\ txns' = SetDeleted(txns, job.at, FALSE)
        /\ job.op = "Reinstate" /\ UNCHANGED <<parent, disk, curr, reversed, hub>>
    BY <1>3 DEF ReinstateStep
  <2>2. job'.op = "Reinstate"
    BY <1>3, NextIsReinstated
  <2> QED BY <1>2, <2>1, <2>2, MarkingKeepsHistory
<1>4. CASE ReinstateDone
  <2>1. /\ Persist /\ tracked' = tracked /\ job.op = "Reinstate"
        /\ reversed' = SubSeq(reversed, 1, Len(reversed) - 1)
    BY <1>4 DEF ReinstateDone
  <2>2. reversed # <<>> /\ reversed \in Seq(Ranges) /\ IsStack(reversed, curr)
    BY <2>1 DEF IdInv, ReinstateFreed, TypeInv, SessionOK, RecordInv
  <2>3. \A n \in 1..Len(reversed') : n \in 1..Len(reversed) /\ reversed'[n] = reversed[n]
    BY <2>1, <2>2, PoppedIsStack
  <2>4. RangesAhead'
    BY <2>3 DEF HistoryInv, RangesAhead
  <2> QED BY <1>2, <2>1, <2>4, CommittedIsInv DEF Persist
<1>5. CASE ReinstateFails
  BY <1>5, RollbackIsInv DEF ReinstateFails, HistoryInv
<1> QED BY <1>1, <1>3, <1>4, <1>5

LEMMA PushKeepsHistory ==
    ASSUME TypeInv, TypeInv', AbandonsFailure, RecordInv("Whole"), HistoryInv, PushNext
    PROVE  HistoryInv'
<1>1. CASE StartCreateChangeset
  <2>1. Persist /\ tracked' = tracked /\ reversed' = <<>> /\ DOMAIN tracked = {}
    BY <1>1 DEF StartCreateChangeset, HasChanges, HasDataChanges
  <2>2. RangesAhead'
    BY <2>1 DEF RangesAhead
  <2> QED BY <2>1, <2>2, CommittedIsInv DEF Persist
<1>2. CASE StartCreateChangesetFails
  BY <1>2, ReadyIsAtRest, DeleteReversedKeepsHistory
  DEF StartCreateChangesetFails, MayPush
<1>3. CASE Upload
  <2>1. parent \in 1..Len(hub) /\ disk.parent \in 1..Len(hub) /\ hub \in Seq(States)
    BY DEF RecordInv, ParentsOK, TypeInv, HubOK
  <2>2. PICK tip : hub' = Append(hub, tip)
    BY <1>3 DEF Upload
  <2>3. hub'[parent] = hub[parent] /\ hub'[disk.parent] = hub[disk.parent]
    BY <2>1, <2>2, LenProperties
  <2>4. UNCHANGED <<db, tracked, lastSave, txns, parent, disk, curr, reversed, job>>
    BY <1>3 DEF Upload
  <2>5. SameLine' /\ RangesAhead'
    BY <2>3, <2>4 DEF HistoryInv, SameLine, Follows, RangesAhead, Failed
  <2>6. BeforeEdits' = BeforeEdits
    BY <2>4 DEF BeforeEdits, Original
  <2>7. OnlyEdits'
    BY <2>4, <2>6 DEF HistoryInv, OnlyEdits, Failed
  <2> QED BY <2>5, <2>7 DEF HistoryInv
<1>4. CASE FinishCreateChangeset
  BY <1>4, SaveKeepsHistory DEF FinishCreateChangeset, HistoryInv
<1>5. CASE StopCreateChangeset
  BY <1>5, UnchangedKeepsHistory DEF StopCreateChangeset, BeforeEdits, Original, Failed
<1> QED BY <1>1, <1>2, <1>3, <1>4, <1>5 DEF PushNext

LEMMA DiscardKeepsHistory ==
    ASSUME TypeInv, TypeInv', RecordInv("Whole"), HistoryInv, DiscardNext
    PROVE  HistoryInv'
<1>1. CASE DiscardLocalChanges
  <2>1. job'.op = "Discard" /\ reversed' = <<>>
    BY <1>1 DEF DiscardLocalChanges, Idle
  <2> QED BY <2>1 DEF HistoryInv, SameLine, OnlyEdits, RangesAhead
<1>2. CASE DiscardStep
  <2>1. job'.op = "Discard" /\ reversed' = reversed
    BY <1>2 DEF DiscardStep, TypeInv, JobOK
  <2> QED BY <2>1 DEF HistoryInv, SameLine, OnlyEdits, RangesAhead
<1>3. CASE DiscardFails
  BY <1>3, RollbackIsInv DEF DiscardFails, HistoryInv
<1>4. CASE DiscardReversed
  <2>1. job'.op = "DeleteAll" /\ reversed' = reversed
    BY <1>4 DEF DiscardReversed, Idle
  <2> QED BY <2>1 DEF HistoryInv, SameLine, OnlyEdits, RangesAhead
<1>5. CASE DeleteAllTxns
  <2>1. Persist /\ tracked' = tracked /\ reversed' = <<>> /\ DOMAIN tracked = {}
    BY <1>5 DEF DeleteAllTxns, RecordInv, Deleting
  <2>2. RangesAhead'
    BY <2>1 DEF RangesAhead
  <2> QED BY <2>1, <2>2, CommittedIsInv DEF Persist
<1> QED BY <1>1, <1>2, <1>3, <1>4, <1>5 DEF DiscardNext

(* In a new briefcase nothing was edited or undone.                        *)
LEMMA HistoryInvInit == Init => HistoryInv
<1> SUFFICES ASSUME Init PROVE HistoryInv
  OBVIOUS
<1>1. BeforeEdits = db
  <2>1. DOMAIN tracked = {}
    BY EmptyMapIsEmpty DEF Init
  <2> QED BY <2>1, TypeInvInit, NothingTracked
<1>2. SameLine /\ OnlyEdits /\ RangesAhead
  BY <1>1 DEF Init, SameLine, Follows, OnlyEdits, RangesAhead
<1> QED BY <1>2 DEF HistoryInv

(* Every step keeps what the file and the open transaction share.          *)
LEMMA HistoryInvStep ==
    AbandonsFailure /\ TypeInv /\ TypeInv' /\ IdInv /\ RecordInv("Whole") /\ HistoryInv
        /\ [Next]_vars => HistoryInv'
<1> SUFFICES ASSUME AbandonsFailure, TypeInv, TypeInv', IdInv, RecordInv("Whole"), HistoryInv,
                    [Next]_vars
             PROVE  HistoryInv'
  OBVIOUS
<1>1. CASE UNCHANGED vars
  BY <1>1, UnchangedKeepsHistory DEF BeforeEdits, Original, Failed
<1>2. CASE UndoNext
  BY <1>2, StartOfUndoKeepsHistory, ReverseKeepsHistory, ReinstateKeepsHistory DEF UndoNext
<1>3. CASE Next /\ ~UndoNext
  BY <1>3, SessionActionsKeepHistory, PushKeepsHistory, DiscardKeepsHistory DEF Next
<1> QED BY <1>1, <1>2, <1>3

-------------------------------------------------------------------------------
(***************************************************************************)
(* What the file records, as the abstract state.                           *)
(***************************************************************************)

(* The states of a session, each where its counter says.                   *)
LineOf(table, base, session) == [k \in Nat |-> StateAt(table, base, <<session, k>>)]
Line == LineOf(disk.txns, hub[disk.parent], curr[1])

Ahead(line, ranges) ==
    [n \in DOMAIN ranges |-> Between(line, ranges[n].first[2], ranges[n].last[2])]

Future == [n \in DOMAIN reversed |-> Redoable(reversed[n])]

LEMMA LineIsLine ==
    ASSUME NEW table, IsFiniteTable(table), NEW base \in States, NEW session
    PROVE  /\ LineOf(table, base, session) \in [Nat -> States]
           /\ \A k \in Nat : LineOf(table, base, session)[k] = StateAt(table, base, <<session, k>>)
  BY StateAtIsState DEF LineOf

(* The states undo can go back to are those of the line before curr, and   *)
(* the redo stack stands for parts of the line.                            *)
LEMMA PastIsOnLine ==
    ASSUME NEW table, NEW base, NEW id \in TxnIds
    PROVE  [n \in 1..id[2] |-> StateAt(table, base, <<id[1], n - 1>>)]
               = UpTo(LineOf(table, base, id[1]), id[2])
<1> DEFINE line == LineOf(table, base, id[1])
<1>1. id[2] \in Nat /\ \A k \in Nat : line[k] = StateAt(table, base, <<id[1], k>>)
  BY DEF TxnIds, LineOf
<1>2. \A n \in 1..id[2] : n - 1 \in Nat
  BY <1>1
<1> HIDE DEF line
<1>3. UpTo(line, id[2]) = [n \in 1..id[2] |-> StateAt(table, base, <<id[1], n - 1>>)]
  BY <1>1, <1>2 DEF UpTo
<1> QED BY <1>3 DEF line

LeftBy(table, base, ranges) ==
    [n \in DOMAIN ranges |->
        [i \in 1..(ranges[n].last[2] - ranges[n].first[2]) |->
            StateAt(table, base, <<ranges[n].first[1], ranges[n].first[2] + i>>)]]

LEMMA FutureIsOnLine ==
    ASSUME NEW table, NEW base, NEW session, NEW ranges \in Seq(Ranges),
           \A n \in 1..Len(ranges) : ranges[n].first[1] = session
    PROVE  LeftBy(table, base, ranges) = Ahead(LineOf(table, base, session), ranges)
<1> DEFINE line == LineOf(table, base, session)
<1>1. \A k \in Nat : line[k] = StateAt(table, base, <<session, k>>)
  BY DEF LineOf
<1> HIDE DEF line
<1>2. ASSUME NEW n \in DOMAIN ranges
      PROVE  Between(line, ranges[n].first[2], ranges[n].last[2])
                 = [i \in 1..(ranges[n].last[2] - ranges[n].first[2]) |->
                       StateAt(table, base, <<ranges[n].first[1], ranges[n].first[2] + i>>)]
  <2>1. n \in 1..Len(ranges) /\ ranges[n] \in Ranges
    BY ElementOfSeq, LenProperties
  <2>2. /\ ranges[n].first[1] = session
        /\ ranges[n].first[2] \in Nat /\ ranges[n].last[2] \in Nat
    BY <2>1 DEF Ranges, TxnIds
  <2> DEFINE a == ranges[n].first[2]
             b == ranges[n].last[2]
  <2>3. \A i \in 1..(b - a) : a + i \in Nat
    BY <2>2
  <2>4. \A i \in 1..(b - a) : line[a + i] = StateAt(table, base, <<ranges[n].first[1], a + i>>)
    BY <1>1, <2>2, <2>3
  <2> QED BY <2>4 DEF Between
<1>3. Ahead(line, ranges) = LeftBy(table, base, ranges)
  BY <1>2 DEF Ahead, LeftBy
<1> QED BY <1>3 DEF line

(* Ranges that lie ahead, as sequences of states.                          *)
AreAhead(ranges) ==
    ranges \in Seq(Ranges) /\ \A n \in 1..Len(ranges) : ranges[n].first[2] < ranges[n].last[2]

LEMMA AheadIsSeq ==
    ASSUME NEW line \in [Nat -> States], NEW ranges, AreAhead(ranges)
    PROVE  /\ Ahead(line, ranges) \in Seq(Seq(States))
           /\ Len(Ahead(line, ranges)) = Len(ranges)
           /\ \A n \in 1..Len(ranges) :
                 Ahead(line, ranges)[n] = Between(line, ranges[n].first[2], ranges[n].last[2])
<1>1. Len(ranges) \in Nat /\ DOMAIN ranges = 1..Len(ranges)
  BY LenProperties DEF AreAhead
<1>2. ASSUME NEW n \in 1..Len(ranges)
      PROVE  Between(line, ranges[n].first[2], ranges[n].last[2]) \in Seq(States)
  <2>1. ranges[n] \in Ranges
    BY ElementOfSeq DEF AreAhead
  <2>2. ranges[n].first[2] \in Nat /\ ranges[n].last[2] \in Nat
    BY <2>1 DEF Ranges, TxnIds
  <2> QED BY <2>2, BetweenIsSeq DEF AreAhead
<1>3. Ahead(line, ranges) \in [1..Len(ranges) -> Seq(States)]
  BY <1>1, <1>2 DEF Ahead
<1>4. Ahead(line, ranges) \in Seq(Seq(States)) /\ Len(Ahead(line, ranges)) = Len(ranges)
  BY <1>1, <1>3, FunctionIsSeq
<1> QED BY <1>1, <1>4 DEF Ahead

(* Undo puts a range on the stack, redo takes it off.                      *)
LEMMA AheadOfPushed ==
    ASSUME NEW line \in [Nat -> States], NEW ranges, AreAhead(ranges),
           NEW range \in Ranges, range.first[2] < range.last[2]
    PROVE  /\ AreAhead(Append(ranges, range))
           /\ Ahead(line, Append(ranges, range))
                  = Append(Ahead(line, ranges), Between(line, range.first[2], range.last[2]))
<1> DEFINE more == Append(ranges, range)
           top == Between(line, range.first[2], range.last[2])
           ahead == Ahead(line, ranges)
<1>1. /\ Len(ranges) \in Nat /\ more \in Seq(Ranges) /\ Len(more) = Len(ranges) + 1
      /\ more[Len(ranges) + 1] = range /\ \A n \in 1..Len(ranges) : more[n] = ranges[n]
  BY LenProperties, AppendProperties DEF AreAhead
<1> HIDE DEF more
<1>2. AreAhead(more)
  BY <1>1 DEF AreAhead
<1>3. top \in Seq(States)
  <2>1. range.first[2] \in Nat /\ range.last[2] \in Nat
    BY DEF Ranges, TxnIds
  <2> QED BY <2>1, BetweenIsSeq
<1>4. /\ ahead \in Seq(Seq(States)) /\ Len(ahead) = Len(ranges)
      /\ \A n \in 1..Len(ranges) : ahead[n] = Between(line, ranges[n].first[2], ranges[n].last[2])
  BY AheadIsSeq
<1>5. /\ Ahead(line, more) \in Seq(Seq(States)) /\ Len(Ahead(line, more)) = Len(more)
      /\ \A n \in 1..Len(more) :
            Ahead(line, more)[n] = Between(line, more[n].first[2], more[n].last[2])
  BY <1>2, AheadIsSeq
<1> HIDE DEF top, ahead
<1>6. /\ Append(ahead, top) \in Seq(Seq(States)) /\ Len(Append(ahead, top)) = Len(ahead) + 1
      /\ \A n \in 1..Len(ahead) : Append(ahead, top)[n] = ahead[n]
      /\ Append(ahead, top)[Len(ahead) + 1] = top
  BY <1>3, <1>4, AppendProperties
<1>7. \A n \in 1..Len(more) : Ahead(line, more)[n] = Append(ahead, top)[n]
  <2>1. ASSUME NEW n \in 1..Len(more) PROVE Ahead(line, more)[n] = Append(ahead, top)[n]
    <3>1. CASE n = Len(ranges) + 1
      BY <1>1, <1>4, <1>5, <1>6, <3>1 DEF top
    <3>2. CASE n # Len(ranges) + 1
      <4>1. n \in 1..Len(ranges)
        BY <1>1, <3>2
      <4> QED BY <1>1, <1>4, <1>5, <1>6, <4>1
    <3> QED BY <3>1, <3>2
  <2> QED BY <2>1
<1> DEFINE left == Ahead(line, more)
           right == Append(ahead, top)
<1>8. /\ left \in Seq(Seq(States)) /\ right \in Seq(Seq(States)) /\ Len(left) = Len(right)
      /\ \A n \in 1..Len(left) : left[n] = right[n]
  BY <1>1, <1>4, <1>5, <1>6, <1>7
<1> HIDE DEF left, right
<1>9. left = right
  BY <1>8, SeqEqual
<1> QED BY <1>2, <1>9 DEF left, right, more, ahead, top

LEMMA AheadOfPopped ==
    ASSUME NEW line \in [Nat -> States], NEW ranges, AreAhead(ranges), ranges # <<>>
    PROVE  LET rest == SubSeq(ranges, 1, Len(ranges) - 1)
               ahead == Ahead(line, ranges)
           IN /\ AreAhead(rest) /\ ahead # <<>>
              /\ Ahead(line, rest) = SubSeq(ahead, 1, Len(ahead) - 1)
              /\ ahead[Len(ahead)] = Between(line, ranges[Len(ranges)].first[2],
                                                   ranges[Len(ranges)].last[2])
<1> DEFINE rest == SubSeq(ranges, 1, Len(ranges) - 1)
           ahead == Ahead(line, ranges)
           front == SubSeq(ahead, 1, Len(ahead) - 1)
<1>1. Len(ranges) \in Nat /\ Len(ranges) # 0 /\ ranges \in Seq(Ranges)
  BY EmptySeq DEF AreAhead
<1>2. \A n \in 1..Len(ranges) : ranges[n] \in Ranges
  BY <1>1, ElementOfSeq
<1>3. /\ rest \in Seq(Ranges) /\ Len(rest) = Len(ranges) - 1
      /\ \A n \in 1..(Len(ranges) - 1) : rest[n] = ranges[n]
  <2>1. PICK last \in Nat : last = Len(ranges) - 1
    BY <1>1
  <2>2. \A n \in 1..last : ranges[n] \in Ranges
    BY <1>1, <1>2, <2>1
  <2>3. /\ SubSeq(ranges, 1, last) \in Seq(Ranges) /\ Len(SubSeq(ranges, 1, last)) = last
        /\ \A n \in 1..last : SubSeq(ranges, 1, last)[n] = ranges[n]
    BY <2>2, SubSeqProperties
  <2> QED BY <2>1, <2>3
<1> HIDE DEF rest
<1>4. AreAhead(rest)
  <2>1. ASSUME NEW n \in 1..Len(rest) PROVE rest[n].first[2] < rest[n].last[2]
    <3>1. n \in 1..Len(ranges) /\ rest[n] = ranges[n]
      BY <1>1, <1>3
    <3> QED BY <3>1 DEF AreAhead
  <2> QED BY <1>3, <2>1 DEF AreAhead
<1>5. /\ ahead \in Seq(Seq(States)) /\ Len(ahead) = Len(ranges)
      /\ \A n \in 1..Len(ranges) : ahead[n] = Between(line, ranges[n].first[2], ranges[n].last[2])
  BY AheadIsSeq
<1> HIDE DEF ahead
<1>6. /\ Ahead(line, rest) \in Seq(Seq(States)) /\ Len(Ahead(line, rest)) = Len(rest)
      /\ \A n \in 1..Len(rest) :
            Ahead(line, rest)[n] = Between(line, rest[n].first[2], rest[n].last[2])
  BY <1>4, AheadIsSeq
<1>7. \A n \in 1..Len(ahead) : ahead[n] \in Seq(States)
  BY <1>5, ElementOfSeq
<1>8. /\ front \in Seq(Seq(States)) /\ Len(front) = Len(ahead) - 1
      /\ \A n \in 1..(Len(ahead) - 1) : front[n] = ahead[n]
  <2>1. \A n \in 1..(Len(ahead) - 1) : ahead[n] \in Seq(States)
    BY <1>1, <1>5, <1>7
  <2> QED BY <1>1, <1>5, <2>1, SubSeqProperties
<1> HIDE DEF front
<1> DEFINE left == Ahead(line, rest)
<1>9. /\ left \in Seq(Seq(States)) /\ Len(left) = Len(front)
      /\ \A n \in 1..Len(left) : left[n] = front[n]
  <2>1. /\ left \in Seq(Seq(States)) /\ Len(left) = Len(ranges) - 1
        /\ \A n \in 1..Len(rest) : left[n] = Between(line, rest[n].first[2], rest[n].last[2])
    BY <1>3, <1>6
  <2> HIDE DEF left
  <2>2. ASSUME NEW n \in 1..(Len(ranges) - 1) PROVE left[n] = ahead[n]
    <3>1. n \in 1..Len(ranges) /\ n \in 1..Len(rest) /\ rest[n] = ranges[n]
      BY <1>1, <1>3
    <3> QED BY <1>5, <2>1, <3>1
  <2> QED BY <1>5, <1>8, <2>1, <2>2
<1> HIDE DEF left
<1>10. left = front
  BY <1>8, <1>9, SeqEqual
<1>11. Len(ranges) \in 1..Len(ranges) /\ ahead # <<>>
  BY <1>1, <1>5, EmptySeq
<1>12. ahead[Len(ahead)] = Between(line, ranges[Len(ranges)].first[2], ranges[Len(ranges)].last[2])
  BY <1>5, <1>11
<1> QED BY <1>4, <1>10, <1>11, <1>12 DEF left, front, ahead, rest

(* Lines that are the same where a range lies, and up to a place.          *)
LEMMA SameBetween ==
    ASSUME NEW line, NEW other, NEW a \in Nat, NEW b \in Nat,
           \A k \in Nat : k <= b => line[k] = other[k]
    PROVE  Between(line, a, b) = Between(other, a, b) /\ UpTo(line, b) = UpTo(other, b)
<1>1. \A i \in 1..(b - a) : a + i \in Nat /\ a + i <= b
  OBVIOUS
<1>2. \A i \in 1..b : i - 1 \in Nat /\ i - 1 <= b
  OBVIOUS
<1>3. \A i \in 1..(b - a) : line[a + i] = other[a + i]
  BY <1>1
<1>4. \A i \in 1..b : line[i - 1] = other[i - 1]
  BY <1>2
<1> QED BY <1>3, <1>4 DEF Between, UpTo

(* Without ranges nothing lies ahead.                                      *)
LEMMA NothingAhead == \A line : Ahead(line, <<>>) = <<>>
  BY DEF Ahead

-------------------------------------------------------------------------------
(***************************************************************************)
(* Every step does to the line what UndoHistory says.                      *)
(***************************************************************************)
InLine ==
    /\ Line \in [Nat -> States] /\ hub[disk.parent] \in States
    /\ \A k \in Nat : Line[k] = StateAt(disk.txns, hub[disk.parent], <<curr[1], k>>)
    /\ AreAhead(reversed) /\ curr \in TxnIds
    /\ Undoable = IF job.op = "DeleteAll" THEN <<>> ELSE UpTo(Line, curr[2])
    /\ Future = Ahead(Line, reversed)

AllInv == TypeInv /\ IdInv /\ RecordInv("Whole") /\ SessionInv /\ HistoryInv

LEMMA StateIsInLine ==
    ASSUME AllInv
    PROVE  InLine
<1>1. /\ IsFiniteTable(disk.txns) /\ hub[disk.parent] \in States
      /\ curr \in TxnIds /\ reversed \in Seq(Ranges)
  BY ElementOfSeq DEF AllInv, TypeInv, DiskOK, HubOK, SessionOK, RecordInv, ParentsOK
<1>2. /\ Line \in [Nat -> States]
      /\ \A k \in Nat : Line[k] = StateAt(disk.txns, hub[disk.parent], <<curr[1], k>>)
  BY <1>1, LineIsLine DEF Line
<1>3. RangesInSession /\ RangesAhead
  BY DEF AllInv, SessionInv, HistoryInv
<1>4. AreAhead(reversed)
  <2>1. ASSUME NEW n \in 1..Len(reversed) PROVE reversed[n].first[2] < reversed[n].last[2]
    <3>1. reversed[n] \in Ranges
      BY <1>1, ElementOfSeq
    <3> QED BY <1>3, <3>1 DEF RangesInSession, RangesAhead, Ranges, TxnIds, Before
  <2> QED BY <1>1, <2>1 DEF AreAhead
<1>5. Undoable = IF job.op = "DeleteAll" THEN <<>> ELSE UpTo(Line, curr[2])
  BY <1>1, PastIsOnLine DEF Undoable, Recorded, Line
<1>6. Future = Ahead(Line, reversed)
  <2>1. \A n \in 1..Len(reversed) : reversed[n].first[1] = curr[1]
    BY <1>3 DEF RangesInSession
  <2>2. LeftBy(disk.txns, hub[disk.parent], reversed)
            = Ahead(LineOf(disk.txns, hub[disk.parent], curr[1]), reversed)
    BY <1>1, <2>1, FutureIsOnLine
  <2> QED BY <2>2 DEF Future, Redoable, Recorded, LeftBy, Line
<1> QED BY <1>1, <1>2, <1>4, <1>5, <1>6 DEF InLine

(* So is the next state.                                                   *)
LEMMA NextIsInLine ==
    ASSUME AllInv'
    PROVE  InLine'
<1>1. /\ IsFiniteTable(disk'.txns) /\ hub'[disk'.parent] \in States
      /\ curr' \in TxnIds /\ reversed' \in Seq(Ranges)
  BY ElementOfSeq DEF AllInv, TypeInv, DiskOK, HubOK, SessionOK, RecordInv, ParentsOK
<1>2. /\ Line' \in [Nat -> States]
      /\ \A k \in Nat : Line'[k] = StateAt(disk'.txns, hub'[disk'.parent], <<curr'[1], k>>)
  BY <1>1, LineIsLine DEF Line
<1>3. RangesInSession' /\ RangesAhead'
  BY DEF AllInv, SessionInv, HistoryInv
<1>4. AreAhead(reversed')
  <2>1. ASSUME NEW n \in 1..Len(reversed') PROVE reversed'[n].first[2] < reversed'[n].last[2]
    <3>1. reversed'[n] \in Ranges
      BY <1>1, ElementOfSeq
    <3> QED BY <1>3, <3>1 DEF RangesInSession, RangesAhead, Ranges, TxnIds, Before
  <2> QED BY <1>1, <2>1 DEF AreAhead
<1>5. Undoable' = IF job'.op = "DeleteAll" THEN <<>> ELSE UpTo(Line', curr'[2])
  BY <1>1, PastIsOnLine DEF Undoable, Recorded, Line
<1>6. Future' = Ahead(Line', reversed')
  <2>1. \A n \in 1..Len(reversed') : reversed'[n].first[1] = curr'[1]
    BY <1>3 DEF RangesInSession
  <2>2. LeftBy(disk'.txns, hub'[disk'.parent], reversed')
            = Ahead(LineOf(disk'.txns, hub'[disk'.parent], curr'[1]), reversed')
    BY <1>1, <2>1, FutureIsOnLine
  <2> QED BY <2>2 DEF Future, Redoable, Recorded, LeftBy, Line
<1> QED BY <1>1, <1>2, <1>4, <1>5, <1>6 DEF InLine

(* The file records the state the line has at curr.                        *)
LEMMA RecordedAtCurr ==
    ASSUME AllInv, job.op # "DeleteAll", curr[2] # 0 \/ reversed # <<>>
    PROVE  disk.db = Line[curr[2]]
<1>1. /\ IsFiniteTable(disk.txns) /\ curr \in TxnIds
      /\ Sound(disk.txns, hub[disk.parent], curr, reversed, "Whole") /\ DiskRecorded
  BY DEF AllInv, TypeInv, DiskOK, SessionOK, RecordInv, FileInv
<1>2. disk.db = StateAt(disk.txns, hub[disk.parent], curr)
  BY <1>1, SoundIsCut DEF DiskRecorded
<1>3. curr = <<curr[1], curr[2]>> /\ curr[2] \in Nat
  BY <1>1 DEF TxnIds
<1> QED BY <1>2, <1>3, StateIsInLine DEF InLine

(* Undo goes back to the state before the first Txn of the range; redo can *)
(* return to those after each of its Txns.                                 *)
LEMMA ReverseDoneIsUndo ==
    ASSUME AllInv, AllInv', ReverseDone
    PROVE  History!Undo
<1> DEFINE a == job.first[2]
           b == curr[2]
           range == [first |-> job.first, last |-> job.last]
<1>1. /\ job.op = "Reverse" /\ job' = Idle /\ curr' = job.first
      /\ disk'.db = db /\ disk'.txns = txns /\ disk'.parent = parent /\ hub' = hub
      /\ reversed' = IF job.cancel THEN <<>> ELSE Append(reversed, range)
  BY DEF ReverseDone
<1>2. /\ IsFiniteTable(txns) /\ curr \in TxnIds /\ job.first \in TxnIds /\ job.at \in TxnIds
      /\ job.first[1] = curr[1] /\ Before(job.first, curr) /\ job.last = curr
      /\ db = StateAt(txns, hub[parent], job.at) /\ ~Failed /\ parent = disk.parent
      /\ ~Before(job.at, job.first)
  BY <1>1 DEF AllInv, TypeInv, FileOK, SessionOK, JobOK, IdInv, ReverseFreed,
              RecordInv, Reversing, IsAt, OpenInv
<1>3. a \in Nat /\ b \in Nat /\ a < b /\ job.first = <<curr[1], a>>
  BY <1>2 DEF TxnIds, Before
<1>4. InLine /\ InLine'
  BY StateIsInLine, NextIsInLine
<1>5. ASSUME NEW k \in Nat, reversed # <<>> \/ k <= b
      PROVE  Line'[k] = Line[k]
  <2>1. Follows(txns, hub[parent])
    BY <1>1, <1>2 DEF AllInv, HistoryInv, SameLine
  <2>2. StateAt(txns, hub[parent], <<curr[1], k>>)
            = StateAt(disk.txns, hub[disk.parent], <<curr[1], k>>)
    BY <1>3, <1>5, <2>1 DEF Follows
  <2>3. Line[k] = StateAt(disk.txns, hub[disk.parent], <<curr[1], k>>)
    BY <1>4 DEF InLine
  <2>4. Line'[k] = StateAt(disk'.txns, hub'[disk'.parent], <<curr'[1], k>>)
    BY <1>4 DEF InLine
  <2> QED BY <1>1, <1>2, <2>2, <2>3, <2>4
<1>6. (\A k \in Nat : k <= b => Line'[k] = Line[k])
      /\ (reversed # <<>> => \A k \in Nat : Line'[k] = Line[k])
  BY <1>5
<1>7. disk'.db = Line[a]
  <2>1. ~\E id \in IdsBefore(txns, job.at) :
            IsPrevious(txns, job.at, id) /\ ~Before(id, job.first)
    BY DEF ReverseDone, InRange
  <2>2. \A i \in DOMAIN txns : Before(i, job.at) <=> Before(i, job.first)
    BY <1>2, <2>1, NothingLeftInRange
  <2>3. db = StateAt(txns, hub[parent], job.first)
    BY <1>2, <2>2, NothingBetween
  <2>4. Line'[a] = StateAt(txns, hub[parent], job.first)
    <3>1. Line'[a] = StateAt(disk'.txns, hub'[disk'.parent], <<curr'[1], a>>)
      BY <1>3, <1>4 DEF InLine
    <3>2. <<curr'[1], a>> = job.first
      BY <1>1, <1>3
    <3> QED BY <1>1, <1>2, <3>1, <3>2
  <2> QED BY <1>1, <1>3, <1>6, <2>3, <2>4
<1>8. disk.db = Line[b]
  BY <1>1, <1>3, RecordedAtCurr
<1>9. Undoable = UpTo(Line, b) /\ Undoable' = UpTo(Line, a)
  <2>1. Undoable' = UpTo(Line', a)
    BY <1>1, <1>4 DEF InLine, Idle
  <2>2. UpTo(Line', a) = UpTo(Line, a)
    BY <1>3, <1>6, SameBetween
  <2> QED BY <1>1, <1>4, <2>1, <2>2 DEF InLine
<1>10. Future' \in {Append(Future, Between(Line, a, b)), <<>>}
  <2>1. CASE job.cancel
    BY <1>1, <1>4, <2>1, NothingAhead DEF InLine
  <2>2. CASE ~job.cancel
    <3>1. range \in Ranges /\ range.first[2] = a /\ range.last[2] = b
      BY <1>2 DEF Ranges
    <3>2. Future' = Ahead(Line', Append(reversed, range))
      BY <1>1, <1>4, <2>2 DEF InLine
    <3>3. Line' \in [Nat -> States] /\ AreAhead(reversed)
      BY <1>4 DEF InLine
    <3>4. Ahead(Line', Append(reversed, range))
              = Append(Ahead(Line', reversed), Between(Line', a, b))
      BY <1>3, <3>1, <3>3, AheadOfPushed
    <3>5. Between(Line', a, b) = Between(Line, a, b)
      BY <1>3, <1>6, SameBetween
    <3>6. Ahead(Line', reversed) = Ahead(Line, reversed)
      <4>1. CASE reversed = <<>>
        BY <4>1, NothingAhead
      <4>2. CASE reversed # <<>>
        <5>1. Line' = Line
          BY <1>4, <1>6, <4>2 DEF InLine
        <5> QED BY <5>1
      <4> QED BY <4>1, <4>2
    <3> QED BY <1>4, <3>2, <3>4, <3>5, <3>6 DEF InLine
  <2> QED BY <2>1, <2>2
<1>11. /\ b - a \in 1..Len(Undoable)
       /\ Undoable[Len(Undoable) - (b - a) + 1] = Line[a]
       /\ SubSeq(Undoable, 1, Len(Undoable) - (b - a)) = UpTo(Line, a)
       /\ Append(SubSeq(Undoable, Len(Undoable) - (b - a) + 2, Len(Undoable)), disk.db)
              = Between(Line, a, b)
  <2>1. Line \in [Nat -> States]
    BY <1>4 DEF InLine
  <2> HIDE DEF a, b
  <2>2. LET past == UpTo(Line, b)
        IN /\ b - a \in 1..Len(past)
           /\ past[Len(past) - (b - a) + 1] = Line[a]
           /\ SubSeq(past, 1, Len(past) - (b - a)) = UpTo(Line, a)
           /\ Append(SubSeq(past, Len(past) - (b - a) + 2, Len(past)), Line[b])
                  = Between(Line, a, b)
    BY <1>3, <2>1, UndoOnLine
  <2> QED BY <1>8, <1>9, <2>2
<1>12. job'.op = "None" /\ hub[disk.parent]' = hub[disk.parent]
  BY <1>1, <1>2 DEF Idle
<1> HIDE DEF a, b
<1> QED BY <1>1, <1>7, <1>9, <1>10, <1>11, <1>12 DEF History!Undo, History!Undone, Future

(* Redo returns to the states that undo left.                              *)
LEMMA ReinstateDoneIsRedo ==
    ASSUME AllInv, AllInv', ReinstateDone
    PROVE  History!Redo
<1> DEFINE top == reversed[Len(reversed)]
           a == curr[2]
           b == job.last[2]
           rest == SubSeq(reversed, 1, Len(reversed) - 1)
<1>1. /\ job.op = "Reinstate" /\ ~MoreToReinstate /\ job' = Idle /\ curr' = job.last
      /\ disk'.db = db /\ disk'.txns = txns /\ disk'.parent = parent /\ hub' = hub
      /\ reversed' = rest
  BY DEF ReinstateDone, Persist
<1>2. /\ job.last \in TxnIds /\ db = StateAt(txns, hub[parent], job.last)
      /\ ~Failed /\ parent = disk.parent /\ curr \in TxnIds
  BY <1>1, ReinstatedIsLast DEF AllInv, RecordInv, Reinstating, IsAt, OpenInv, TypeInv, SessionOK
<1>3. /\ reversed # <<>> /\ job.last = top.last /\ top.first = curr
      /\ job.last[1] = curr[1]
  BY <1>1 DEF AllInv, IdInv, ReinstateFreed, RecordInv, IsStack, SessionInv, ReinstateInSession
<1>4. InLine /\ InLine'
  BY StateIsInLine, NextIsInLine
<1>5. /\ Len(reversed) \in 1..Len(reversed) /\ top.first[2] < top.last[2]
      /\ a \in Nat /\ b \in Nat /\ a < b /\ job.last = <<curr[1], b>>
  <2>1. Len(reversed) \in Nat /\ Len(reversed) # 0
    BY <1>3, <1>4, EmptySeq DEF InLine, AreAhead
  <2>2. Len(reversed) \in 1..Len(reversed)
    BY <2>1
  <2>3. top.first[2] < top.last[2]
    BY <1>4, <2>2 DEF InLine, AreAhead
  <2>4. a \in Nat /\ b \in Nat /\ job.last = <<curr[1], b>>
    BY <1>2, <1>3 DEF TxnIds
  <2> QED BY <1>3, <2>2, <2>3, <2>4
<1>6. Line' = Line
  <2>1. Follows(txns, hub[parent])
    BY <1>1, <1>2 DEF AllInv, HistoryInv, SameLine
  <2>2. ASSUME NEW k \in Nat PROVE Line'[k] = Line[k]
    <3>1. StateAt(txns, hub[parent], <<curr[1], k>>)
              = StateAt(disk.txns, hub[disk.parent], <<curr[1], k>>)
      BY <1>3, <2>1 DEF Follows
    <3>2. Line[k] = StateAt(disk.txns, hub[disk.parent], <<curr[1], k>>)
      BY <1>4 DEF InLine
    <3>3. Line'[k] = StateAt(disk'.txns, hub'[disk'.parent], <<curr'[1], k>>)
      BY <1>4 DEF InLine
    <3> QED BY <1>1, <1>2, <1>3, <3>1, <3>2, <3>3
  <2> QED BY <1>4, <2>2 DEF InLine
<1>7. disk'.db = Line[b]
  <2>1. Line'[b] = StateAt(disk'.txns, hub'[disk'.parent], <<curr'[1], b>>)
    BY <1>4, <1>5 DEF InLine
  <2>2. <<curr'[1], b>> = job.last
    BY <1>1, <1>3, <1>5
  <2>3. Line'[b] = StateAt(txns, hub[parent], job.last)
    BY <1>1, <2>1, <2>2
  <2> QED BY <1>1, <1>2, <1>6, <2>3
<1>8. disk.db = Line[a]
  BY <1>1, <1>3, RecordedAtCurr
<1>9. /\ Undoable = UpTo(Line, a) /\ Undoable' = UpTo(Line, b)
      /\ Future = Ahead(Line, reversed) /\ Future' = Ahead(Line, rest)
  BY <1>1, <1>4, <1>6 DEF InLine, Idle
<1>10. /\ Future # <<>> /\ Future' = SubSeq(Future, 1, Len(Future) - 1)
       /\ Future[Len(Future)] = Between(Line, a, b)
  <2>1. Line \in [Nat -> States] /\ AreAhead(reversed)
    BY <1>4 DEF InLine
  <2>2. LET ahead == Ahead(Line, reversed)
        IN /\ ahead # <<>>
           /\ Ahead(Line, rest) = SubSeq(ahead, 1, Len(ahead) - 1)
           /\ ahead[Len(ahead)] = Between(Line, top.first[2], top.last[2])
    BY <1>3, <2>1, AheadOfPopped
  <2> QED BY <1>3, <1>9, <2>2
<1>11. LET left == Between(Line, a, b)
       IN /\ left[Len(left)] = Line[b]
          /\ Append(UpTo(Line, a), Line[a]) \o SubSeq(left, 1, Len(left) - 1) = UpTo(Line, b)
  <2>1. Line \in [Nat -> States]
    BY <1>4 DEF InLine
  <2> HIDE DEF a, b
  <2> QED BY <1>5, <2>1, RedoOnLine
<1>12. job'.op = "None" /\ hub[disk.parent]' = hub[disk.parent]
  BY <1>1, <1>2 DEF Idle
<1> HIDE DEF a, b, rest, top
<1> QED BY <1>1, <1>7, <1>8, <1>9, <1>10, <1>11, <1>12
    DEF History!Redo, History!Last, History!Front, Future

(* A step that leaves the file, the session and the redo stack alone, or   *)
(* empties the stack, leaves the line alone.                               *)
LEMMA LineStays ==
    ASSUME AllInv, AllInv', UNCHANGED <<disk, curr>>, hub'[disk.parent] = hub[disk.parent],
           job.op # "DeleteAll", job'.op # "DeleteAll"
    PROVE  /\ disk'.db = disk.db /\ Undoable' = Undoable
           /\ hub[disk.parent]' = hub[disk.parent]
           /\ reversed' = reversed => Future' = Future
           /\ reversed' = <<>> => Future' = <<>>
<1>1. InLine /\ InLine'
  BY StateIsInLine, NextIsInLine
<1>2. Line' = Line
  BY DEF Line
<1>3. Undoable' = Undoable
  BY <1>1, <1>2 DEF InLine
<1>4. reversed' = reversed => Future' = Future
  BY <1>1, <1>2 DEF InLine
<1>5. reversed' = <<>> => Future' = <<>>
  BY <1>1, NothingAhead DEF InLine
<1> QED BY <1>3, <1>4, <1>5

(* Such a step changes nothing the user of undo can see.                   *)
LEMMA StepStutters ==
    ASSUME AllInv, AllInv', UNCHANGED <<disk, curr, reversed>>,
           hub'[disk.parent] = hub[disk.parent], job'.op = job.op
    PROVE  UNCHANGED History!vars
<1>1. InLine /\ InLine'
  BY StateIsInLine, NextIsInLine
<1>2. Line' = Line
  BY DEF Line
<1>3. /\ Undoable' = Undoable /\ Future' = Future /\ disk'.db = disk.db
      /\ hub[disk.parent]' = hub[disk.parent]
  BY <1>1, <1>2 DEF InLine
<1> QED BY <1>3 DEF History!vars, History!line, Future

(* Undo, redo and discarding begin, or end with the file as it was.        *)
LEMMA StepBegins ==
    ASSUME AllInv, AllInv', UNCHANGED <<disk, curr, hub>>, job.op = "None",
           NEW op \in {"Reverse", "Reinstate", "Discard"}, job'.op = op,
           reversed' = IF op = "Discard" THEN <<>> ELSE reversed
    PROVE  History!Begin(op)
<1>1. /\ disk'.db = disk.db /\ Undoable' = Undoable
      /\ hub[disk.parent]' = hub[disk.parent]
      /\ reversed' = reversed => Future' = Future
      /\ reversed' = <<>> => Future' = <<>>
  BY LineStays
<1>2. Future' = IF op = "Discard" THEN <<>> ELSE Future
  BY <1>1
<1> QED BY <1>1, <1>2 DEF History!Begin, Future

LEMMA StepEnds ==
    ASSUME AllInv, AllInv', UNCHANGED <<disk, curr, hub>>,
           job.op \in {"Reverse", "Reinstate", "Discard"}, job'.op = "None",
           reversed' \in {reversed, <<>>}
    PROVE  History!End
<1>1. /\ disk'.db = disk.db /\ Undoable' = Undoable
      /\ hub[disk.parent]' = hub[disk.parent]
      /\ reversed' = reversed => Future' = Future
      /\ reversed' = <<>> => Future' = <<>>
  BY LineStays
<1>2. Future' \in {Future, <<>>}
  BY <1>1
<1> QED BY <1>1, <1>2 DEF History!End, Future

(* A save that fails or finds nothing new, and a new session.              *)
LEMMA StepForgets ==
    ASSUME AllInv, AllInv', job.op = "None", job'.op = "None", disk'.db = disk.db,
           reversed' = <<>>,
           UNCHANGED <<disk, curr, hub>> \/ curr'[2] = 0 \/ Undoable' = Undoable
    PROVE  History!Next
<1>1. InLine /\ InLine'
  BY StateIsInLine, NextIsInLine
<1>2. Future' = <<>>
  BY <1>1, NothingAhead DEF InLine
<1>3. Undoable' \in {Undoable, <<>>}
  <2>1. CASE UNCHANGED <<disk, curr, hub>>
    BY <2>1, LineStays
  <2>2. CASE curr'[2] = 0
    BY <1>1, <2>2 DEF InLine, UpTo
  <2> QED BY <2>1, <2>2
<1>4. hub[disk.parent]' \in States
  BY <1>1 DEF InLine
<1>5. History!Forget
  BY <1>2, <1>3 DEF History!Forget, Future
<1>6. History!Push
  BY <1>4, <1>5 DEF History!Push
<1> QED BY <1>6 DEF History!Next

(* SaveChanges with nothing to save commits the line as it is.             *)
LEMMA SaveUntrackedIsPush ==
    ASSUME AllInv, AllInv', job.op = "None", job'.op = "None", ~Failed, hub' = hub,
           NEW table, NEW version, NEW restart, SaveUntracked(table, version, restart),
           Follows(table, hub[version])
    PROVE  History!Next
<1>1. InLine /\ InLine'
  BY StateIsInLine, NextIsInLine
<1>2. disk'.db = disk.db /\ disk'.txns = table /\ disk'.parent = version
  <2>1. BeforeEdits = db
    BY NothingToSaveIsRecorded DEF SaveUntracked, AllInv
  <2>2. BeforeEdits = disk.db
    BY DEF AllInv, HistoryInv, OnlyEdits
  <2> QED BY <2>1, <2>2 DEF SaveUntracked, Persist
<1>3. CASE restart /\ ~HasPendingTxns(table)
  <2>1. curr'[2] = 0 /\ reversed' = <<>>
    BY <1>3, NewSessionIsStart DEF SaveUntracked, SettleSession
  <2> QED BY <1>2, <2>1, StepForgets
<1>4. CASE ~(restart /\ ~HasPendingTxns(table))
  <2>1. curr' = curr /\ reversed' = reversed
    BY <1>4 DEF SaveUntracked, SettleSession
  <2>2. ASSUME NEW k \in Nat, reversed # <<>> \/ (curr[2] # 0 /\ k <= curr[2])
        PROVE  Line'[k] = Line[k]
    <3>1. StateAt(table, hub[version], <<curr[1], k>>)
              = StateAt(disk.txns, hub[disk.parent], <<curr[1], k>>)
      BY <2>2 DEF Follows
    <3>2. Line[k] = StateAt(disk.txns, hub[disk.parent], <<curr[1], k>>)
      BY <1>1 DEF InLine
    <3>3. Line'[k] = StateAt(disk'.txns, hub'[disk'.parent], <<curr'[1], k>>)
      BY <1>1 DEF InLine
    <3> QED BY <1>2, <2>1, <3>1, <3>2, <3>3
  <2>3. UpTo(Line', curr[2]) = UpTo(Line, curr[2])
    <3>1. CASE curr[2] = 0
      BY <3>1 DEF UpTo
    <3>2. CASE curr[2] # 0
      <4>1. curr[2] \in Nat
        BY <1>1 DEF InLine, TxnIds
      <4> QED BY <2>2, <3>2, <4>1, SameBetween
    <3> QED BY <3>1, <3>2
  <2>4. Undoable' = Undoable
    BY <1>1, <2>1, <2>3 DEF InLine
  <2>5. Future' = Future
    <3>1. CASE reversed = <<>>
      BY <1>1, <2>1, <3>1, NothingAhead DEF InLine
    <3>2. CASE reversed # <<>>
      <4>1. Line' = Line
        BY <1>1, <2>2, <3>2 DEF InLine
      <4> QED BY <1>1, <2>1, <4>1 DEF InLine
    <3> QED BY <3>1, <3>2
  <2>6. hub[disk.parent]' \in States
    BY <1>1 DEF InLine
  <2>7. History!Push
    BY <1>2, <2>4, <2>5, <2>6 DEF History!Push, History!line, Future
  <2> QED BY <2>7 DEF History!Next
<1> QED BY <1>3, <1>4

(* SaveTxn starts a session, or leaves the line up to curr as it was and   *)
(* puts the state saved before at curr.                                    *)
LEMMA SaveTxnOnLine ==
    ASSUME NEW from, NEW base, NEW old \in States, SavedTo(from, base, old, "Whole"),
           NEW type \in TxnTypes, NEW change \in Changes, NEW s \in SaveTxn(from, type, change)
    PROVE  \/ type # "Data" /\ s.curr[2] = 0
           \/ /\ type = "Data" /\ s.curr = Increment(from.curr)
              /\ StateAt(s.txns, base, from.curr) = old
              /\ \A at \in TxnIds : ~Before(from.curr, at) =>
                    StateAt(s.txns, base, at) = StateAt(from.txns, base, at)
<1>1. PICK row \in Rows :
          /\ row.change = change /\ ~row.deleted
          /\ s.txns = Insert(from.txns, from.curr, row)
          /\ IF type = "Data" THEN s.curr = Increment(from.curr)
             ELSE s.curr \in NewSessions(s.txns)
  BY SaveTxnInserts
<1>2. CASE type # "Data"
  BY <1>1, <1>2, NewSessionIsStart
<1>3. CASE type = "Data"
  <2>1. /\ IsFiniteTable(from.txns) /\ from.curr \in TxnIds
        /\ AllBefore(from.txns, from.curr) /\ AllLive(from.txns)
        /\ Replay(from.txns, base) = old
    BY DEF SavedTo, IsSavedFree, IsSaved
  <2>2. IsFiniteTable(s.txns)
    BY <1>1, <2>1, InsertIsTable
  <2>3. ASSUME NEW at \in TxnIds, ~Before(from.curr, at)
        PROVE  StateAt(s.txns, base, at) = StateAt(from.txns, base, at)
    <3>1. AgreeBefore(s.txns, from.txns, at)
      <4>1. ASSUME NEW i \in TxnIds, Before(i, at) PROVE i # from.curr
        BY <2>3, <4>1
      <4> QED BY <1>1, <4>1 DEF AgreeBefore, Insert
    <3> QED BY <2>1, <2>2, <3>1, AgreeingTablesLeadAlike
  <2>4. StateAt(from.txns, base, from.curr) = old
    BY <2>1, ReplayIsStateAt DEF AllBefore
  <2>5. StateAt(s.txns, base, from.curr) = old
    BY <2>1, <2>3, <2>4, BeforeIsTotal
  <2> QED BY <1>1, <1>3, <2>3, <2>5
<1> QED BY <1>2, <1>3

(* A save that records a state.                                            *)
LEMMA StepSaves ==
    ASSUME AllInv, AllInv', job.op = "None", job'.op = "None", reversed' = <<>>,
           disk'.db \in States,
           Undoable' \in {Append(Undoable, disk.db), <<disk.db>>, <<>>}
    PROVE  History!Next
<1>1. InLine /\ InLine'
  BY StateIsInLine, NextIsInLine
<1>2. Future' = <<>>
  BY <1>1, NothingAhead DEF InLine
<1>3. hub[disk.parent]' \in States
  BY <1>1 DEF InLine
<1>4. History!Save
  BY <1>2 DEF History!Save, Future
<1>5. History!Push
  BY <1>3, <1>4 DEF History!Push
<1> QED BY <1>5 DEF History!Next

(* The Txns of a save, up to the one with the data.                        *)
LEMMA SaveDdlTxnOnLine ==
    ASSUME AllInv, NEW table, NEW base, Savable(table, base, "Whole"),
           NEW middle \in SaveDdlTxn([txns |-> WithoutReversed(table), curr |-> curr,
                                      multi |-> multi])
    PROVE  /\ SavedTo(middle, base, BeforeEdits, "Whole") /\ BeforeEdits \in States
           /\ middle.curr \in TxnIds
           /\ \/ middle.curr[2] = 0
              \/ middle.curr = curr /\ middle.txns = WithoutReversed(table)
<1> DEFINE start == [txns |-> WithoutReversed(table), curr |-> curr, multi |-> multi]
<1>1. IsFiniteTable(table) /\ Sound(table, base, curr, reversed, "Whole") /\ curr \in TxnIds
  BY DEF AllInv, TypeInv, SessionOK, Savable
<1>2. IsSavedFree(start)
  BY <1>1, WithoutReversedIsTable, WithoutReversedIsBefore
  DEF IsSavedFree, IsSaved, AllInv, TypeInv, SessionOK, Savable
<1>3. AllLive(WithoutReversed(table)) /\ Sound(WithoutReversed(table), base, curr, <<>>, "Whole")
  BY <1>1, WithoutReversedRows, WithoutReversedIsSound
<1>4. SavedTo(start, base, BeforeEdits, "Whole")
  BY <1>2, <1>3 DEF SavedTo, Sound, Complete, Savable
<1>5. BeforeEdits \in States
  BY BeforeEditsIsState DEF AllInv, TypeInv
<1>6. start.curr = curr /\ start.txns = WithoutReversed(table)
  OBVIOUS
<1> HIDE DEF start
<1>7. SavedTo(middle, base, BeforeEdits, "Whole") /\ (middle.curr[2] = 0 \/ middle = start)
  <2>1. CASE ddl
    <3>1. middle \in SaveTxn(start, "Ddl", EmptyMap) /\ "Ddl" \in TxnTypes
      BY <2>1 DEF SaveDdlTxn, TxnTypes, start
    <3>2. SavedTo(middle, base, BeforeEdits, "Whole")
      BY <1>4, <1>5, <3>1, NoChangeLeads, SaveTxnRecords, EmptyIsChange
    <3>3. "Ddl" # "Data"
      OBVIOUS
    <3>4. middle.curr[2] = 0
      BY <1>4, <1>5, <3>1, <3>3, SaveTxnOnLine, EmptyIsChange
    <3> QED BY <3>2, <3>4
  <2>2. CASE ~ddl
    BY <1>4, <2>2 DEF SaveDdlTxn, start
  <2> QED BY <2>1, <2>2
<1>8. middle.curr \in TxnIds
  BY <1>7 DEF SavedTo, IsSavedFree, IsSaved
<1> QED BY <1>5, <1>6, <1>7, <1>8

(* What saving makes of the line, as far as it goes on.                    *)
LEMMA SavedLine ==
    ASSUME AllInv, NEW table, NEW version, Savable(table, hub[version], "Whole"),
           Follows(table, hub[version]), curr[2] # 0, NEW k \in Nat, k <= curr[2]
    PROVE  StateAt(WithoutReversed(table), hub[version], <<curr[1], k>>) = Line[k]
<1>1. InLine
  BY StateIsInLine
<1>2. IsFiniteTable(table) /\ Sound(table, hub[version], curr, reversed, "Whole") /\ curr \in TxnIds
  BY <1>1 DEF Savable, InLine
<1>3. StateAt(WithoutReversed(table), hub[version], <<curr[1], k>>)
          = StateAt(table, hub[version], <<curr[1], k>>)
  BY <1>2, DeletingReversedFollows DEF Sound
<1>4. StateAt(table, hub[version], <<curr[1], k>>)
          = StateAt(disk.txns, hub[disk.parent], <<curr[1], k>>)
  BY DEF Follows
<1> QED BY <1>1, <1>3, <1>4 DEF InLine

(* SaveChanges with edits puts the state recorded before on the line.      *)
LEMMA SaveTrackedIsPush ==
    ASSUME AllInv, AllInv', job.op = "None", job'.op = "None", ~Failed, hub' = hub,
           NEW table, NEW version, NEW restart, SaveTracked(table, version, restart),
           Savable(table, hub[version], "Whole"), Follows(table, hub[version])
    PROVE  History!Next
<1>1. PICK state \in Propagated :
          LET start == [txns |-> WithoutReversed(table), curr |-> curr, multi |-> multi]
          IN \E middle \in SaveDdlTxn(start) :
             \E end \in SaveSchemaAndDataTxns(middle, Difference(BeforeEdits, state)) :
                /\ Cardinality(DOMAIN end.txns) <= MaxTxns /\ end.curr[2] <= MaxTxns
                /\ db' = state /\ txns' = end.txns
                /\ SettleSession(end.txns, end.curr, end.multi, <<>>, restart)
  BY DEF SaveTracked
<1> DEFINE start == [txns |-> WithoutReversed(table), curr |-> curr, multi |-> multi]
           change == Difference(BeforeEdits, state)
<1>2. PICK middle \in SaveDdlTxn(start) :
          \E end \in SaveSchemaAndDataTxns(middle, change) :
             /\ db' = state /\ txns' = end.txns
             /\ SettleSession(end.txns, end.curr, end.multi, <<>>, restart)
  BY <1>1
<1>3. PICK end \in SaveSchemaAndDataTxns(middle, change) :
          /\ db' = state /\ txns' = end.txns
          /\ SettleSession(end.txns, end.curr, end.multi, <<>>, restart)
  BY <1>2
<1>4. /\ SavedTo(middle, hub[version], BeforeEdits, "Whole") /\ BeforeEdits \in States
      /\ middle.curr \in TxnIds
      /\ \/ middle.curr[2] = 0
         \/ middle.curr = curr /\ middle.txns = WithoutReversed(table)
  BY SaveDdlTxnOnLine
<1>5. InLine /\ InLine' /\ BeforeEdits = disk.db
  BY StateIsInLine, NextIsInLine DEF AllInv, HistoryInv, OnlyEdits
<1>6. /\ state \in States /\ change \in Changes /\ Leads(change, BeforeEdits, state)
      /\ disk'.db = state /\ disk'.txns = end.txns /\ disk'.parent = version
  BY <1>3, <1>4, BeforeEditsIsState, DifferenceIsChange, DifferenceLeads
  DEF SaveTracked, Persist, AllInv, TypeInv
<1>7. reversed' = <<>> /\ (curr' = end.curr \/ curr'[2] = 0)
  BY <1>3, NewSessionIsStart DEF SettleSession
<1> HIDE DEF start, change
<1>8. CASE curr'[2] = 0
  <2>1. Undoable' = <<>>
    BY <1>5, <1>8 DEF InLine, UpTo
  <2> QED BY <1>6, <1>7, <2>1, StepSaves
<1>9. CASE curr'[2] # 0 /\ end = middle
  <2>1. curr' = curr /\ disk'.txns = WithoutReversed(table) /\ curr[2] # 0
    BY <1>4, <1>6, <1>7, <1>9
  <2>2. ASSUME NEW k \in Nat, k <= curr[2] PROVE Line'[k] = Line[k]
    <3>1. Line'[k] = StateAt(disk'.txns, hub'[disk'.parent], <<curr'[1], k>>)
      BY <1>5 DEF InLine
    <3>2. StateAt(WithoutReversed(table), hub[version], <<curr[1], k>>) = Line[k]
      BY <2>1, <2>2, SavedLine
    <3> QED BY <1>6, <2>1, <3>1, <3>2
  <2>3. curr[2] \in Nat
    BY <1>5 DEF InLine, TxnIds
  <2>4. UpTo(Line', curr[2]) = UpTo(Line, curr[2])
    BY <2>2, <2>3, SameBetween
  <2>5. Undoable' = Undoable
    BY <1>5, <2>1, <2>4 DEF InLine
  <2>6. /\ Replay(end.txns, hub[version]) = BeforeEdits
    BY <1>4, <1>9 DEF SavedTo
  <2>7. disk'.db = disk.db
    <3>1. AllLive(disk'.txns) /\ IsFiniteTable(disk'.txns)
      BY <1>4, <1>6, <1>9 DEF SavedTo, IsSavedFree, IsSaved
    <3>2. WithoutReversed(disk'.txns) = disk'.txns
      BY <3>1, NothingToDelete DEF AllLive
    <3>3. disk'.db = Replay(WithoutReversed(disk'.txns), hub'[disk'.parent])
      BY DEF AllInv, RecordInv, FileInv, DiskRecorded
    <3> QED BY <1>5, <1>6, <2>6, <3>2, <3>3
  <2> QED BY <1>7, <2>5, <2>7, StepForgets
<1>10. CASE curr'[2] # 0 /\ end # middle
  <2> DEFINE type == IF DOMAIN DirectChange \cap SchemaKeys # {} THEN "EcSchema" ELSE "Data"
             m == middle.curr[2]
  <2>1. end \in SaveTxn(middle, type, change) /\ type \in TxnTypes
    BY <1>10 DEF SaveSchemaAndDataTxns, TxnTypes
  <2> HIDE DEF type
  <2>2. /\ curr' = Increment(middle.curr)
        /\ StateAt(disk'.txns, hub[version], middle.curr) = disk.db
        /\ \A at \in TxnIds : ~Before(middle.curr, at) =>
              StateAt(disk'.txns, hub[version], at) = StateAt(middle.txns, hub[version], at)
    BY <1>4, <1>5, <1>6, <1>7, <1>10, <2>1, SaveTxnOnLine
  <2>3. /\ m \in Nat /\ curr'[1] = middle.curr[1] /\ curr'[2] = m + 1
        /\ middle.curr = <<curr'[1], m>>
    BY <1>4, <2>2 DEF Increment, TxnIds
  <2>4. ASSUME NEW k \in Nat
        PROVE  Line'[k] = StateAt(disk'.txns, hub[version], <<curr'[1], k>>)
    BY <1>5, <1>6 DEF InLine
  <2>5. Line'[m] = disk.db
    BY <2>2, <2>3, <2>4
  <2>6. Undoable' = UpTo(Line', m + 1)
    BY <1>5, <2>3 DEF InLine
  <2>7. Line' \in [Nat -> States]
    BY <1>5 DEF InLine
  <2> HIDE DEF m
  <2>8. /\ UpTo(Line', m + 1) = Append(UpTo(Line', m), Line'[m])
        /\ UpTo(Line', 1) = <<Line'[0]>>
    BY <2>3, <2>7, SaveOnLine
  <2>9. CASE m = 0
    <3>1. Undoable' = <<disk.db>>
      BY <2>5, <2>6, <2>8, <2>9
    <3> QED BY <1>6, <1>7, <3>1, StepSaves
  <2>10. CASE m # 0
    <3>1. middle.curr = curr /\ middle.txns = WithoutReversed(table) /\ m = curr[2]
      BY <1>4, <2>10 DEF m
    <3>2. ASSUME NEW k \in Nat, k <= m PROVE Line'[k] = Line[k]
      <4>1. <<curr'[1], k>> \in TxnIds /\ ~Before(middle.curr, <<curr'[1], k>>)
        BY <1>4, <2>3, <3>2 DEF Before, TxnIds
      <4>2. Line'[k] = StateAt(middle.txns, hub[version], <<curr'[1], k>>)
        BY <2>2, <2>4, <4>1
      <4>3. StateAt(WithoutReversed(table), hub[version], <<curr[1], k>>) = Line[k]
        BY <2>10, <3>1, <3>2, SavedLine
      <4> QED BY <2>3, <3>1, <4>2, <4>3
    <3>3. UpTo(Line', m) = UpTo(Line, m)
      BY <2>3, <3>2, SameBetween
    <3>4. Undoable = UpTo(Line, m)
      BY <1>5, <3>1 DEF InLine
    <3>5. Undoable' = Append(Undoable, disk.db)
      BY <2>5, <2>6, <2>8, <3>3, <3>4
    <3> QED BY <1>6, <1>7, <3>5, StepSaves
  <2> QED BY <2>9, <2>10
<1> QED BY <1>8, <1>9, <1>10

(* What a save leaves out.                                                 *)
LEMMA SaveFailsForgets ==
    ASSUME AllInv, AllInv', job.op = "None", UNCHANGED <<job, hub>>,
           NEW table, NEW version, SaveFails(table, version)
    PROVE  History!Next
<1>1. UNCHANGED <<disk, curr>> /\ reversed' = <<>> /\ disk'.db = disk.db
  BY DEF SaveFails
<1> QED BY <1>1, StepForgets

LEMMA SaveChangesIsPush ==
    ASSUME AllInv, AllInv', AbandonsFailure, SaveChanges
    PROVE  History!Next \/ UNCHANGED History!vars
<1>1. /\ Rest("Whole") /\ job.op = "None" /\ ~Failed /\ UNCHANGED <<creating, job, hub>> /\ Settled
  BY ReadyIsAtRest, ReadyIsSettled DEF SaveChanges, AllInv
<1>2. parent \in 1..Len(hub) /\ hub[parent] \in States
  BY <1>1, ElementOfSeq DEF Rest, ParentsOK, AllInv, TypeInv, HubOK
<1>3. Savable(txns, hub[parent], "Whole")
  BY <1>1, <1>2
  DEF Savable, Rest, BeforeEditsRecorded, Settled, AllInv, TypeInv, FileOK
<1>4. Follows(txns, hub[parent])
  BY <1>1 DEF AllInv, HistoryInv, SameLine
<1>5. CASE SaveUntracked(txns, parent, FALSE)
  BY <1>1, <1>4, <1>5, SaveUntrackedIsPush
<1>6. CASE SaveTracked(txns, parent, FALSE)
  BY <1>1, <1>3, <1>4, <1>6, SaveTrackedIsPush
<1>7. CASE SaveFails(txns, parent)
  BY <1>1, <1>7, SaveFailsForgets
<1>8. CASE SaveRefused
  BY <1>1, <1>8, StepStutters DEF SaveRefused
<1> QED BY <1>5, <1>6, <1>7, <1>8 DEF SaveChanges

(* The end of a push moves the base of the line along the line.            *)
LEMMA FinishIsPush ==
    ASSUME AllInv, AllInv', AbandonsFailure, FinishCreateChangeset
    PROVE  History!Next
<1> DEFINE end == creating.end
           table == From(txns, end)
           version == creating.parent + 1
<1>1. /\ Rest("Whole") /\ job.op = "None" /\ ~Failed /\ UNCHANGED <<job, hub>> /\ Settled
      /\ creating.uploaded
      /\ \/ SaveUntracked(table, version, TRUE)
         \/ SaveTracked(table, version, TRUE)
         \/ SaveFails(table, version)
  BY ReadyIsAtRest, ReadyIsSettled DEF FinishCreateChangeset, AllInv
<1>2. parent \in 1..Len(hub) /\ hub[parent] \in States
  BY <1>1, ElementOfSeq DEF Rest, ParentsOK, AllInv, TypeInv, HubOK
<1>3. /\ creating.active /\ end \in TxnIds /\ ~Before(SessionStart(curr), end)
      /\ creating.parent = parent /\ version \in 1..Len(hub)
  BY <1>1 DEF Rest, PushInv
<1>4. /\ hub[version] = StateAt(txns, hub[parent], end)
      /\ \A i \in DOMAIN txns : Before(i, end) => ~txns[i].deleted
  BY <1>1, <1>3 DEF Rest, Packaged
<1>5. IsFiniteTable(txns) /\ curr \in TxnIds /\ reversed \in Seq(Ranges)
  BY DEF AllInv, TypeInv, FileOK, SessionOK
<1>6. Savable(table, hub[version], "Whole")
  <2>2. Freed(txns, curr) /\ Stacked(reversed, curr)
    BY <1>1 DEF Settled
  <2>3. /\ Sound(txns, hub[parent], curr, reversed, "Whole") /\ IsStack(reversed, curr)
        /\ BeforeEdits = Replay(WithoutReversed(txns), hub[parent])
    BY <1>1 DEF Rest, BeforeEditsRecorded
  <2>4. IsFiniteTable(table) /\ Freed(table, curr)
    BY <1>5, <2>2, FromIsTable, KeepIsFreed DEF From
  <2>5. Sound(table, hub[version], curr, reversed, "Whole")
    BY <1>2, <1>3, <1>4, <1>5, <2>2, <2>3, PushedIsSound
  <2>6. BeforeEdits = Replay(WithoutReversed(table), hub[version])
    BY <1>2, <1>3, <1>4, <1>5, <2>3, PushedReplays
  <2>7. hub[version] \in States
    BY <1>3, ElementOfSeq DEF AllInv, TypeInv, HubOK
  <2> HIDE DEF table, version
  <2> QED BY <2>4, <2>5, <2>6, <2>7 DEF Savable
<1>7. Follows(table, hub[version])
  <2>1. Follows(txns, hub[parent])
    BY <1>1 DEF AllInv, HistoryInv, SameLine
  <2>2. ASSUME NEW k \in Nat, reversed # <<>> \/ (curr[2] # 0 /\ k <= curr[2])
        PROVE  StateAt(table, hub[version], <<curr[1], k>>)
                   = StateAt(disk.txns, hub[disk.parent], <<curr[1], k>>)
    <3>1. <<curr[1], k>> \in TxnIds /\ <<curr[1], k>>[1] >= curr[1]
      BY <1>5 DEF TxnIds
    <3>2. ~Before(<<curr[1], k>>, end)
      BY <1>3, <1>5, <3>1, SessionStartIsFirst
    <3>3. StateAt(table, StateAt(txns, hub[parent], end), <<curr[1], k>>)
              = StateAt(txns, hub[parent], <<curr[1], k>>)
      BY <1>2, <1>3, <1>5, <3>1, <3>2, DeletingPushedAgrees
    <3>4. StateAt(txns, hub[parent], <<curr[1], k>>)
              = StateAt(disk.txns, hub[disk.parent], <<curr[1], k>>)
      BY <2>1, <2>2 DEF Follows
    <3> QED BY <1>4, <3>3, <3>4
  <2> HIDE DEF table, version
  <2> QED BY <2>2 DEF Follows
<1> HIDE DEF table, version
<1>8. CASE SaveUntracked(table, version, TRUE)
  BY <1>1, <1>7, <1>8, SaveUntrackedIsPush
<1>9. CASE SaveTracked(table, version, TRUE)
  BY <1>1, <1>6, <1>7, <1>9, SaveTrackedIsPush
<1>10. CASE SaveFails(table, version)
  BY <1>1, <1>10, SaveFailsForgets
<1> QED BY <1>1, <1>8, <1>9, <1>10

(* The calls that touch neither the file nor the session, and those that   *)
(* start another one.                                                      *)
LEMMA SessionActionsAreHistory ==
    ASSUME AllInv, AllInv', AbandonsFailure,
           \/ \E key \in Keys, value \in Values : Edit(key, value)
           \/ EditDdl \/ SaveChanges \/ AbandonChanges
           \/ BeginMultiTxnOperation \/ EndMultiTxnOperation \/ RestartTxnSession
    PROVE  History!Next \/ UNCHANGED History!vars
<1>1. CASE \/ \E key \in Keys, value \in Values : Edit(key, value)
           \/ EditDdl \/ AbandonChanges \/ BeginMultiTxnOperation \/ EndMultiTxnOperation
  <2>1. UNCHANGED <<disk, curr, reversed, job, hub>>
    BY <1>1 DEF Edit, EditDdl, AbandonChanges, BeginMultiTxnOperation, EndMultiTxnOperation
  <2> QED BY <2>1, StepStutters
<1>2. CASE SaveChanges
  BY <1>2, SaveChangesIsPush
<1>3. CASE RestartTxnSession
  <2>1. job.op = "None" /\ reversed' = <<>> /\ UNCHANGED <<disk, job, hub>> /\ curr'[2] = 0
    BY <1>3, NewSessionIsStart DEF RestartTxnSession, ClientReady
  <2> QED BY <2>1, StepForgets
<1> QED BY <1>1, <1>2, <1>3

(* Undo.                                                                   *)
LEMMA UndoIsHistory ==
    ASSUME AllInv, AllInv', AbandonsFailure, UndoNext
    PROVE  History!Next \/ UNCHANGED History!vars
<1>1. ASSUME NEW first, NEW cancel, ReverseRange(first, cancel)
      PROVE  History!Next
  <2>1. /\ job.op = "None" /\ job'.op = "Reverse"
        /\ UNCHANGED <<disk, curr, reversed, hub>>
    BY <1>1 DEF ReverseRange, ClientReady
  <2>2. History!Begin("Reverse")
    BY <2>1, StepBegins
  <2> QED BY <2>2 DEF History!Next
<1>2. CASE CancelNothing
  <2>1. job.op = "None" /\ reversed' = <<>> /\ UNCHANGED <<disk, curr, job, hub>>
    BY <1>2 DEF CancelNothing, ClientReady
  <2> QED BY <2>1, StepForgets
<1>3. CASE ReverseStep \/ ReinstateStep
  <2>1. UNCHANGED <<disk, curr, reversed, hub>> /\ job'.op = job.op
    BY <1>3 DEF ReverseStep, ReinstateStep, AllInv, TypeInv, JobOK
  <2> QED BY <2>1, StepStutters
<1>4. CASE ReverseDone
  BY <1>4, ReverseDoneIsUndo DEF History!Next
<1>5. CASE ReverseFails \/ ReinstateFails
  <2>1. /\ job.op \in {"Reverse", "Reinstate"} /\ job'.op = "None"
        /\ reversed' \in {reversed, <<>>} /\ UNCHANGED <<disk, curr, hub>>
    BY <1>5 DEF ReverseFails, ReinstateFails, Idle
  <2>2. History!End
    BY <2>1, StepEnds
  <2> QED BY <2>2 DEF History!Next
<1>6. CASE ReinstateTxn
  <2>1. /\ job.op = "None" /\ job'.op = "Reinstate"
        /\ UNCHANGED <<disk, curr, reversed, hub>>
    BY <1>6 DEF ReinstateTxn, ClientReady
  <2>2. History!Begin("Reinstate")
    BY <2>1, StepBegins
  <2> QED BY <2>2 DEF History!Next
<1>7. CASE ReinstateDone
  BY <1>7, ReinstateDoneIsRedo DEF History!Next
<1> QED BY <1>1, <1>2, <1>3, <1>4, <1>5, <1>6, <1>7
    DEF UndoNext, ReverseTxns, ReverseTo, CancelTo, ReverseAll

(* Pushing.                                                                *)
LEMMA PushIsHistory ==
    ASSUME AllInv, AllInv', AbandonsFailure, PushNext
    PROVE  History!Next \/ UNCHANGED History!vars
<1>1. CASE StartCreateChangeset
  <2>1. /\ job.op = "None" /\ ~Failed /\ DOMAIN tracked = {}
        /\ reversed' = <<>> /\ disk'.db = db /\ job' = job /\ curr'[2] = 0
    BY <1>1, ReadyIsAtRest, NewSessionIsStart
    DEF StartCreateChangeset, MayPush, Persist, HasChanges, HasDataChanges, AllInv
  <2>2. db = disk.db
    BY <2>1, NothingTracked DEF AllInv, HistoryInv, OnlyEdits
  <2> QED BY <2>1, <2>2, StepForgets
<1>2. CASE StartCreateChangesetFails
  <2>1. job.op = "None" /\ reversed' = <<>> /\ UNCHANGED <<disk, curr, job, hub>>
    BY <1>2 DEF StartCreateChangesetFails, MayPush, ClientReady
  <2> QED BY <2>1, StepForgets
<1>3. CASE Upload
  <2>1. disk.parent \in 1..Len(hub) /\ hub \in Seq(States)
    BY DEF AllInv, RecordInv, ParentsOK, TypeInv, HubOK
  <2>2. PICK tip : hub' = Append(hub, tip)
    BY <1>3 DEF Upload
  <2>3. hub'[disk.parent] = hub[disk.parent]
    BY <2>1, <2>2, LenProperties
  <2>4. UNCHANGED <<disk, curr, reversed, job>>
    BY <1>3 DEF Upload
  <2> QED BY <2>3, <2>4, StepStutters
<1>4. CASE FinishCreateChangeset
  BY <1>4, FinishIsPush
<1>5. CASE StopCreateChangeset
  <2>1. UNCHANGED <<disk, curr, reversed, job, hub>>
    BY <1>5 DEF StopCreateChangeset
  <2> QED BY <2>1, StepStutters
<1> QED BY <1>1, <1>2, <1>3, <1>4, <1>5 DEF PushNext

(* Discarding.                                                             *)
LEMMA DiscardIsHistory ==
    ASSUME AllInv, AllInv', AbandonsFailure, DiscardNext
    PROVE  History!Next \/ UNCHANGED History!vars
<1>0. InLine /\ InLine'
  BY StateIsInLine, NextIsInLine
<1>1. CASE DiscardLocalChanges
  <2>1. /\ job.op = "None" /\ job'.op = "Discard" /\ reversed' = <<>>
        /\ UNCHANGED <<disk, curr, hub>>
    BY <1>1 DEF DiscardLocalChanges, ClientReady, Idle
  <2>2. History!Begin("Discard")
    BY <2>1, StepBegins
  <2> QED BY <2>2 DEF History!Next
<1>2. CASE DiscardStep
  <2>1. UNCHANGED <<disk, curr, reversed, hub>> /\ job'.op = job.op
    BY <1>2 DEF DiscardStep, AllInv, TypeInv, JobOK
  <2> QED BY <2>1, StepStutters
<1>3. CASE DiscardFails
  <2>1. /\ job.op = "Discard" /\ job'.op = "None" /\ UNCHANGED <<disk, curr, reversed, hub>>
    BY <1>3 DEF DiscardFails, Idle
  <2>2. History!End
    BY <2>1, StepEnds
  <2> QED BY <2>2 DEF History!Next
<1>4. CASE DiscardReversed
  <2>1. /\ job.op = "Discard" /\ IdsBefore(txns, job.at) = {} /\ job'.op = "DeleteAll"
        /\ disk'.db = db /\ disk'.parent = parent /\ UNCHANGED <<reversed, hub>>
    BY <1>4 DEF DiscardReversed, Persist, Idle
  <2>2. /\ db = StateAt(txns, hub[parent], job.at) /\ ~Failed /\ reversed = <<>>
        /\ parent = disk.parent
    BY <2>1 DEF AllInv, RecordInv, Discarding, IsAt, OpenInv
  <2>3. \A i \in DOMAIN txns : ~Before(i, job.at)
    BY <2>1 DEF IdsBefore
  <2>4. disk'.db = hub[disk.parent]
    BY <1>0, <2>1, <2>2, <2>3, NothingBefore DEF InLine
  <2>5. Undoable' = <<>> /\ Future' = Future
    BY <1>0, <2>1, <2>2, NothingAhead DEF InLine
  <2>6. hub[disk.parent]' = hub[disk.parent]
    BY <2>1, <2>2
  <2>7. History!Discard
    BY <2>1, <2>4, <2>5, <2>6 DEF History!Discard, Future
  <2> QED BY <2>7 DEF History!Next
<1>5. CASE DeleteAllTxns
  <2>1. /\ job.op = "DeleteAll" /\ job'.op = "None" /\ curr' = <<1, 0>> /\ reversed' = <<>>
        /\ disk'.db = db /\ disk'.parent = parent /\ hub' = hub
    BY <1>5 DEF DeleteAllTxns, Persist, Idle
  <2>2. db = disk.db /\ parent = disk.parent /\ reversed = <<>>
    BY <2>1 DEF AllInv, RecordInv, Deleting, OpenInv
  <2>3. Undoable' = <<>> /\ Undoable = <<>>
    BY <1>0, <2>1 DEF InLine, UpTo
  <2>4. Future' = Future
    BY <1>0, <2>1, <2>2, NothingAhead DEF InLine
  <2>5. hub[disk.parent]' = hub[disk.parent]
    BY <2>1, <2>2
  <2>6. History!End
    BY <2>1, <2>2, <2>3, <2>4, <2>5 DEF History!End, Future
  <2> QED BY <2>6 DEF History!Next
<1> QED BY <1>1, <1>2, <1>3, <1>4, <1>5 DEF DiscardNext

(* A crash.                                                                *)
LEMMA CrashIsRestart ==
    ASSUME AllInv, AllInv', Crash
    PROVE  History!Restart
<1>1. InLine'
  BY NextIsInLine
<1>2. /\ curr'[2] = 0 /\ reversed' = <<>> /\ job'.op = "None" /\ UNCHANGED <<disk, hub>>
  BY NewSessionIsStart DEF Crash, Idle
<1>3. Undoable' = <<>> /\ Future' = <<>>
  BY <1>1, <1>2, NothingAhead DEF InLine, UpTo
<1> QED BY <1>2, <1>3 DEF History!Restart, Future

-------------------------------------------------------------------------------
(***************************************************************************)
(* The refinement.                                                         *)
(***************************************************************************)
(* A briefcase as downloaded.                                              *)
LEMMA HistoryInit == Init => History!Init
<1> SUFFICES ASSUME Init PROVE History!Init
  OBVIOUS
<1>1. /\ disk.db = InitialState /\ disk.parent = 1 /\ hub = <<InitialState>>
      /\ curr = <<1, 0>> /\ reversed = <<>> /\ job.op = "None"
  BY DEF Init, Idle
<1>2. hub[disk.parent] = disk.db /\ disk.db \in States
  BY <1>1, InitialStateAssumption
<1>3. Undoable = <<>> /\ Future = <<>>
  BY <1>1 DEF Undoable, Future
<1> QED BY <1>1, <1>2, <1>3 DEF History!Init, Future

(* Every step is one of UndoHistory, or changes nothing it knows of.       *)
LEMMA HistoryStep ==
    ASSUME AllInv, AllInv', AbandonsFailure, [Next]_vars
    PROVE  [History!Next]_(History!vars)
<1>1. CASE UNCHANGED vars
  BY <1>1, StepStutters
<1>2. CASE Crash
  BY <1>2, CrashIsRestart DEF History!Next
<1>3. CASE Next /\ ~Crash
  BY <1>3, SessionActionsAreHistory, UndoIsHistory, PushIsHistory, DiscardIsHistory DEF Next
<1> QED BY <1>1, <1>2, <1>3

(* The invariants of RecordProofs and the one above hold together.         *)
LEMMA AllIsInvariant ==
    ASSUME Careful
    PROVE  Spec => []AllInv
<1>1. Init => SessionInv /\ HistoryInv
  BY SessionInvInit, HistoryInvInit
<1>2. TypeInv /\ IdInv /\ RecordInv("Whole") /\ SessionInv /\ [Next]_vars => SessionInv'
  BY SessionInvStep DEF Careful
<1>3. TypeInv /\ TypeInv' /\ IdInv /\ RecordInv("Whole") /\ HistoryInv /\ [Next]_vars
          => HistoryInv'
  BY HistoryInvStep DEF Careful
<1>4. Spec => [](TypeInv /\ IdInv /\ RecordInv("Whole"))
  BY RecordIsInvariant, PTL
<1> QED BY <1>1, <1>2, <1>3, <1>4, PTL DEF Spec, AllInv

(* Undo, redo, discarding, saves, pushes, failures of any of them and      *)
(* crashes do to the recorded states exactly what UndoHistory says: undo   *)
(* goes back to states that were recorded, redo to exactly those undo      *)
(* left, and discarding to the version the briefcase has as its parent,    *)
(* each by one COMMIT or not at all.                                       *)
THEOREM UndoIsAlwaysExact ==
    ASSUME Careful
    PROVE  Spec => UndoIsExact
<1>1. Init => History!Init
  BY HistoryInit
<1>2. AllInv /\ AllInv' /\ [Next]_vars => [History!Next]_(History!vars)
  BY HistoryStep DEF Careful
<1>3. Spec => []AllInv
  BY AllIsInvariant
<1> QED BY <1>1, <1>2, <1>3, PTL DEF Spec, UndoIsExact, History!Spec
===============================================================================

