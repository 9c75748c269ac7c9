--------------------------- MODULE TxnFilesProofs ---------------------------
(***************************************************************************)
(* Local Txns keep their files, and undo and redo find them.  An invariant *)
(* that is inductive has to say where the open transaction and the file    *)
(* may differ during each call, and that the id a Txn is written at is not *)
(* that of a local Txn.                                                    *)
(***************************************************************************)
EXTENDS TxnFiles, TxnTableProofs, SequenceTheorems

-------------------------------------------------------------------------------
(* Where the parts of the state are constrained: the open transaction is   *)
(* still the one the call works in, and the briefcase is open.             *)
Live == call.op \notin {"Aborted", "RebaseFailed"}
IsOpen == call.op \notin {"Aborted", "Closed", "Refused"}

(* The end of a pull is saved with what it is the end of.                  *)
PullCommitted == pull = disk.pull

(* Which calls run inside a rebase, and where each may stand.              *)
OpsKnowPull ==
    /\ call.op \in {"Save", "FinishSave", "SaveFailed", "Cancel", "Push", "Finish",
                    "DeleteAll", "Discard", "Pull"} => pull = NoTxn
    /\ call.op \in {"Rebase", "Erase", "RebaseFailed"} => pull # NoTxn
    /\ call.at = "Files" =>
           call.op \in {"Save", "FinishSave", "Cancel", "Push", "Finish", "DeleteAll",
                       "Discard", "Pull", "Erase"}

(* The row the call has inserted and not committed yet.                    *)
Written(id) ==
    /\ id \in call.ids /\ call.at \notin {"Files", "Propagate"}
    /\ call.op \in {"Save", "FinishSave", "Rebase"}

(* Other rows of the open transaction have the checksums that are saved;   *)
(* outside a rebase they are the saved rows.                               *)
RowsAgree ==
    Live => \A id \in DOMAIN txns :
        \/ Written(id)
        \/ /\ id \in DOMAIN disk.txns /\ txns[id].change = disk.txns[id].change
           /\ pull = NoTxn => txns[id] = disk.txns[id]

(* Outside a rebase only reversed rows are deleted before the COMMIT, but   *)
(* by the calls that finish a push or give up every Txn.                   *)
RowsGone ==
    Live /\ pull = NoTxn => \A id \in DOMAIN disk.txns \ DOMAIN txns :
        \/ disk.txns[id].deleted
        \/ call.op \in {"Finish", "FinishSave", "SaveFailed", "DeleteAll"}

(* The id the next Txn gets is not that of a Txn that is still needed.     *)
NextIsFree ==
    IsOpen /\ pull = NoTxn =>
        /\ \A id \in DOMAIN txns : Before(id, curr) \/ txns[id].deleted
        /\ \A id \in DOMAIN disk.txns : Before(id, curr) \/ disk.txns[id].deleted

(* A closed briefcase has nothing but what was saved.                      *)
ClosedIsCommitted ==
    call.op \in {"Closed", "Refused"} => txns = disk.txns /\ redo = <<>>

(* The Txns to rebase come before the end of the rebase.                   *)
EndIsLast ==
    disk.pull # NoTxn => \A id \in DOMAIN disk.txns : Before(id, disk.pull)

(* A save that has deleted the reversed Txns has m_curr for itself.        *)
NoneAfterCurr ==
    call.op \in {"Save", "FinishSave", "Pull"} /\ call.at # "Files" =>
        \A id \in DOMAIN txns : Before(id, curr)

(* A call deletes reversed Txns: all of them if it must, no others if it   *)
(* only may.                                                               *)
ReversedGo ==
    /\ call.op \in {"Save", "FinishSave", "Pull"} /\ call.at = "Files" =>
           Reversed \subseteq call.ids
    /\ call.op \in {"Save", "Cancel", "Push", "Discard", "Pull"} /\ call.at = "Files" =>
           call.ids \subseteq Reversed
    /\ call.op = "DeleteAll" => DOMAIN txns \subseteq call.ids

(* The files about to be deleted are not those of local Txns.              *)
DoomedAreNotLocal ==
    call.at = "Files" /\ call.op # "Erase" => \A id \in call.ids : ~IsLocal(id)

(* Once the call has read or written the files of its Txns they match.     *)
After == {"Read", "Propagate", "Write", "Insert", "InsertLast", "Commit"}
WrittenAreValid ==
    call.at \in After => \A id \in call.ids \cap DOMAIN txns : IsValid(txns, id)

(* The row is inserted for a file that was written to its end.             *)
NewFileIsWhole ==
    call.at \in {"Insert", "InsertLast"} =>
        curr \in DOMAIN files /\ files[curr] \in Changesets

(* A rebase replaces one file, and knows what was in it.                   *)
OldFileIsKept ==
    /\ call.op = "Erase" => call.at \in {"Files", "Commit"}
    /\ call.op = "Rebase" =>
           /\ call.at \in {"MoveAside", "MoveIn", "Commit"}
           /\ \E id \in DOMAIN txns \cap DOMAIN disk.txns :
                 call.ids = {id} /\ call.kept = disk.txns[id].change

(* What redo would bring back lies after m_curr, the next one first.       *)
RedoInOrder ==
    /\ \A n \in DOMAIN redo : ~Before(redo[n].last, curr)
    /\ \A m, n \in DOMAIN redo : m < n => ~Before(redo[m].last, redo[n].last)

(* Saving and rebasing have nothing to redo.                               *)
NoRedo ==
    call.op \in {"Save", "FinishSave", "Pull"} \/ pull # NoTxn => redo = <<>>

(* The invariant, in five parts.                                           *)
PullInv ==
    PullCommitted /\ OpsKnowPull /\ EndIsLast /\ ClosedIsCommitted /\ NoRedo
RowsInv == RowsAgree /\ RowsGone
IdsInv == NextIsFree /\ NoneAfterCurr /\ RedoInOrder
CallInv == ReversedGo /\ WrittenAreValid /\ NewFileIsWhole /\ OldFileIsKept
KeepInv == LocalTxnsKeepFiles /\ DoomedAreNotLocal

FilesInv == FilesTypeOK /\ PullInv /\ RowsInv /\ IdsInv /\ CallInv /\ KeepInv

(* The mishaps the code does not survive do not happen.                    *)
Safe == Mishaps \cap {"CrashWhileReplacing", "FailWhileReplacing", "DiscardWhilePulling"} = {}

-------------------------------------------------------------------------------
(* Marking rows as reversed or live changes nothing else of the table.     *)
LEMMA MarkedDomain ==
    ASSUME NEW rows, NEW ids, NEW flag
    PROVE  DOMAIN Marked(rows, ids, flag) = DOMAIN rows
  BY DEF Marked

LEMMA MarkedKeepsChanges ==
    ASSUME NEW rows, IsFileTable(rows), NEW ids, NEW flag \in BOOLEAN
    PROVE  \A i \in DOMAIN rows : Marked(rows, ids, flag)[i].change = rows[i].change
<1>1. \A i \in DOMAIN rows :
         Marked(rows, ids, flag)[i] =
             IF i \in ids THEN [rows[i] EXCEPT !.deleted = flag] ELSE rows[i]
  BY DEF Marked
<1> QED BY <1>1 DEF IsFileTable, FileRows

LEMMA MarkedFacts ==
    ASSUME NEW rows, IsFileTable(rows), NEW ids, NEW flag \in BOOLEAN
    PROVE  /\ IsFileTable(Marked(rows, ids, flag))
           /\ \A i \in DOMAIN rows :
                 /\ i \in ids => Marked(rows, ids, flag)[i].deleted = flag
                 /\ i \notin ids => Marked(rows, ids, flag)[i] = rows[i]
<1> DEFINE new == Marked(rows, ids, flag)
<1>1. /\ DOMAIN new = DOMAIN rows /\ new = [i \in DOMAIN new |-> new[i]]
      /\ \A i \in DOMAIN rows :
            new[i] = IF i \in ids THEN [rows[i] EXCEPT !.deleted = flag] ELSE rows[i]
  BY DEF Marked
<1> HIDE DEF new
<1>2. ASSUME NEW i \in DOMAIN rows
      PROVE  new[i] \in FileRows /\ (i \in ids => new[i].deleted = flag)
  BY <1>1 DEF IsFileTable, FileRows
<1>3. IsFileTable(new)
  BY <1>1, <1>2 DEF IsFileTable
<1>4. \A i \in DOMAIN rows : i \notin ids => new[i] = rows[i]
  BY <1>1
<1> QED BY <1>2, <1>3, <1>4 DEF new

LEMMA MarkedIsFileTable ==
    ASSUME NEW rows, IsFileTable(rows), NEW ids, NEW flag \in BOOLEAN
    PROVE  IsFileTable(Marked(rows, ids, flag))
  BY MarkedFacts

(* Deleting rows leaves the others as they are.                            *)
LEMMA WithoutFacts ==
    ASSUME NEW table, NEW ids
    PROVE  /\ DOMAIN Without(table, ids) = DOMAIN table \ ids
           /\ \A i \in DOMAIN table \ ids : Without(table, ids)[i] = table[i]
           /\ Without(table, ids) = [i \in DOMAIN Without(table, ids) |-> Without(table, ids)[i]]
           /\ IsFileTable(table) => IsFileTable(Without(table, ids))
<1>1. /\ DOMAIN Without(table, ids) = DOMAIN table \ ids
      /\ \A i \in DOMAIN table \ ids : Without(table, ids)[i] = table[i]
      /\ Without(table, ids) = [i \in DOMAIN Without(table, ids) |-> Without(table, ids)[i]]
  BY DEF Without
<1> QED BY <1>1 DEF IsFileTable

(* Inserting a row, or replacing one, leaves the others as they are.       *)
LEMMA InsertDomain ==
    ASSUME NEW table, NEW id, NEW row
    PROVE  DOMAIN Insert(table, id, row) = DOMAIN table \cup {id}
  BY DEF Insert

LEMMA InsertFacts ==
    ASSUME NEW table, NEW id, NEW row
    PROVE  /\ Insert(table, id, row)[id] = row
           /\ \A i \in DOMAIN table \ {id} : Insert(table, id, row)[i] = table[i]
  BY DEF Insert

LEMMA InsertIsFileTable ==
    ASSUME NEW table, NEW id \in TxnIds, NEW row \in FileRows, IsFileTable(table)
    PROVE  IsFileTable(Insert(table, id, row))
<1> DEFINE new == Insert(table, id, row)
<1>1. new = [i \in DOMAIN new |-> new[i]]
  BY DEF Insert
<1>2. /\ DOMAIN new = DOMAIN table \cup {id} /\ new[id] = row
      /\ \A i \in DOMAIN table \ {id} : new[i] = table[i]
  BY DEF Insert
<1> HIDE DEF new
<1>3. IsFileTable(new)
  BY <1>1, <1>2 DEF IsFileTable
<1> QED BY <1>3 DEF new

(* Marking one row as live, likewise.                                      *)
LEMMA SetDeletedFacts ==
    ASSUME NEW table, IsFileTable(table), NEW id \in DOMAIN table, NEW flag \in BOOLEAN
    PROVE  /\ IsFileTable(SetDeleted(table, id, flag))
           /\ DOMAIN SetDeleted(table, id, flag) = DOMAIN table
           /\ \A i \in DOMAIN table : SetDeleted(table, id, flag)[i].change = table[i].change
<1> DEFINE new == SetDeleted(table, id, flag)
<1>1. /\ DOMAIN new = DOMAIN table /\ new = [i \in DOMAIN new |-> new[i]]
      /\ \A i \in DOMAIN table :
            new[i] = IF i = id THEN [table[i] EXCEPT !.deleted = flag] ELSE table[i]
  BY DEF SetDeleted, IsFileTable
<1> HIDE DEF new
<1>2. ASSUME NEW i \in DOMAIN table
      PROVE  new[i] \in FileRows /\ new[i].change = table[i].change
  BY <1>1 DEF IsFileTable, FileRows
<1>3. IsFileTable(new)
  BY <1>1, <1>2 DEF IsFileTable
<1> QED BY <1>1, <1>2, <1>3 DEF new

(* A new session is after every row.                                       *)
LEMMA NewSessionIsLast ==
    ASSUME NEW table, DOMAIN table \subseteq TxnIds, NEW id \in NewSessions(table)
    PROVE  id \in TxnIds /\ \A i \in DOMAIN table : Before(i, id)
<1>1. IsNewSession(table, id) /\ id \in TxnIds
  BY BoundsAssumption DEF NewSessions, TxnIds
<1>2. CASE DOMAIN table = {}
  BY <1>1, <1>2
<1>3. ASSUME NEW last \in DOMAIN table, IsLast(last, DOMAIN table), id = <<last[1] + 1, 0>>
      PROVE  \A i \in DOMAIN table : Before(i, id)
  BY <1>3 DEF IsLast, Before, TxnIds
<1> QED BY <1>1, <1>2, <1>3 DEF IsNewSession

(* Writing and removing a file.                                            *)
LEMMA WriteFileFacts ==
    ASSUME NEW id, NEW content, WriteFile(id, content)
    PROVE  /\ DOMAIN files' = DOMAIN files \cup {id} /\ files'[id] = content
           /\ \A i \in DOMAIN files \ {id} : files'[i] = files[i]
           /\ files' = [i \in DOMAIN files' |-> files'[i]]
<1>1. /\ DOMAIN files' = DOMAIN files \cup {id} /\ files' = [i \in DOMAIN files' |-> files'[i]]
      /\ \A i \in DOMAIN files' : files'[i] = IF i = id THEN content ELSE files[i]
  BY DEF WriteFile
<1> QED BY <1>1

LEMMA RemoveFileFacts ==
    ASSUME NEW id, RemoveFile(id)
    PROVE  /\ DOMAIN files' = DOMAIN files \ {id}
           /\ \A i \in DOMAIN files \ {id} : files'[i] = files[i]
           /\ files' = [i \in DOMAIN files' |-> files'[i]]
<1>1. files' = Without(files, {id})
  BY DEF RemoveFile
<1>2. LET new == Without(files, {id})
      IN  /\ DOMAIN new = DOMAIN files \ {id} /\ new = [i \in DOMAIN new |-> new[i]]
          /\ \A i \in DOMAIN files \ {id} : new[i] = files[i]
  BY WithoutFacts
<1> QED BY <1>1, <1>2

(* Reversed holds the ids of the reversed rows, before a step and after.   *)
LEMMA ReversedFacts ==
    /\ Reversed \subseteq DOMAIN txns
    /\ \A id \in DOMAIN txns : id \in Reversed <=> txns[id].deleted
    /\ Reversed' \subseteq DOMAIN txns'
    /\ \A id \in DOMAIN txns' : id \in Reversed' <=> txns'[id].deleted
  BY DEF Reversed

(* What undo and redo do to the rows: they change flags of committed rows  *)
(* alone, give no Txn that cannot be read back, and leave nothing live     *)
(* from the new m_curr on; or they fail, and all is rolled back.           *)
Replayed(at) ==
    \/ /\ IsFileTable(txns') /\ DOMAIN txns' \subseteq DOMAIN disk.txns
       /\ \A i \in DOMAIN txns' :
             /\ txns'[i].change = disk.txns[i].change
             /\ \/ txns'[i] = disk.txns[i] \/ txns'[i].deleted
                \/ i \in DOMAIN files /\ files[i] = txns'[i].change
             /\ Before(i, at) \/ txns'[i].deleted
       /\ curr' = at /\ pull' = NoTxn /\ disk' = [txns |-> txns', pull |-> NoTxn]
       /\ released' = released \cap DOMAIN txns'
    \/ Rollback /\ UNCHANGED <<disk, released, curr>>

(* The redo stack as a sequence: its entries, and pushing one more.        *)
LEMMA StackFacts ==
    ASSUME NEW S, NEW s \in Seq(S)
    PROVE  /\ Len(s) \in Nat /\ DOMAIN s = 1 .. Len(s)
           /\ \A n \in DOMAIN s : s[n] \in S
           /\ s # <<>> => Len(s) \in DOMAIN s /\ s[Len(s)] \in S
<1>1. Len(s) \in Nat /\ DOMAIN s = 1 .. Len(s)
  BY LenProperties
<1>2. \A n \in DOMAIN s : s[n] \in S
  BY <1>1, ElementOfSeq
<1>3. s # <<>> => Len(s) \in Nat \ {0}
  BY EmptySeq
<1> QED BY <1>1, <1>2, <1>3

LEMMA PushFacts ==
    ASSUME NEW S, NEW s \in Seq(S), NEW e \in S
    PROVE  /\ Append(s, e) \in Seq(S)
           /\ DOMAIN Append(s, e) = 1 .. Len(s) + 1
           /\ \A n \in 1 .. Len(s) : Append(s, e)[n] = s[n]
           /\ Append(s, e)[Len(s) + 1] = e
<1>1. Append(s, e) \in Seq(S) /\ Len(Append(s, e)) = Len(s) + 1
  BY AppendProperties
<1>2. DOMAIN Append(s, e) = 1 .. Len(s) + 1
  BY <1>1, LenProperties
<1> QED BY <1>1, <1>2, AppendProperties

(* Between calls the rows of the open transaction are those of the file,   *)
(* but for rows that were deleted.                                         *)
LEMMA RowsBetweenCalls ==
    ASSUME FilesInv, call = Idle, pull = NoTxn, NEW rows \in {txns, disk.txns}
    PROVE  /\ IsFileTable(rows) /\ DOMAIN rows \subseteq DOMAIN disk.txns
           /\ DOMAIN rows \subseteq TxnIds
           /\ \A i \in DOMAIN rows :
                 rows[i] = disk.txns[i] /\ (Before(i, curr) \/ rows[i].deleted)
<1>1. IsFileTable(rows) /\ DOMAIN rows \subseteq TxnIds
  BY DEF FilesInv, FilesTypeOK, IsFileTable
<1>2. /\ DOMAIN rows \subseteq DOMAIN disk.txns
      /\ \A i \in DOMAIN rows : rows[i] = disk.txns[i]
  BY DEF FilesInv, RowsInv, RowsAgree, Live, Written, Idle
<1>3. \A i \in DOMAIN rows : Before(i, curr) \/ rows[i].deleted
  BY DEF FilesInv, IdsInv, NextIsFree, IsOpen, Idle
<1> QED BY <1>1, <1>2, <1>3

LEMMA ReverseRowsReplays ==
    ASSUME FilesInv, NEW first \in TxnIds, MayUndo(first), ReverseRows(first)
    PROVE  Replayed(first)
<1>1. call = Idle /\ pull = NoTxn
  BY DEF MayUndo, ClientReady
<1>2. ASSUME NEW rows \in {txns, disk.txns}, NEW range, range = InRange(rows, first, curr),
             Readable(rows, range), txns' = Marked(rows, range, TRUE), pull' = pull,
             curr' = first, Persist
      PROVE  Replayed(first)
  <2>1. /\ IsFileTable(rows) /\ DOMAIN rows \subseteq DOMAIN disk.txns
        /\ \A i \in DOMAIN rows :
              rows[i] = disk.txns[i] /\ (Before(i, curr) \/ rows[i].deleted)
    BY <1>1, RowsBetweenCalls
  <2>0. IsFileTable(rows)
    BY <2>1
  <2>2. DOMAIN txns' = DOMAIN rows
    BY <1>2, MarkedDomain
  <2>3. \A i \in DOMAIN rows : txns'[i].change = rows[i].change
    <3>1. \A i \in DOMAIN rows : Marked(rows, range, TRUE)[i].change = rows[i].change
      BY <2>0, MarkedKeepsChanges
    <3> QED BY <1>2, <3>1
  <2>4. /\ IsFileTable(txns')
        /\ \A i \in DOMAIN rows : IF i \in range THEN txns'[i].deleted ELSE txns'[i] = rows[i]
    BY <1>2, <2>1, MarkedFacts, ZenonT(30)
  <2>5. \A i \in DOMAIN rows : i \in range \/ Before(i, first) \/ ~Before(i, curr)
    BY <1>2 DEF InRange
  <2>6. /\ pull' = NoTxn /\ disk' = [txns |-> txns', pull |-> NoTxn]
        /\ released' = released \cap DOMAIN txns'
    BY <1>1, <1>2 DEF Persist, Idle
  <2> QED BY <1>2, <2>1, <2>2, <2>3, <2>4, <2>5, <2>6 DEF Replayed
<1> QED BY <1>2 DEF ReverseRows, Replayed

LEMMA ReinstateReplays ==
    ASSUME FilesInv, ReinstateTxn
    PROVE  /\ redo # <<>> /\ Replayed(redo[Len(redo)].last)
           /\ redo' = SubSeq(redo, 1, Len(redo) - 1) \/ (redo' = redo /\ curr' = curr)
<1> DEFINE top == redo[Len(redo)]
<1>1. call = Idle /\ pull = NoTxn /\ redo # <<>>
  BY DEF ReinstateTxn, ClientReady
<1>2. /\ top.last \in TxnIds /\ curr \in TxnIds /\ ~Before(top.last, curr)
  <2>1. redo \in Seq([first : TxnIds, last : TxnIds]) /\ curr \in TxnIds
    BY DEF FilesInv, FilesTypeOK
  <2>2. Len(redo) \in DOMAIN redo /\ redo[Len(redo)] \in [first : TxnIds, last : TxnIds]
    BY <1>1, <2>1, StackFacts
  <2>3. redo[Len(redo)].last \in TxnIds
    BY <2>2
  <2> QED BY <2>1, <2>2, <2>3 DEF FilesInv, IdsInv, RedoInOrder
<1>3. ASSUME NEW rows \in {txns, disk.txns}, NEW range,
             range = InRange(rows, top.first, top.last),
             Readable(rows, range), txns' = Marked(rows, range, FALSE), pull' = pull,
             curr' = top.last, Persist
      PROVE  Replayed(top.last)
  <2>1. /\ IsFileTable(rows) /\ DOMAIN rows \subseteq DOMAIN disk.txns
        /\ DOMAIN rows \subseteq TxnIds
        /\ \A i \in DOMAIN rows :
              rows[i] = disk.txns[i] /\ (Before(i, curr) \/ rows[i].deleted)
    BY <1>1, RowsBetweenCalls
  <2>0. IsFileTable(rows)
    BY <2>1
  <2>2. DOMAIN txns' = DOMAIN rows
    BY <1>3, MarkedDomain
  <2>3. \A i \in DOMAIN rows : txns'[i].change = rows[i].change
    <3>1. \A i \in DOMAIN rows : Marked(rows, range, FALSE)[i].change = rows[i].change
      BY <2>0, MarkedKeepsChanges
    <3> QED BY <1>3, <3>1
  <2>4. /\ IsFileTable(txns')
        /\ \A i \in DOMAIN rows : i \notin range => txns'[i] = rows[i]
    <3>1. /\ IsFileTable(Marked(rows, range, FALSE))
          /\ \A i \in DOMAIN rows : i \notin range => Marked(rows, range, FALSE)[i] = rows[i]
      <4>1. IsFileTable(Marked(rows, range, FALSE))
        BY <2>0, MarkedIsFileTable
      <4>2. \A i \in DOMAIN rows : i \notin range => Marked(rows, range, FALSE)[i] = rows[i]
        BY DEF Marked
      <4> QED BY <4>1, <4>2
    <3> QED BY <1>3, <3>1
  <2>5. \A i \in range : Before(i, top.last) /\ i \in DOMAIN files /\ files[i] = rows[i].change
    BY <1>3 DEF InRange, Readable, IsValid
  <2>6. \A i \in DOMAIN rows : Before(i, curr) => Before(i, top.last)
    BY <1>2, <2>1, BeforeIsTotal, BeforeIsTransitive
  <2>7. /\ pull' = NoTxn /\ disk' = [txns |-> txns', pull |-> NoTxn]
        /\ released' = released \cap DOMAIN txns'
    BY <1>1, <1>3 DEF Persist, Idle
  <2>8. DOMAIN txns' \subseteq DOMAIN disk.txns
    BY <2>1, <2>2
  <2>9. \A i \in DOMAIN txns' :
           /\ txns'[i].change = disk.txns[i].change
           /\ txns'[i] = disk.txns[i] \/ (i \in DOMAIN files /\ files[i] = txns'[i].change)
    BY <2>1, <2>2, <2>3, <2>4, <2>5
  <2>10. \A i \in DOMAIN txns' : Before(i, top.last) \/ txns'[i].deleted
    BY <2>1, <2>2, <2>4, <2>5, <2>6
  <2> QED BY <1>3, <2>4, <2>7, <2>8, <2>9, <2>10 DEF Replayed
<1> QED BY <1>1, <1>3 DEF ReinstateTxn, Replayed

-------------------------------------------------------------------------------

(* Abandoning gives the open transaction up for the saved rows.            *)
LEMMA AbandonChangesStep ==
    ASSUME FilesInv, Safe, AbandonChanges
    PROVE  FilesInv'
<1>0. FilesTypeOK
  BY DEF FilesInv
<1>t. FilesTypeOK'
  <2>1. call' \in Calls
    BY <1>0 DEF AbandonChanges, ClientReady, Rollback, Idle, FilesTypeOK,
       Calls, Ops, Places, Contents
  <2> QED
    BY <2>1, <1>0 DEF AbandonChanges, ClientReady, Rollback, Idle, rowVars,
       FilesTypeOK, IsFileTable, FileRows, Contents
<1>p. PullInv'
  BY <1>0, SMTT(15) DEF FilesInv, AbandonChanges, ClientReady, Rollback,
     Idle, rowVars, PullInv, PullCommitted, OpsKnowPull, EndIsLast,
     ClosedIsCommitted, NoRedo, FilesTypeOK, IsFileTable
<1>r. RowsInv'
  BY <1>0, SMTT(15) DEF FilesInv, AbandonChanges, ClientReady, Rollback,
     Idle, rowVars, PullInv, PullCommitted, OpsKnowPull, RowsInv, RowsAgree,
     RowsGone, Live, Written, FilesTypeOK, IsFileTable
<1>i. IdsInv'
  BY <1>0, SMTT(15) DEF FilesInv, AbandonChanges, ClientReady, Rollback,
     Idle, rowVars, PullInv, PullCommitted, OpsKnowPull, NoRedo, IdsInv,
     NextIsFree, IsOpen, NoneAfterCurr, RedoInOrder, FilesTypeOK, IsFileTable
<1>c. CallInv'
  BY <1>0, SMTT(15) DEF FilesInv, AbandonChanges, ClientReady, Rollback,
     Idle, rowVars, CallInv, ReversedGo, WrittenAreValid, NewFileIsWhole,
     OldFileIsKept, After, IsValid, FilesTypeOK, IsFileTable
<1>k. KeepInv'
  BY <1>0, SMTT(15) DEF FilesInv, AbandonChanges, ClientReady, Rollback,
     Idle, rowVars, PullInv, PullCommitted, OpsKnowPull, KeepInv,
     LocalTxnsKeepFiles, DoomedAreNotLocal, IsLocal, Replacing, IsValid,
     FilesTypeOK, IsFileTable
<1> QED
  BY <1>t, <1>p, <1>r, <1>i, <1>c, <1>k DEF FilesInv

(* A save that fails keeps its rows in the open transaction.               *)
LEMMA SaveFailsStep ==
    ASSUME FilesInv, Safe, SaveFails
    PROVE  FilesInv'
<1>0. FilesTypeOK
  BY DEF FilesInv
<1>t. FilesTypeOK'
  <2>1. call' \in Calls
    BY <1>0 DEF SaveFails, Saving, Idle, FilesTypeOK, Calls, Ops, Places,
       Contents
  <2> QED
    BY <2>1, <1>0 DEF SaveFails, Saving, Idle, rowVars, FilesTypeOK,
       IsFileTable, FileRows, Contents
<1>p. PullInv'
  BY <1>0, SMTT(15) DEF FilesInv, SaveFails, Saving, Idle, rowVars, PullInv,
     PullCommitted, OpsKnowPull, EndIsLast, ClosedIsCommitted, NoRedo,
     FilesTypeOK, IsFileTable
<1>r. RowsInv'
  BY <1>0, SMTT(15) DEF FilesInv, SaveFails, Saving, Idle, rowVars, PullInv,
     PullCommitted, OpsKnowPull, RowsInv, RowsAgree, RowsGone, Live, Written,
     FilesTypeOK, IsFileTable
<1>i. IdsInv'
  BY <1>0, SMTT(15) DEF FilesInv, SaveFails, Saving, Idle, rowVars, PullInv,
     PullCommitted, OpsKnowPull, NoRedo, IdsInv, NextIsFree, IsOpen,
     NoneAfterCurr, RedoInOrder, FilesTypeOK, IsFileTable
<1>c. CallInv'
  BY <1>0, SMTT(15) DEF FilesInv, SaveFails, Saving, Idle, rowVars, CallInv,
     ReversedGo, WrittenAreValid, NewFileIsWhole, OldFileIsKept, After,
     IsValid, FilesTypeOK, IsFileTable
<1>k. KeepInv'
  BY <1>0, SMTT(15) DEF FilesInv, SaveFails, Saving, Idle, rowVars, PullInv,
     PullCommitted, OpsKnowPull, KeepInv, LocalTxnsKeepFiles,
     DoomedAreNotLocal, IsLocal, Replacing, IsValid, FilesTypeOK, IsFileTable
<1> QED
  BY <1>t, <1>p, <1>r, <1>i, <1>c, <1>k DEF FilesInv

(* A push that fails to read a Txn has changed nothing.                    *)
LEMMA PackTxnsFailsStep ==
    ASSUME FilesInv, Safe, PackTxnsFails
    PROVE  FilesInv'
<1>0. FilesTypeOK
  BY DEF FilesInv
<1>t. FilesTypeOK'
  <2>1. call' \in Calls
    BY <1>0 DEF PackTxnsFails, Idle, FilesTypeOK, Calls, Ops, Places,
       Contents
  <2> QED
    BY <2>1, <1>0 DEF PackTxnsFails, Idle, rowVars, FilesTypeOK,
       IsFileTable, FileRows, Contents
<1>p. PullInv'
  BY <1>0, SMTT(15) DEF FilesInv, PackTxnsFails, Idle, rowVars, PullInv,
     PullCommitted, OpsKnowPull, EndIsLast, ClosedIsCommitted, NoRedo,
     FilesTypeOK, IsFileTable
<1>r. RowsInv'
  BY <1>0, SMTT(15) DEF FilesInv, PackTxnsFails, Idle, rowVars, PullInv,
     PullCommitted, OpsKnowPull, RowsInv, RowsAgree, RowsGone, Live, Written,
     FilesTypeOK, IsFileTable
<1>i. IdsInv'
  BY <1>0, SMTT(15) DEF FilesInv, PackTxnsFails, Idle, rowVars, PullInv,
     PullCommitted, OpsKnowPull, NoRedo, IdsInv, NextIsFree, IsOpen,
     NoneAfterCurr, RedoInOrder, FilesTypeOK, IsFileTable
<1>c. CallInv'
  BY <1>0, SMTT(15) DEF FilesInv, PackTxnsFails, Idle, rowVars, CallInv,
     ReversedGo, WrittenAreValid, NewFileIsWhole, OldFileIsKept, After,
     IsValid, FilesTypeOK, IsFileTable
<1>k. KeepInv'
  BY <1>0, SMTT(15) DEF FilesInv, PackTxnsFails, Idle, rowVars, PullInv,
     PullCommitted, OpsKnowPull, KeepInv, LocalTxnsKeepFiles,
     DoomedAreNotLocal, IsLocal, Replacing, IsValid, FilesTypeOK, IsFileTable
<1> QED
  BY <1>t, <1>p, <1>r, <1>i, <1>c, <1>k DEF FilesInv

(* Stopping a push only forgets the Txn it ends with.                      *)
LEMMA StopCreateChangesetStep ==
    ASSUME FilesInv, Safe, StopCreateChangeset
    PROVE  FilesInv'
<1>0. FilesTypeOK
  BY DEF FilesInv
<1>t. FilesTypeOK'
  <2>1. call' \in Calls
    BY <1>0 DEF StopCreateChangeset, ClientReady, Idle, FilesTypeOK, Calls,
       Ops, Places, Contents
  <2> QED
    BY <2>1, <1>0 DEF StopCreateChangeset, ClientReady, Idle, rowVars,
       FilesTypeOK, IsFileTable, FileRows, Contents
<1>p. PullInv'
  BY <1>0, SMTT(15) DEF FilesInv, StopCreateChangeset, ClientReady, Idle,
     rowVars, PullInv, PullCommitted, OpsKnowPull, EndIsLast,
     ClosedIsCommitted, NoRedo, FilesTypeOK, IsFileTable
<1>r. RowsInv'
  BY <1>0, SMTT(15) DEF FilesInv, StopCreateChangeset, ClientReady, Idle,
     rowVars, PullInv, PullCommitted, OpsKnowPull, RowsInv, RowsAgree,
     RowsGone, Live, Written, FilesTypeOK, IsFileTable
<1>i. IdsInv'
  BY <1>0, SMTT(15) DEF FilesInv, StopCreateChangeset, ClientReady, Idle,
     rowVars, PullInv, PullCommitted, OpsKnowPull, NoRedo, IdsInv,
     NextIsFree, IsOpen, NoneAfterCurr, RedoInOrder, FilesTypeOK, IsFileTable
<1>c. CallInv'
  BY <1>0, SMTT(15) DEF FilesInv, StopCreateChangeset, ClientReady, Idle,
     rowVars, CallInv, ReversedGo, WrittenAreValid, NewFileIsWhole,
     OldFileIsKept, After, IsValid, FilesTypeOK, IsFileTable
<1>k. KeepInv'
  BY <1>0, SMTT(15) DEF FilesInv, StopCreateChangeset, ClientReady, Idle,
     rowVars, PullInv, PullCommitted, OpsKnowPull, KeepInv,
     LocalTxnsKeepFiles, DoomedAreNotLocal, IsLocal, Replacing, IsValid,
     FilesTypeOK, IsFileTable
<1> QED
  BY <1>t, <1>p, <1>r, <1>i, <1>c, <1>k DEF FilesInv

(* A discard that fails rolls back.                                        *)
LEMMA DiscardFailsStep ==
    ASSUME FilesInv, Safe, DiscardFails
    PROVE  FilesInv'
<1>0. FilesTypeOK
  BY DEF FilesInv
<1>t. FilesTypeOK'
  <2>1. call' \in Calls
    BY <1>0 DEF DiscardFails, Rollback, Idle, FilesTypeOK, Calls, Ops,
       Places, Contents
  <2> QED
    BY <2>1, <1>0 DEF DiscardFails, Rollback, Idle, rowVars, FilesTypeOK,
       IsFileTable, FileRows, Contents
<1>p. PullInv'
  BY <1>0, SMTT(15) DEF FilesInv, DiscardFails, Rollback, Idle, rowVars,
     PullInv, PullCommitted, OpsKnowPull, EndIsLast, ClosedIsCommitted,
     NoRedo, FilesTypeOK, IsFileTable
<1>r. RowsInv'
  BY <1>0, SMTT(15) DEF FilesInv, DiscardFails, Rollback, Idle, rowVars,
     PullInv, PullCommitted, OpsKnowPull, RowsInv, RowsAgree, RowsGone, Live,
     Written, FilesTypeOK, IsFileTable
<1>i. IdsInv'
  BY <1>0, SMTT(15) DEF FilesInv, DiscardFails, Rollback, Idle, rowVars,
     PullInv, PullCommitted, OpsKnowPull, NoRedo, IdsInv, NextIsFree, IsOpen,
     NoneAfterCurr, RedoInOrder, FilesTypeOK, IsFileTable
<1>c. CallInv'
  BY <1>0, SMTT(15) DEF FilesInv, DiscardFails, Rollback, Idle, rowVars,
     CallInv, ReversedGo, WrittenAreValid, NewFileIsWhole, OldFileIsKept,
     After, IsValid, FilesTypeOK, IsFileTable
<1>k. KeepInv'
  BY <1>0, SMTT(15) DEF FilesInv, DiscardFails, Rollback, Idle, rowVars,
     PullInv, PullCommitted, OpsKnowPull, KeepInv, LocalTxnsKeepFiles,
     DoomedAreNotLocal, IsLocal, Replacing, IsValid, FilesTypeOK, IsFileTable
<1> QED
  BY <1>t, <1>p, <1>r, <1>i, <1>c, <1>k DEF FilesInv

(* A pull that fails rolls back what it deleted.                           *)
LEMMA PullFailsStep ==
    ASSUME FilesInv, Safe, PullFails
    PROVE  FilesInv'
<1>0. FilesTypeOK
  BY DEF FilesInv
<1>t. FilesTypeOK'
  <2>1. call' \in Calls
    BY <1>0 DEF PullFails, Rollback, Idle, FilesTypeOK, Calls, Ops, Places,
       Contents
  <2> QED
    BY <2>1, <1>0 DEF PullFails, Rollback, Idle, rowVars, FilesTypeOK,
       IsFileTable, FileRows, Contents
<1>p. PullInv'
  BY <1>0, SMTT(15) DEF FilesInv, PullFails, Rollback, Idle, rowVars,
     PullInv, PullCommitted, OpsKnowPull, EndIsLast, ClosedIsCommitted,
     NoRedo, FilesTypeOK, IsFileTable
<1>r. RowsInv'
  BY <1>0, SMTT(15) DEF FilesInv, PullFails, Rollback, Idle, rowVars,
     PullInv, PullCommitted, OpsKnowPull, RowsInv, RowsAgree, RowsGone, Live,
     Written, FilesTypeOK, IsFileTable
<1>i. IdsInv'
  BY <1>0, SMTT(15) DEF FilesInv, PullFails, Rollback, Idle, rowVars,
     PullInv, PullCommitted, OpsKnowPull, NoRedo, IdsInv, NextIsFree, IsOpen,
     NoneAfterCurr, RedoInOrder, FilesTypeOK, IsFileTable
<1>c. CallInv'
  BY <1>0, SMTT(15) DEF FilesInv, PullFails, Rollback, Idle, rowVars,
     CallInv, ReversedGo, WrittenAreValid, NewFileIsWhole, OldFileIsKept,
     After, IsValid, FilesTypeOK, IsFileTable
<1>k. KeepInv'
  BY <1>0, SMTT(15) DEF FilesInv, PullFails, Rollback, Idle, rowVars,
     PullInv, PullCommitted, OpsKnowPull, KeepInv, LocalTxnsKeepFiles,
     DoomedAreNotLocal, IsLocal, Replacing, IsValid, FilesTypeOK, IsFileTable
<1> QED
  BY <1>t, <1>p, <1>r, <1>i, <1>c, <1>k DEF FilesInv

(* A rebase that fails leaves the rows as they are.                        *)
LEMMA RebaseFailsStep ==
    ASSUME FilesInv, Safe, RebaseFails
    PROVE  FilesInv'
<1>0. FilesTypeOK
  BY DEF FilesInv
<1>t. FilesTypeOK'
  <2>1. call' \in Calls
    BY <1>0 DEF RebaseFails, ClientReady, RebaseFailed, Idle, FilesTypeOK,
       Calls, Ops, Places, Contents
  <2> QED
    BY <2>1, <1>0 DEF RebaseFails, ClientReady, RebaseFailed, Idle,
       rowVars, FilesTypeOK, IsFileTable, FileRows, Contents
<1>p. PullInv'
  BY <1>0, SMTT(15) DEF FilesInv, RebaseFails, ClientReady, RebaseFailed,
     Idle, rowVars, PullInv, PullCommitted, OpsKnowPull, EndIsLast,
     ClosedIsCommitted, NoRedo, FilesTypeOK, IsFileTable
<1>r. RowsInv'
  BY <1>0, SMTT(15) DEF FilesInv, RebaseFails, ClientReady, RebaseFailed,
     Idle, rowVars, PullInv, PullCommitted, OpsKnowPull, RowsInv, RowsAgree,
     RowsGone, Live, Written, FilesTypeOK, IsFileTable
<1>i. IdsInv'
  BY <1>0, SMTT(15) DEF FilesInv, RebaseFails, ClientReady, RebaseFailed,
     Idle, rowVars, PullInv, PullCommitted, OpsKnowPull, NoRedo, IdsInv,
     NextIsFree, IsOpen, NoneAfterCurr, RedoInOrder, FilesTypeOK, IsFileTable
<1>c. CallInv'
  BY <1>0, SMTT(15) DEF FilesInv, RebaseFails, ClientReady, RebaseFailed,
     Idle, rowVars, CallInv, ReversedGo, WrittenAreValid, NewFileIsWhole,
     OldFileIsKept, After, IsValid, FilesTypeOK, IsFileTable
<1>k. KeepInv'
  BY <1>0, SMTT(15) DEF FilesInv, RebaseFails, ClientReady, RebaseFailed,
     Idle, rowVars, PullInv, PullCommitted, OpsKnowPull, KeepInv,
     LocalTxnsKeepFiles, DoomedAreNotLocal, IsLocal, Replacing, IsValid,
     FilesTypeOK, IsFileTable
<1> QED
  BY <1>t, <1>p, <1>r, <1>i, <1>c, <1>k DEF FilesInv

(* Aborting the rebase of one Txn rolls back.                              *)
LEMMA PullMergeRebaseAbortTxnStep ==
    ASSUME FilesInv, Safe, PullMergeRebaseAbortTxn
    PROVE  FilesInv'
<1>0. FilesTypeOK
  BY DEF FilesInv
<1>t. FilesTypeOK'
  <2>1. call' \in Calls
    BY <1>0 DEF PullMergeRebaseAbortTxn, Rollback, Idle, FilesTypeOK,
       Calls, Ops, Places, Contents
  <2> QED
    BY <2>1, <1>0 DEF PullMergeRebaseAbortTxn, Rollback, Idle, rowVars,
       FilesTypeOK, IsFileTable, FileRows, Contents
<1>p. PullInv'
  BY <1>0, SMTT(15) DEF FilesInv, PullMergeRebaseAbortTxn, Rollback, Idle,
     rowVars, PullInv, PullCommitted, OpsKnowPull, EndIsLast,
     ClosedIsCommitted, NoRedo, FilesTypeOK, IsFileTable
<1>r. RowsInv'
  BY <1>0, SMTT(15) DEF FilesInv, PullMergeRebaseAbortTxn, Rollback, Idle,
     rowVars, PullInv, PullCommitted, OpsKnowPull, RowsInv, RowsAgree,
     RowsGone, Live, Written, FilesTypeOK, IsFileTable
<1>i. IdsInv'
  BY <1>0, SMTT(15) DEF FilesInv, PullMergeRebaseAbortTxn, Rollback, Idle,
     rowVars, PullInv, PullCommitted, OpsKnowPull, NoRedo, IdsInv,
     NextIsFree, IsOpen, NoneAfterCurr, RedoInOrder, FilesTypeOK, IsFileTable
<1>c. CallInv'
  BY <1>0, SMTT(15) DEF FilesInv, PullMergeRebaseAbortTxn, Rollback, Idle,
     rowVars, CallInv, ReversedGo, WrittenAreValid, NewFileIsWhole,
     OldFileIsKept, After, IsValid, FilesTypeOK, IsFileTable
<1>k. KeepInv'
  BY <1>0, SMTT(15) DEF FilesInv, PullMergeRebaseAbortTxn, Rollback, Idle,
     rowVars, PullInv, PullCommitted, OpsKnowPull, KeepInv,
     LocalTxnsKeepFiles, DoomedAreNotLocal, IsLocal, Replacing, IsValid,
     FilesTypeOK, IsFileTable
<1> QED
  BY <1>t, <1>p, <1>r, <1>i, <1>c, <1>k DEF FilesInv

(* A crash leaves the files, and the rows that were committed.             *)
LEMMA CrashStep ==
    ASSUME FilesInv, Safe, Crash
    PROVE  FilesInv'
<1>0. FilesTypeOK
  BY DEF FilesInv
<1>t. FilesTypeOK'
  <2>1. call' \in Calls
    BY <1>0 DEF Crash, Rollback, Idle, Safe, Replacing, FilesTypeOK, Calls,
       Ops, Places, Contents
  <2> QED
    BY <2>1, <1>0 DEF Crash, Rollback, Idle, Safe, Replacing, rowVars,
       FilesTypeOK, IsFileTable, FileRows, Contents
<1>p. PullInv'
  BY <1>0, SMTT(15) DEF FilesInv, Crash, Rollback, Idle, Safe, Replacing,
     rowVars, PullInv, PullCommitted, OpsKnowPull, EndIsLast,
     ClosedIsCommitted, NoRedo, FilesTypeOK, IsFileTable
<1>r. RowsInv'
  BY <1>0, SMTT(15) DEF FilesInv, Crash, Rollback, Idle, Safe, Replacing,
     rowVars, PullInv, PullCommitted, OpsKnowPull, RowsInv, RowsAgree,
     RowsGone, Live, Written, FilesTypeOK, IsFileTable
<1>i. IdsInv'
  BY <1>0, SMTT(15) DEF FilesInv, Crash, Rollback, Idle, Safe, Replacing,
     rowVars, PullInv, PullCommitted, OpsKnowPull, NoRedo, IdsInv,
     NextIsFree, IsOpen, NoneAfterCurr, RedoInOrder, FilesTypeOK, IsFileTable
<1>c. CallInv'
  BY <1>0, SMTT(15) DEF FilesInv, Crash, Rollback, Idle, Safe, Replacing,
     rowVars, CallInv, ReversedGo, WrittenAreValid, NewFileIsWhole,
     OldFileIsKept, After, IsValid, FilesTypeOK, IsFileTable
<1>k. KeepInv'
  BY <1>0, SMTT(15) DEF FilesInv, Crash, Rollback, Idle, Safe, Replacing,
     rowVars, PullInv, PullCommitted, OpsKnowPull, KeepInv,
     LocalTxnsKeepFiles, DoomedAreNotLocal, IsLocal, IsValid, FilesTypeOK,
     IsFileTable
<1> QED
  BY <1>t, <1>p, <1>r, <1>i, <1>c, <1>k DEF FilesInv

(* Saving without a Txn commits rows that agree already.                   *)
LEMMA SaveUntrackedStep ==
    ASSUME FilesInv, Safe, SaveUntracked
    PROVE  FilesInv'
<1>0. FilesTypeOK
  BY DEF FilesInv
<1>t. FilesTypeOK'
  <2>1. call' \in Calls
    BY <1>0 DEF SaveUntracked, ClientReady, Idle, Persist, FilesTypeOK,
       Calls, Ops, Places, Contents
  <2> QED
    BY <2>1, <1>0 DEF SaveUntracked, ClientReady, Idle, Persist, rowVars,
       FilesTypeOK, IsFileTable, FileRows, Contents
<1>p. PullInv'
  BY <1>0, SMTT(15) DEF FilesInv, SaveUntracked, ClientReady, Idle, Persist,
     rowVars, PullInv, PullCommitted, OpsKnowPull, EndIsLast,
     ClosedIsCommitted, NoRedo, FilesTypeOK, IsFileTable, RowsInv, RowsAgree,
     Live, Written, CallInv, OldFileIsKept
<1>r. RowsInv'
  BY <1>0, SMTT(15) DEF FilesInv, SaveUntracked, ClientReady, Idle, Persist,
     rowVars, PullInv, PullCommitted, OpsKnowPull, RowsInv, RowsAgree,
     RowsGone, Live, Written, FilesTypeOK, IsFileTable
<1>i. IdsInv'
  BY <1>0, SMTT(15) DEF FilesInv, SaveUntracked, ClientReady, Idle, Persist,
     rowVars, PullInv, PullCommitted, OpsKnowPull, NoRedo, IdsInv,
     NextIsFree, IsOpen, NoneAfterCurr, RedoInOrder, FilesTypeOK, IsFileTable
<1>c. CallInv'
  BY <1>0, SMTT(15) DEF FilesInv, SaveUntracked, ClientReady, Idle, Persist,
     rowVars, CallInv, ReversedGo, WrittenAreValid, NewFileIsWhole,
     OldFileIsKept, After, IsValid, FilesTypeOK, IsFileTable
<1>k. KeepInv'
  BY <1>0, SMTT(15) DEF FilesInv, SaveUntracked, ClientReady, Idle, Persist,
     rowVars, PullInv, PullCommitted, OpsKnowPull, KeepInv,
     LocalTxnsKeepFiles, DoomedAreNotLocal, IsLocal, Replacing, IsValid,
     FilesTypeOK, IsFileTable, RowsInv, RowsAgree, Live, Written, CallInv,
     WrittenAreValid, After, OldFileIsKept
<1> QED
  BY <1>t, <1>p, <1>r, <1>i, <1>c, <1>k DEF FilesInv

(* A new session is after every row.                                       *)
LEMMA RestartTxnSessionStep ==
    ASSUME FilesInv, Safe, RestartTxnSession
    PROVE  FilesInv'
<1>0. FilesTypeOK
  BY DEF FilesInv
<1>t. FilesTypeOK'
  <2>1. call' \in Calls
    BY <1>0, NewSessionIsLast DEF RestartTxnSession, ClientReady, Idle,
       FilesTypeOK, Calls, Ops, Places, Contents
  <2> QED
    BY <2>1, <1>0, NewSessionIsLast DEF RestartTxnSession, ClientReady,
       Idle, rowVars, FilesTypeOK, IsFileTable, FileRows, Contents
<1>p. PullInv'
  BY <1>0, NewSessionIsLast, SMTT(15) DEF FilesInv, RestartTxnSession,
     ClientReady, Idle, rowVars, PullInv, PullCommitted, OpsKnowPull,
     EndIsLast, ClosedIsCommitted, NoRedo, FilesTypeOK, IsFileTable
<1>r. RowsInv'
  BY <1>0, NewSessionIsLast, SMTT(15) DEF FilesInv, RestartTxnSession,
     ClientReady, Idle, rowVars, PullInv, PullCommitted, OpsKnowPull,
     RowsInv, RowsAgree, RowsGone, Live, Written, FilesTypeOK, IsFileTable
<1>i. IdsInv'
  BY <1>0, NewSessionIsLast, SMTT(15) DEF FilesInv, RestartTxnSession,
     ClientReady, Idle, rowVars, PullInv, PullCommitted, OpsKnowPull, NoRedo,
     IdsInv, NextIsFree, IsOpen, NoneAfterCurr, RedoInOrder, FilesTypeOK,
     IsFileTable, RowsInv, RowsGone, Live
<1>c. CallInv'
  BY <1>0, NewSessionIsLast, SMTT(15) DEF FilesInv, RestartTxnSession,
     ClientReady, Idle, rowVars, CallInv, ReversedGo, WrittenAreValid,
     NewFileIsWhole, OldFileIsKept, After, IsValid, FilesTypeOK, IsFileTable
<1>k. KeepInv'
  BY <1>0, NewSessionIsLast, SMTT(15) DEF FilesInv, RestartTxnSession,
     ClientReady, Idle, rowVars, PullInv, PullCommitted, OpsKnowPull,
     KeepInv, LocalTxnsKeepFiles, DoomedAreNotLocal, IsLocal, Replacing,
     IsValid, FilesTypeOK, IsFileTable
<1> QED
  BY <1>t, <1>p, <1>r, <1>i, <1>c, <1>k DEF FilesInv

(* The COMMIT of a save stores the checksum of the file written.           *)
LEMMA CommitSaveStep ==
    ASSUME FilesInv, Safe, CommitSave
    PROVE  FilesInv'
<1>0. FilesTypeOK
  BY DEF FilesInv
<1>t. FilesTypeOK'
  <2>1. call' \in Calls
    BY <1>0 DEF CommitSave, Idle, Persist, FilesTypeOK, Calls, Ops, Places,
       Contents
  <2> QED
    BY <2>1, <1>0 DEF CommitSave, Idle, Persist, rowVars, FilesTypeOK,
       IsFileTable, FileRows, Contents
<1>p. PullInv'
  BY <1>0, SMTT(15) DEF FilesInv, CommitSave, Idle, Persist, rowVars,
     PullInv, PullCommitted, OpsKnowPull, EndIsLast, ClosedIsCommitted,
     NoRedo, FilesTypeOK, IsFileTable, RowsInv, RowsAgree, Live, Written,
     CallInv, OldFileIsKept
<1>r. RowsInv'
  BY <1>0, SMTT(15) DEF FilesInv, CommitSave, Idle, Persist, rowVars,
     PullInv, PullCommitted, OpsKnowPull, RowsInv, RowsAgree, RowsGone, Live,
     Written, FilesTypeOK, IsFileTable
<1>i. IdsInv'
  BY <1>0, SMTT(15) DEF FilesInv, CommitSave, Idle, Persist, rowVars,
     PullInv, PullCommitted, OpsKnowPull, NoRedo, IdsInv, NextIsFree, IsOpen,
     NoneAfterCurr, RedoInOrder, FilesTypeOK, IsFileTable
<1>c. CallInv'
  BY <1>0, SMTT(15) DEF FilesInv, CommitSave, Idle, Persist, rowVars,
     CallInv, ReversedGo, WrittenAreValid, NewFileIsWhole, OldFileIsKept,
     After, IsValid, FilesTypeOK, IsFileTable
<1>k. KeepInv'
  BY <1>0, SMTT(15) DEF FilesInv, CommitSave, Idle, Persist, rowVars,
     PullInv, PullCommitted, OpsKnowPull, KeepInv, LocalTxnsKeepFiles,
     DoomedAreNotLocal, IsLocal, Replacing, IsValid, FilesTypeOK,
     IsFileTable, RowsInv, RowsAgree, Live, Written, CallInv,
     WrittenAreValid, After, OldFileIsKept
<1> QED
  BY <1>t, <1>p, <1>r, <1>i, <1>c, <1>k DEF FilesInv

(* The COMMIT of a rebased Txn stores the checksum of its new file.        *)
LEMMA CommitRebaseStep ==
    ASSUME FilesInv, Safe, CommitRebase
    PROVE  FilesInv'
<1>0. FilesTypeOK
  BY DEF FilesInv
<1>t. FilesTypeOK'
  <2>1. call' \in Calls
    BY <1>0 DEF CommitRebase, Idle, Persist, FilesTypeOK, Calls, Ops,
       Places, Contents
  <2> QED
    BY <2>1, <1>0 DEF CommitRebase, Idle, Persist, rowVars, FilesTypeOK,
       IsFileTable, FileRows, Contents, Calls
<1>p. PullInv'
  BY <1>0, SMTT(15) DEF FilesInv, CommitRebase, Idle, Persist, rowVars,
     PullInv, PullCommitted, OpsKnowPull, EndIsLast, ClosedIsCommitted,
     NoRedo, FilesTypeOK, IsFileTable, RowsInv, RowsAgree, Live, Written,
     CallInv, OldFileIsKept
<1>r. RowsInv'
  BY <1>0, SMTT(15) DEF FilesInv, CommitRebase, Idle, Persist, rowVars,
     PullInv, PullCommitted, OpsKnowPull, RowsInv, RowsAgree, RowsGone, Live,
     Written, FilesTypeOK, IsFileTable
<1>i. IdsInv'
  BY <1>0, SMTT(15) DEF FilesInv, CommitRebase, Idle, Persist, rowVars,
     PullInv, PullCommitted, OpsKnowPull, NoRedo, IdsInv, NextIsFree, IsOpen,
     NoneAfterCurr, RedoInOrder, FilesTypeOK, IsFileTable
<1>c. CallInv'
  BY <1>0, SMTT(15) DEF FilesInv, CommitRebase, Idle, Persist, rowVars,
     CallInv, ReversedGo, WrittenAreValid, NewFileIsWhole, OldFileIsKept,
     After, IsValid, FilesTypeOK, IsFileTable
<1>k. KeepInv'
  BY <1>0, SMTT(15) DEF FilesInv, CommitRebase, Idle, Persist, rowVars,
     PullInv, PullCommitted, OpsKnowPull, KeepInv, LocalTxnsKeepFiles,
     DoomedAreNotLocal, IsLocal, Replacing, IsValid, FilesTypeOK,
     IsFileTable, RowsInv, RowsAgree, Live, Written, CallInv,
     WrittenAreValid, After, OldFileIsKept
<1> QED
  BY <1>t, <1>p, <1>r, <1>i, <1>c, <1>k DEF FilesInv

(* The COMMIT of a finished push drops Txns that were uploaded.            *)
LEMMA CommitFinishStep ==
    ASSUME FilesInv, Safe, CommitFinish
    PROVE  FilesInv'
<1>0. FilesTypeOK
  BY DEF FilesInv
<1>1. curr' \in TxnIds /\ redo' \in Seq([first : TxnIds, last : TxnIds])
  <2>1. CASE HasPendingTxns(txns)
    BY <1>0, <2>1 DEF CommitFinish, FilesTypeOK
  <2>2. CASE ~HasPendingTxns(txns)
    <3>1. curr' \in TxnIds /\ redo' = <<>>
      BY <1>0, <2>2, NewSessionIsLast DEF CommitFinish, FilesTypeOK, IsFileTable
    <3> QED BY <3>1
  <2> QED BY <2>1, <2>2
<1>t. FilesTypeOK'
  <2>1. call' \in Calls
    BY <1>0, <1>1 DEF CommitFinish, Idle, Persist, FilesTypeOK, Calls, Ops,
       Places, Contents
  <2> QED
    BY <2>1, <1>0, <1>1 DEF CommitFinish, Idle, Persist, rowVars,
       FilesTypeOK, IsFileTable, FileRows, Contents
<1>p. PullInv'
  BY <1>0, NewSessionIsLast, SMTT(15) DEF FilesInv, CommitFinish, Idle,
     Persist, rowVars, PullInv, PullCommitted, OpsKnowPull, EndIsLast,
     ClosedIsCommitted, NoRedo, FilesTypeOK, IsFileTable, RowsInv, RowsAgree,
     Live, Written, CallInv, OldFileIsKept
<1>r. RowsInv'
  BY <1>0, NewSessionIsLast, SMTT(15) DEF FilesInv, CommitFinish, Idle,
     Persist, rowVars, PullInv, PullCommitted, OpsKnowPull, RowsInv,
     RowsAgree, RowsGone, Live, Written, FilesTypeOK, IsFileTable
<1>i. IdsInv'
  BY <1>0, NewSessionIsLast, SMTT(15) DEF FilesInv, CommitFinish, Idle,
     Persist, rowVars, PullInv, PullCommitted, OpsKnowPull, NoRedo, IdsInv,
     NextIsFree, IsOpen, NoneAfterCurr, RedoInOrder, FilesTypeOK, IsFileTable
<1>c. CallInv'
  BY <1>0, NewSessionIsLast, SMTT(15) DEF FilesInv, CommitFinish, Idle,
     Persist, rowVars, CallInv, ReversedGo, WrittenAreValid, NewFileIsWhole,
     OldFileIsKept, After, IsValid, FilesTypeOK, IsFileTable
<1>k. KeepInv'
  BY <1>0, NewSessionIsLast, SMTT(15) DEF FilesInv, CommitFinish, Idle,
     Persist, rowVars, PullInv, PullCommitted, OpsKnowPull, KeepInv,
     LocalTxnsKeepFiles, DoomedAreNotLocal, IsLocal, Replacing, IsValid,
     FilesTypeOK, IsFileTable, RowsInv, RowsAgree, Live, Written, CallInv,
     WrittenAreValid, After, OldFileIsKept
<1> QED
  BY <1>t, <1>p, <1>r, <1>i, <1>c, <1>k DEF FilesInv

(* The COMMIT of DeleteAllTxns drops rows that were given up.              *)
LEMMA CommitDeleteAllStep ==
    ASSUME FilesInv, Safe, CommitDeleteAll
    PROVE  FilesInv'
<1>0. FilesTypeOK
  BY DEF FilesInv
<1>t. FilesTypeOK'
  <2>1. call' \in Calls
    BY <1>0, NewSessionIsLast DEF CommitDeleteAll, Idle, Persist,
       FilesTypeOK, Calls, Ops, Places, Contents
  <2> QED
    BY <2>1, <1>0, NewSessionIsLast DEF CommitDeleteAll, Idle, Persist,
       rowVars, FilesTypeOK, IsFileTable, FileRows, Contents
<1>p. PullInv'
  BY <1>0, NewSessionIsLast, SMTT(15) DEF FilesInv, CommitDeleteAll, Idle,
     Persist, rowVars, PullInv, PullCommitted, OpsKnowPull, EndIsLast,
     ClosedIsCommitted, NoRedo, FilesTypeOK, IsFileTable, RowsInv, RowsAgree,
     Live, Written, CallInv, OldFileIsKept
<1>r. RowsInv'
  BY <1>0, NewSessionIsLast, SMTT(15) DEF FilesInv, CommitDeleteAll, Idle,
     Persist, rowVars, PullInv, PullCommitted, OpsKnowPull, RowsInv,
     RowsAgree, RowsGone, Live, Written, FilesTypeOK, IsFileTable
<1>i. IdsInv'
  BY <1>0, NewSessionIsLast, SMTT(15) DEF FilesInv, CommitDeleteAll, Idle,
     Persist, rowVars, PullInv, PullCommitted, OpsKnowPull, NoRedo, IdsInv,
     NextIsFree, IsOpen, NoneAfterCurr, RedoInOrder, FilesTypeOK, IsFileTable
<1>c. CallInv'
  BY <1>0, NewSessionIsLast, SMTT(15) DEF FilesInv, CommitDeleteAll, Idle,
     Persist, rowVars, CallInv, ReversedGo, WrittenAreValid, NewFileIsWhole,
     OldFileIsKept, After, IsValid, FilesTypeOK, IsFileTable
<1>k. KeepInv'
  BY <1>0, NewSessionIsLast, SMTT(15) DEF FilesInv, CommitDeleteAll, Idle,
     Persist, rowVars, PullInv, PullCommitted, OpsKnowPull, KeepInv,
     LocalTxnsKeepFiles, DoomedAreNotLocal, IsLocal, Replacing, IsValid,
     FilesTypeOK, IsFileTable, RowsInv, RowsAgree, Live, Written, CallInv,
     WrittenAreValid, After, OldFileIsKept
<1> QED
  BY <1>t, <1>p, <1>r, <1>i, <1>c, <1>k DEF FilesInv

(* Packing reads every Txn and opens a new session.                        *)
LEMMA PackTxnsStep ==
    ASSUME FilesInv, Safe, PackTxns
    PROVE  FilesInv'
<1>0. FilesTypeOK
  BY DEF FilesInv
<1>t. FilesTypeOK'
  <2>1. call' \in Calls
    BY <1>0, NewSessionIsLast DEF PackTxns, Idle, Persist, FilesTypeOK,
       Calls, Ops, Places, Contents
  <2> QED
    BY <2>1, <1>0, NewSessionIsLast DEF PackTxns, Idle, Persist, rowVars,
       FilesTypeOK, IsFileTable, FileRows, Contents
<1>p. PullInv'
  BY <1>0, NewSessionIsLast, SMTT(15) DEF FilesInv, PackTxns, Idle, Persist,
     rowVars, PullInv, PullCommitted, OpsKnowPull, EndIsLast,
     ClosedIsCommitted, NoRedo, FilesTypeOK, IsFileTable, RowsInv, RowsAgree,
     Live, Written, CallInv, OldFileIsKept
<1>r. RowsInv'
  BY <1>0, NewSessionIsLast, SMTT(15) DEF FilesInv, PackTxns, Idle, Persist,
     rowVars, PullInv, PullCommitted, OpsKnowPull, RowsInv, RowsAgree,
     RowsGone, Live, Written, FilesTypeOK, IsFileTable
<1>i. IdsInv'
  BY <1>0, NewSessionIsLast, SMTT(15) DEF FilesInv, PackTxns, Idle, Persist,
     rowVars, PullInv, PullCommitted, OpsKnowPull, NoRedo, IdsInv,
     NextIsFree, IsOpen, NoneAfterCurr, RedoInOrder, FilesTypeOK, IsFileTable
<1>c. CallInv'
  BY <1>0, NewSessionIsLast, SMTT(15) DEF FilesInv, PackTxns, Idle, Persist,
     rowVars, CallInv, ReversedGo, WrittenAreValid, NewFileIsWhole,
     OldFileIsKept, After, IsValid, FilesTypeOK, IsFileTable
<1>k. KeepInv'
  BY <1>0, NewSessionIsLast, SMTT(15) DEF FilesInv, PackTxns, Idle, Persist,
     rowVars, PullInv, PullCommitted, OpsKnowPull, KeepInv,
     LocalTxnsKeepFiles, DoomedAreNotLocal, IsLocal, Replacing, IsValid,
     FilesTypeOK, IsFileTable, RowsInv, RowsAgree, Live, Written, CallInv,
     WrittenAreValid, After, OldFileIsKept
<1> QED
  BY <1>t, <1>p, <1>r, <1>i, <1>c, <1>k DEF FilesInv

(* The end of a rebase is committed when no Txn is reversed.               *)
LEMMA PullMergeRebaseEndStep ==
    ASSUME FilesInv, Safe, PullMergeRebaseEnd
    PROVE  FilesInv'
<1>0. FilesTypeOK
  BY DEF FilesInv
<1>t. FilesTypeOK'
  <2>1. call' \in Calls
    BY <1>0, ReversedFacts DEF PullMergeRebaseEnd, ClientReady, Idle,
       Persist, FilesTypeOK, Calls, Ops, Places, Contents
  <2> QED
    BY <2>1, <1>0, ReversedFacts DEF PullMergeRebaseEnd, ClientReady, Idle,
       Persist, rowVars, FilesTypeOK, IsFileTable, FileRows, Contents
<1>p. PullInv'
  BY <1>0, ReversedFacts, SMTT(15) DEF FilesInv, PullMergeRebaseEnd,
     ClientReady, Idle, Persist, rowVars, PullInv, PullCommitted,
     OpsKnowPull, EndIsLast, ClosedIsCommitted, NoRedo, FilesTypeOK,
     IsFileTable, RowsInv, RowsAgree, Live, Written, CallInv, OldFileIsKept
<1>r. RowsInv'
  BY <1>0, ReversedFacts, SMTT(15) DEF FilesInv, PullMergeRebaseEnd,
     ClientReady, Idle, Persist, rowVars, PullInv, PullCommitted,
     OpsKnowPull, RowsInv, RowsAgree, RowsGone, Live, Written, FilesTypeOK,
     IsFileTable
<1>i. IdsInv'
  BY <1>0, ReversedFacts, SMTT(15) DEF FilesInv, PullMergeRebaseEnd,
     ClientReady, Idle, Persist, rowVars, PullInv, PullCommitted,
     OpsKnowPull, NoRedo, IdsInv, NextIsFree, IsOpen, NoneAfterCurr,
     RedoInOrder, FilesTypeOK, IsFileTable, EndIsLast, RowsInv, RowsAgree,
     Live, Written
<1>c. CallInv'
  BY <1>0, ReversedFacts, SMTT(15) DEF FilesInv, PullMergeRebaseEnd,
     ClientReady, Idle, Persist, rowVars, CallInv, ReversedGo,
     WrittenAreValid, NewFileIsWhole, OldFileIsKept, After, IsValid,
     FilesTypeOK, IsFileTable
<1>k. KeepInv'
  BY <1>0, ReversedFacts, SMTT(15) DEF FilesInv, PullMergeRebaseEnd,
     ClientReady, Idle, Persist, rowVars, PullInv, PullCommitted,
     OpsKnowPull, KeepInv, LocalTxnsKeepFiles, DoomedAreNotLocal, IsLocal,
     Replacing, IsValid, FilesTypeOK, IsFileTable, RowsInv, RowsAgree, Live,
     Written, CallInv, WrittenAreValid, After, OldFileIsKept
<1> QED
  BY <1>t, <1>p, <1>r, <1>i, <1>c, <1>k DEF FilesInv

(* A save starts with the reversed Txns, whose files may go.               *)
LEMMA SaveChangesStep ==
    ASSUME FilesInv, Safe, SaveChanges
    PROVE  FilesInv'
<1>0. FilesTypeOK
  BY DEF FilesInv
<1>1. Reversed \subseteq TxnIds
  BY <1>0, ReversedFacts DEF FilesTypeOK, IsFileTable
<1>t. FilesTypeOK'
  <2>1. call' \in Calls
    BY <1>0, <1>1 DEF SaveChanges, DeleteReversedTxns, Delete, Idle,
       ClientReady, FilesTypeOK, Calls, Ops, Places, Contents
  <2> QED
    BY <2>1, <1>0, <1>1 DEF SaveChanges, DeleteReversedTxns, Delete, Idle,
       ClientReady, rowVars, FilesTypeOK, IsFileTable, FileRows, Contents
<1>p. PullInv'
  BY <1>0, ReversedFacts, SMTT(15) DEF FilesInv, SaveChanges,
     DeleteReversedTxns, Delete, Idle, ClientReady, rowVars, PullInv,
     PullCommitted, OpsKnowPull, EndIsLast, ClosedIsCommitted, NoRedo,
     FilesTypeOK, IsFileTable
<1>r. RowsInv'
  BY <1>0, ReversedFacts, SMTT(15) DEF FilesInv, SaveChanges,
     DeleteReversedTxns, Delete, Idle, ClientReady, rowVars, PullInv,
     PullCommitted, OpsKnowPull, RowsInv, RowsAgree, RowsGone, Live, Written,
     FilesTypeOK, IsFileTable
<1>i. IdsInv'
  BY <1>0, ReversedFacts, SMTT(15) DEF FilesInv, SaveChanges,
     DeleteReversedTxns, Delete, Idle, ClientReady, rowVars, PullInv,
     PullCommitted, OpsKnowPull, NoRedo, IdsInv, NextIsFree, IsOpen,
     NoneAfterCurr, RedoInOrder, FilesTypeOK, IsFileTable
<1>c. CallInv'
  BY <1>0, ReversedFacts, SMTT(15) DEF FilesInv, SaveChanges,
     DeleteReversedTxns, Delete, Idle, ClientReady, rowVars, CallInv,
     ReversedGo, WrittenAreValid, NewFileIsWhole, OldFileIsKept, After,
     IsValid, FilesTypeOK, IsFileTable
<1>k. KeepInv'
  BY <1>0, ReversedFacts, SMTT(15) DEF FilesInv, SaveChanges,
     DeleteReversedTxns, Delete, Idle, ClientReady, rowVars, PullInv,
     PullCommitted, OpsKnowPull, KeepInv, LocalTxnsKeepFiles,
     DoomedAreNotLocal, IsLocal, Replacing, IsValid, FilesTypeOK,
     IsFileTable, RowsInv, RowsAgree, Live, Written, CallInv,
     WrittenAreValid, After, OldFileIsKept
<1> QED
  BY <1>t, <1>p, <1>r, <1>i, <1>c, <1>k DEF FilesInv

(* So does a cancel that reverses nothing,                                 *)
LEMMA CancelNothingStep ==
    ASSUME FilesInv, Safe, CancelNothing
    PROVE  FilesInv'
<1>0. FilesTypeOK
  BY DEF FilesInv
<1>1. Reversed \subseteq TxnIds
  BY <1>0, ReversedFacts DEF FilesTypeOK, IsFileTable
<1>t. FilesTypeOK'
  <2>1. call' \in Calls
    BY <1>0, <1>1 DEF CancelNothing, DeleteReversedTxns, Delete, Idle,
       ClientReady, FilesTypeOK, Calls, Ops, Places, Contents
  <2> QED
    BY <2>1, <1>0, <1>1 DEF CancelNothing, DeleteReversedTxns, Delete,
       Idle, ClientReady, rowVars, FilesTypeOK, IsFileTable, FileRows,
       Contents
<1>p. PullInv'
  BY <1>0, ReversedFacts, SMTT(15) DEF FilesInv, CancelNothing,
     DeleteReversedTxns, Delete, Idle, ClientReady, rowVars, PullInv,
     PullCommitted, OpsKnowPull, EndIsLast, ClosedIsCommitted, NoRedo,
     FilesTypeOK, IsFileTable
<1>r. RowsInv'
  BY <1>0, ReversedFacts, SMTT(15) DEF FilesInv, CancelNothing,
     DeleteReversedTxns, Delete, Idle, ClientReady, rowVars, PullInv,
     PullCommitted, OpsKnowPull, RowsInv, RowsAgree, RowsGone, Live, Written,
     FilesTypeOK, IsFileTable
<1>i. IdsInv'
  BY <1>0, ReversedFacts, SMTT(15) DEF FilesInv, CancelNothing,
     DeleteReversedTxns, Delete, Idle, ClientReady, rowVars, PullInv,
     PullCommitted, OpsKnowPull, NoRedo, IdsInv, NextIsFree, IsOpen,
     NoneAfterCurr, RedoInOrder, FilesTypeOK, IsFileTable
<1>c. CallInv'
  BY <1>0, ReversedFacts, SMTT(15) DEF FilesInv, CancelNothing,
     DeleteReversedTxns, Delete, Idle, ClientReady, rowVars, CallInv,
     ReversedGo, WrittenAreValid, NewFileIsWhole, OldFileIsKept, After,
     IsValid, FilesTypeOK, IsFileTable
<1>k. KeepInv'
  BY <1>0, ReversedFacts, SMTT(15) DEF FilesInv, CancelNothing,
     DeleteReversedTxns, Delete, Idle, ClientReady, rowVars, PullInv,
     PullCommitted, OpsKnowPull, KeepInv, LocalTxnsKeepFiles,
     DoomedAreNotLocal, IsLocal, Replacing, IsValid, FilesTypeOK,
     IsFileTable, RowsInv, RowsAgree, Live, Written, CallInv,
     WrittenAreValid, After, OldFileIsKept
<1> QED
  BY <1>t, <1>p, <1>r, <1>i, <1>c, <1>k DEF FilesInv

(* and a push,                                                             *)
LEMMA StartCreateChangesetStep ==
    ASSUME FilesInv, Safe, StartCreateChangeset
    PROVE  FilesInv'
<1>0. FilesTypeOK
  BY DEF FilesInv
<1>1. Reversed \subseteq TxnIds
  BY <1>0, ReversedFacts DEF FilesTypeOK, IsFileTable
<1>t. FilesTypeOK'
  <2>1. call' \in Calls
    BY <1>0, <1>1 DEF StartCreateChangeset, DeleteReversedTxns, Delete,
       Idle, ClientReady, FilesTypeOK, Calls, Ops, Places, Contents
  <2> QED
    BY <2>1, <1>0, <1>1 DEF StartCreateChangeset, DeleteReversedTxns,
       Delete, Idle, ClientReady, rowVars, FilesTypeOK, IsFileTable,
       FileRows, Contents
<1>p. PullInv'
  BY <1>0, ReversedFacts, SMTT(15) DEF FilesInv, StartCreateChangeset,
     DeleteReversedTxns, Delete, Idle, ClientReady, rowVars, PullInv,
     PullCommitted, OpsKnowPull, EndIsLast, ClosedIsCommitted, NoRedo,
     FilesTypeOK, IsFileTable
<1>r. RowsInv'
  BY <1>0, ReversedFacts, SMTT(15) DEF FilesInv, StartCreateChangeset,
     DeleteReversedTxns, Delete, Idle, ClientReady, rowVars, PullInv,
     PullCommitted, OpsKnowPull, RowsInv, RowsAgree, RowsGone, Live, Written,
     FilesTypeOK, IsFileTable
<1>i. IdsInv'
  BY <1>0, ReversedFacts, SMTT(15) DEF FilesInv, StartCreateChangeset,
     DeleteReversedTxns, Delete, Idle, ClientReady, rowVars, PullInv,
     PullCommitted, OpsKnowPull, NoRedo, IdsInv, NextIsFree, IsOpen,
     NoneAfterCurr, RedoInOrder, FilesTypeOK, IsFileTable
<1>c. CallInv'
  BY <1>0, ReversedFacts, SMTT(15) DEF FilesInv, StartCreateChangeset,
     DeleteReversedTxns, Delete, Idle, ClientReady, rowVars, CallInv,
     ReversedGo, WrittenAreValid, NewFileIsWhole, OldFileIsKept, After,
     IsValid, FilesTypeOK, IsFileTable
<1>k. KeepInv'
  BY <1>0, ReversedFacts, SMTT(15) DEF FilesInv, StartCreateChangeset,
     DeleteReversedTxns, Delete, Idle, ClientReady, rowVars, PullInv,
     PullCommitted, OpsKnowPull, KeepInv, LocalTxnsKeepFiles,
     DoomedAreNotLocal, IsLocal, Replacing, IsValid, FilesTypeOK,
     IsFileTable, RowsInv, RowsAgree, Live, Written, CallInv,
     WrittenAreValid, After, OldFileIsKept
<1> QED
  BY <1>t, <1>p, <1>r, <1>i, <1>c, <1>k DEF FilesInv

(* and a pull.                                                             *)
LEMMA PullMergeReverseLocalChangesStep ==
    ASSUME FilesInv, Safe, PullMergeReverseLocalChanges
    PROVE  FilesInv'
<1>0. FilesTypeOK
  BY DEF FilesInv
<1>1. Reversed \subseteq TxnIds
  BY <1>0, ReversedFacts DEF FilesTypeOK, IsFileTable
<1>t. FilesTypeOK'
  <2>1. call' \in Calls
    BY <1>0, <1>1 DEF PullMergeReverseLocalChanges, DeleteReversedTxns,
       Delete, Idle, ClientReady, FilesTypeOK, Calls, Ops, Places, Contents
  <2> QED
    BY <2>1, <1>0, <1>1 DEF PullMergeReverseLocalChanges,
       DeleteReversedTxns, Delete, Idle, ClientReady, rowVars, FilesTypeOK,
       IsFileTable, FileRows, Contents
<1>p. PullInv'
  BY <1>0, ReversedFacts, SMTT(15) DEF FilesInv,
     PullMergeReverseLocalChanges, DeleteReversedTxns, Delete, Idle,
     ClientReady, rowVars, PullInv, PullCommitted, OpsKnowPull, EndIsLast,
     ClosedIsCommitted, NoRedo, FilesTypeOK, IsFileTable
<1>r. RowsInv'
  BY <1>0, ReversedFacts, SMTT(15) DEF FilesInv,
     PullMergeReverseLocalChanges, DeleteReversedTxns, Delete, Idle,
     ClientReady, rowVars, PullInv, PullCommitted, OpsKnowPull, RowsInv,
     RowsAgree, RowsGone, Live, Written, FilesTypeOK, IsFileTable
<1>i. IdsInv'
  BY <1>0, ReversedFacts, SMTT(15) DEF FilesInv,
     PullMergeReverseLocalChanges, DeleteReversedTxns, Delete, Idle,
     ClientReady, rowVars, PullInv, PullCommitted, OpsKnowPull, NoRedo,
     IdsInv, NextIsFree, IsOpen, NoneAfterCurr, RedoInOrder, FilesTypeOK,
     IsFileTable
<1>c. CallInv'
  BY <1>0, ReversedFacts, SMTT(15) DEF FilesInv,
     PullMergeReverseLocalChanges, DeleteReversedTxns, Delete, Idle,
     ClientReady, rowVars, CallInv, ReversedGo, WrittenAreValid,
     NewFileIsWhole, OldFileIsKept, After, IsValid, FilesTypeOK, IsFileTable
<1>k. KeepInv'
  BY <1>0, ReversedFacts, SMTT(15) DEF FilesInv,
     PullMergeReverseLocalChanges, DeleteReversedTxns, Delete, Idle,
     ClientReady, rowVars, PullInv, PullCommitted, OpsKnowPull, KeepInv,
     LocalTxnsKeepFiles, DoomedAreNotLocal, IsLocal, Replacing, IsValid,
     FilesTypeOK, IsFileTable, RowsInv, RowsAgree, Live, Written, CallInv,
     WrittenAreValid, After, OldFileIsKept
<1> QED
  BY <1>t, <1>p, <1>r, <1>i, <1>c, <1>k DEF FilesInv

(* A file deleted is one of those the call has given up.                   *)
LEMMA DeleteTxnFileStep ==
    ASSUME FilesInv, Safe, DeleteTxnFile
    PROVE  FilesInv'
<1>0. FilesTypeOK
  BY DEF FilesInv
<1>1. PICK id \in call.ids \cap DOMAIN files : RemoveFile(id)
  BY DEF DeleteTxnFile
<1>2. /\ DOMAIN files' = DOMAIN files \ {id} /\ files' = [i \in DOMAIN files' |-> files'[i]]
      /\ \A i \in DOMAIN files \ {id} : files'[i] = files[i]
  BY <1>1, RemoveFileFacts
<1>t. FilesTypeOK'
  <2>1. call' \in Calls
    BY <1>0, <1>1, <1>2 DEF DeleteTxnFile, FilesTypeOK, Calls, Idle, Ops,
       Places, Contents
  <2> QED
    BY <2>1, <1>0, <1>1, <1>2 DEF DeleteTxnFile, rowVars, FilesTypeOK,
       IsFileTable, FileRows, Contents
<1>p. PullInv'
  BY <1>0, <1>1, <1>2, SMTT(15) DEF FilesInv, DeleteTxnFile, rowVars,
     PullInv, PullCommitted, OpsKnowPull, EndIsLast, ClosedIsCommitted,
     NoRedo, FilesTypeOK, IsFileTable
<1>r. RowsInv'
  BY <1>0, <1>1, <1>2, SMTT(15) DEF FilesInv, DeleteTxnFile, rowVars,
     PullInv, PullCommitted, OpsKnowPull, RowsInv, RowsAgree, RowsGone, Live,
     Written, FilesTypeOK, IsFileTable
<1>i. IdsInv'
  BY <1>0, <1>1, <1>2, SMTT(15) DEF FilesInv, DeleteTxnFile, rowVars,
     PullInv, PullCommitted, OpsKnowPull, NoRedo, IdsInv, NextIsFree, IsOpen,
     NoneAfterCurr, RedoInOrder, FilesTypeOK, IsFileTable
<1>c. CallInv'
  BY <1>0, <1>1, <1>2, ReversedFacts, SMTT(15) DEF FilesInv, DeleteTxnFile,
     rowVars, CallInv, ReversedGo, WrittenAreValid, NewFileIsWhole,
     OldFileIsKept, After, IsValid, FilesTypeOK, IsFileTable
<1>k. KeepInv'
  BY <1>0, <1>1, <1>2, SMTT(15) DEF FilesInv, DeleteTxnFile, rowVars,
     PullInv, PullCommitted, OpsKnowPull, KeepInv, LocalTxnsKeepFiles,
     DoomedAreNotLocal, IsLocal, Replacing, IsValid, FilesTypeOK, IsFileTable
<1> QED
  BY <1>t, <1>p, <1>r, <1>i, <1>c, <1>k DEF FilesInv

(* The rows deleted are of Txns that are not local.                        *)
LEMMA DeleteRowsStep ==
    ASSUME FilesInv, Safe, DeleteRows
    PROVE  FilesInv'
<1>0. FilesTypeOK
  BY DEF FilesInv
<1>1. /\ DOMAIN Without(txns, call.ids) = DOMAIN txns \ call.ids
      /\ \A i \in DOMAIN txns \ call.ids : Without(txns, call.ids)[i] = txns[i]
  BY WithoutFacts
<1>2. IsFileTable(Without(txns, call.ids))
  BY <1>0, WithoutFacts DEF FilesTypeOK
<1>3. /\ DOMAIN txns' = DOMAIN txns \ call.ids /\ IsFileTable(txns')
      /\ \A i \in DOMAIN txns \ call.ids : txns'[i] = txns[i]
  BY <1>1, <1>2 DEF DeleteRows
<1>t. FilesTypeOK'
  <2>1. call' \in Calls
    BY <1>0, <1>3, ReversedFacts DEF DeleteRows, AfterDelete, Idle,
       FilesTypeOK, Calls, Ops, Places, Contents
  <2> QED
    BY <2>1, <1>0, <1>3, ReversedFacts DEF DeleteRows, AfterDelete, Idle,
       rowVars, FilesTypeOK, IsFileTable, FileRows, Contents
<1>p. PullInv'
  BY <1>0, <1>3, ReversedFacts, SMTT(15) DEF FilesInv, DeleteRows,
     AfterDelete, Idle, rowVars, PullInv, PullCommitted, OpsKnowPull,
     EndIsLast, ClosedIsCommitted, NoRedo, FilesTypeOK, IsFileTable
<1>r. RowsInv'
  BY <1>0, <1>3, ReversedFacts, SMTT(15) DEF FilesInv, DeleteRows,
     AfterDelete, Idle, rowVars, PullInv, PullCommitted, OpsKnowPull,
     RowsInv, RowsAgree, RowsGone, Live, Written, FilesTypeOK, IsFileTable,
     CallInv, ReversedGo
<1>i. IdsInv'
  BY <1>0, <1>3, ReversedFacts, SMTT(15) DEF FilesInv, DeleteRows,
     AfterDelete, Idle, rowVars, PullInv, PullCommitted, OpsKnowPull, NoRedo,
     IdsInv, NextIsFree, IsOpen, NoneAfterCurr, RedoInOrder, FilesTypeOK,
     IsFileTable, CallInv, ReversedGo
<1>c. CallInv'
  BY <1>0, <1>3, ReversedFacts, SMTT(15) DEF FilesInv, DeleteRows,
     AfterDelete, Idle, rowVars, CallInv, ReversedGo, WrittenAreValid,
     NewFileIsWhole, OldFileIsKept, After, IsValid, FilesTypeOK, IsFileTable
<1>k. KeepInv'
  BY <1>0, <1>3, ReversedFacts, SMTT(15) DEF FilesInv, DeleteRows,
     AfterDelete, Idle, rowVars, PullInv, PullCommitted, OpsKnowPull,
     KeepInv, LocalTxnsKeepFiles, DoomedAreNotLocal, IsLocal, Replacing,
     IsValid, FilesTypeOK, IsFileTable, RowsInv, RowsAgree, Live, Written,
     CallInv, WrittenAreValid, After, OldFileIsKept
<1> QED
  BY <1>t, <1>p, <1>r, <1>i, <1>c, <1>k DEF FilesInv

(* Discarding gives every Txn up before it deletes anything.               *)
LEMMA DiscardLocalChangesStep ==
    ASSUME FilesInv, Safe, DiscardLocalChanges
    PROVE  FilesInv'
<1>0. FilesTypeOK
  BY DEF FilesInv
<1>1. PICK ids \in SUBSET TxnIds :
          call' = [Idle EXCEPT !.op = "Discard", !.at = "Files", !.ids = ids]
  BY <1>0 DEF DiscardLocalChanges, Delete, FilesTypeOK, IsFileTable
<1>t. FilesTypeOK'
  <2>1. call' \in Calls
    BY <1>0, <1>1 DEF DiscardLocalChanges, ClientReady, Idle, Delete, Safe,
       FilesTypeOK, Calls, Ops, Places, Contents
  <2> QED
    BY <2>1, <1>0, <1>1 DEF DiscardLocalChanges, ClientReady, Idle, Delete,
       Safe, rowVars, FilesTypeOK, IsFileTable, FileRows, Contents
<1>p. PullInv'
  BY <1>0, SMTT(15) DEF FilesInv, DiscardLocalChanges, ClientReady, Idle,
     Delete, Safe, rowVars, PullInv, PullCommitted, OpsKnowPull, EndIsLast,
     ClosedIsCommitted, NoRedo, FilesTypeOK, IsFileTable
<1>r. RowsInv'
  BY <1>0, SMTT(15) DEF FilesInv, DiscardLocalChanges, ClientReady, Idle,
     Delete, Safe, rowVars, PullInv, PullCommitted, OpsKnowPull, RowsInv,
     RowsAgree, RowsGone, Live, Written, FilesTypeOK, IsFileTable, KeepInv
<1>i. IdsInv'
  BY <1>0, SMTT(15) DEF FilesInv, DiscardLocalChanges, ClientReady, Idle,
     Delete, Safe, rowVars, PullInv, PullCommitted, OpsKnowPull, NoRedo,
     IdsInv, NextIsFree, IsOpen, NoneAfterCurr, RedoInOrder, FilesTypeOK,
     IsFileTable
<1>c. CallInv'
  BY <1>0, ReversedFacts, SMTT(15) DEF FilesInv, DiscardLocalChanges,
     ClientReady, Idle, Delete, Safe, rowVars, CallInv, ReversedGo,
     WrittenAreValid, NewFileIsWhole, OldFileIsKept, After, IsValid,
     FilesTypeOK, IsFileTable
<1>k. KeepInv'
  BY <1>0, SMTT(15) DEF FilesInv, DiscardLocalChanges, ClientReady, Idle,
     Delete, Safe, rowVars, PullInv, PullCommitted, OpsKnowPull, KeepInv,
     LocalTxnsKeepFiles, DoomedAreNotLocal, IsLocal, Replacing, IsValid,
     FilesTypeOK, IsFileTable, RowsInv, RowsAgree, Live, Written, CallInv,
     WrittenAreValid, After, OldFileIsKept
<1> QED
  BY <1>t, <1>p, <1>r, <1>i, <1>c, <1>k DEF FilesInv

(* So does DeleteAllTxns.                                                  *)
LEMMA DeleteAllTxnsStep ==
    ASSUME FilesInv, Safe, DeleteAllTxns
    PROVE  FilesInv'
<1>0. FilesTypeOK
  BY DEF FilesInv
<1>1. DOMAIN txns \subseteq TxnIds
  BY <1>0 DEF FilesTypeOK, IsFileTable
<1>t. FilesTypeOK'
  <2>1. call' \in Calls
    BY <1>0, <1>1 DEF DeleteAllTxns, ClientReady, Idle, GiveUpTxns, Delete,
       FilesTypeOK, Calls, Ops, Places, Contents
  <2> QED
    BY <2>1, <1>0, <1>1 DEF DeleteAllTxns, ClientReady, Idle, GiveUpTxns,
       Delete, rowVars, FilesTypeOK, IsFileTable, FileRows, Contents
<1>p. PullInv'
  BY <1>0, ReversedFacts, SMTT(15) DEF FilesInv, DeleteAllTxns, ClientReady,
     Idle, GiveUpTxns, Delete, rowVars, PullInv, PullCommitted, OpsKnowPull,
     EndIsLast, ClosedIsCommitted, NoRedo, FilesTypeOK, IsFileTable
<1>r. RowsInv'
  BY <1>0, ReversedFacts, SMTT(15) DEF FilesInv, DeleteAllTxns, ClientReady,
     Idle, GiveUpTxns, Delete, rowVars, PullInv, PullCommitted, OpsKnowPull,
     RowsInv, RowsAgree, RowsGone, Live, Written, FilesTypeOK, IsFileTable
<1>i. IdsInv'
  BY <1>0, ReversedFacts, SMTT(15) DEF FilesInv, DeleteAllTxns, ClientReady,
     Idle, GiveUpTxns, Delete, rowVars, PullInv, PullCommitted, OpsKnowPull,
     NoRedo, IdsInv, NextIsFree, IsOpen, NoneAfterCurr, RedoInOrder,
     FilesTypeOK, IsFileTable
<1>c. CallInv'
  BY <1>0, ReversedFacts, SMTT(15) DEF FilesInv, DeleteAllTxns, ClientReady,
     Idle, GiveUpTxns, Delete, rowVars, CallInv, ReversedGo, WrittenAreValid,
     NewFileIsWhole, OldFileIsKept, After, IsValid, FilesTypeOK, IsFileTable
<1>k. KeepInv'
  BY <1>0, ReversedFacts, SMTT(15) DEF FilesInv, DeleteAllTxns, ClientReady,
     Idle, GiveUpTxns, Delete, rowVars, PullInv, PullCommitted, OpsKnowPull,
     KeepInv, LocalTxnsKeepFiles, DoomedAreNotLocal, IsLocal, Replacing,
     IsValid, FilesTypeOK, IsFileTable
<1> QED
  BY <1>t, <1>p, <1>r, <1>i, <1>c, <1>k DEF FilesInv

(* The file is written at an id that no local Txn has.                     *)
LEMMA WriteTxnToFileStep ==
    ASSUME FilesInv, Safe, WriteTxnToFile
    PROVE  FilesInv'
<1>0. FilesTypeOK
  BY DEF FilesInv
<1>1. PICK change \in Changesets : WriteFile(curr, change)
  BY DEF WriteTxnToFile
<1>2. /\ DOMAIN files' = DOMAIN files \cup {curr} /\ files' = [i \in DOMAIN files' |-> files'[i]]
      /\ files'[curr] = change /\ \A i \in DOMAIN files \ {curr} : files'[i] = files[i]
  BY <1>1, WriteFileFacts
<1>t. FilesTypeOK'
  <2>1. call' \in Calls
    BY <1>0, <1>1, <1>2 DEF WriteTxnToFile, Saving, FilesTypeOK, Calls,
       Idle, Ops, Places, Contents
  <2> QED
    BY <2>1, <1>0, <1>1, <1>2 DEF WriteTxnToFile, Saving, rowVars,
       FilesTypeOK, IsFileTable, FileRows, Contents
<1>p. PullInv'
  BY <1>0, <1>1, <1>2, SMTT(15) DEF FilesInv, WriteTxnToFile, Saving,
     rowVars, PullInv, PullCommitted, OpsKnowPull, EndIsLast,
     ClosedIsCommitted, NoRedo, FilesTypeOK, IsFileTable
<1>r. RowsInv'
  BY <1>0, <1>1, <1>2, SMTT(15) DEF FilesInv, WriteTxnToFile, Saving,
     rowVars, PullInv, PullCommitted, OpsKnowPull, RowsInv, RowsAgree,
     RowsGone, Live, Written, FilesTypeOK, IsFileTable
<1>i. IdsInv'
  BY <1>0, <1>1, <1>2, SMTT(15) DEF FilesInv, WriteTxnToFile, Saving,
     rowVars, PullInv, PullCommitted, OpsKnowPull, NoRedo, IdsInv,
     NextIsFree, IsOpen, NoneAfterCurr, RedoInOrder, FilesTypeOK, IsFileTable
<1>c. CallInv'
  BY <1>0, <1>1, <1>2, BeforeIsTotal, SMTT(15) DEF FilesInv, WriteTxnToFile,
     Saving, rowVars, CallInv, ReversedGo, WrittenAreValid, NewFileIsWhole,
     OldFileIsKept, After, IsValid, FilesTypeOK, IsFileTable, IdsInv,
     NoneAfterCurr
<1>k. KeepInv'
  BY <1>0, <1>1, <1>2, BeforeIsTotal, SMTT(15) DEF FilesInv, WriteTxnToFile,
     Saving, rowVars, PullInv, PullCommitted, OpsKnowPull, KeepInv,
     LocalTxnsKeepFiles, DoomedAreNotLocal, IsLocal, Replacing, IsValid,
     FilesTypeOK, IsFileTable, RowsInv, RowsAgree, Live, Written, CallInv,
     WrittenAreValid, After, OldFileIsKept, IdsInv, NextIsFree, IsOpen,
     NoneAfterCurr
<1> QED
  BY <1>t, <1>p, <1>r, <1>i, <1>c, <1>k DEF FilesInv

(* A file torn in the middle is at that id as well.                        *)
LEMMA WriteTxnToFileFailsStep ==
    ASSUME FilesInv, Safe, WriteTxnToFileFails
    PROVE  FilesInv'
<1>0. FilesTypeOK
  BY DEF FilesInv
<1>1. \/ files' = files
      \/ /\ DOMAIN files' = DOMAIN files \cup {curr} /\ files' = [i \in DOMAIN files' |-> files'[i]]
         /\ files'[curr] = Torn /\ \A i \in DOMAIN files \ {curr} : files'[i] = files[i]
  BY WriteFileFacts DEF WriteTxnToFileFails
<1>t. FilesTypeOK'
  <2>1. call' \in Calls
    BY <1>0, <1>1 DEF WriteTxnToFileFails, Saving, Abort, Idle,
       FilesTypeOK, Calls, Ops, Places, Contents
  <2> QED
    BY <2>1, <1>0, <1>1 DEF WriteTxnToFileFails, Saving, Abort, Idle,
       rowVars, FilesTypeOK, IsFileTable, FileRows, Contents
<1>p. PullInv'
  BY <1>0, <1>1, SMTT(15) DEF FilesInv, WriteTxnToFileFails, Saving, Abort,
     Idle, rowVars, PullInv, PullCommitted, OpsKnowPull, EndIsLast,
     ClosedIsCommitted, NoRedo, FilesTypeOK, IsFileTable
<1>r. RowsInv'
  BY <1>0, <1>1, SMTT(15) DEF FilesInv, WriteTxnToFileFails, Saving, Abort,
     Idle, rowVars, PullInv, PullCommitted, OpsKnowPull, RowsInv, RowsAgree,
     RowsGone, Live, Written, FilesTypeOK, IsFileTable
<1>i. IdsInv'
  BY <1>0, <1>1, SMTT(15) DEF FilesInv, WriteTxnToFileFails, Saving, Abort,
     Idle, rowVars, PullInv, PullCommitted, OpsKnowPull, NoRedo, IdsInv,
     NextIsFree, IsOpen, NoneAfterCurr, RedoInOrder, FilesTypeOK, IsFileTable
<1>c. CallInv'
  BY <1>0, <1>1, SMTT(15) DEF FilesInv, WriteTxnToFileFails, Saving, Abort,
     Idle, rowVars, CallInv, ReversedGo, WrittenAreValid, NewFileIsWhole,
     OldFileIsKept, After, IsValid, FilesTypeOK, IsFileTable
<1>k. KeepInv'
  BY <1>0, <1>1, BeforeIsTotal, SMTT(15) DEF FilesInv, WriteTxnToFileFails,
     Saving, Abort, Idle, rowVars, PullInv, PullCommitted, OpsKnowPull,
     KeepInv, LocalTxnsKeepFiles, DoomedAreNotLocal, IsLocal, Replacing,
     IsValid, FilesTypeOK, IsFileTable, RowsInv, RowsAgree, Live, Written,
     CallInv, WrittenAreValid, After, OldFileIsKept, IdsInv, NextIsFree,
     IsOpen, NoneAfterCurr
<1> QED
  BY <1>t, <1>p, <1>r, <1>i, <1>c, <1>k DEF FilesInv

(* An INSERT that fails leaves a file without a row.                       *)
LEMMA InsertTxnFailsStep ==
    ASSUME FilesInv, Safe, InsertTxnFails
    PROVE  FilesInv'
<1>0. FilesTypeOK
  BY DEF FilesInv
<1>1. /\ DOMAIN files' = DOMAIN files \ {curr} /\ files' = [i \in DOMAIN files' |-> files'[i]]
      /\ \A i \in DOMAIN files \ {curr} : files'[i] = files[i]
  BY RemoveFileFacts DEF InsertTxnFails
<1>t. FilesTypeOK'
  <2>1. call' \in Calls
    BY <1>0, <1>1 DEF InsertTxnFails, Inserting, Saving, Abort, Idle,
       FilesTypeOK, Calls, Ops, Places, Contents
  <2> QED
    BY <2>1, <1>0, <1>1 DEF InsertTxnFails, Inserting, Saving, Abort, Idle,
       rowVars, FilesTypeOK, IsFileTable, FileRows, Contents
<1>p. PullInv'
  BY <1>0, <1>1, SMTT(15) DEF FilesInv, InsertTxnFails, Inserting, Saving,
     Abort, Idle, rowVars, PullInv, PullCommitted, OpsKnowPull, EndIsLast,
     ClosedIsCommitted, NoRedo, FilesTypeOK, IsFileTable
<1>r. RowsInv'
  BY <1>0, <1>1, SMTT(15) DEF FilesInv, InsertTxnFails, Inserting, Saving,
     Abort, Idle, rowVars, PullInv, PullCommitted, OpsKnowPull, RowsInv,
     RowsAgree, RowsGone, Live, Written, FilesTypeOK, IsFileTable
<1>i. IdsInv'
  BY <1>0, <1>1, SMTT(15) DEF FilesInv, InsertTxnFails, Inserting, Saving,
     Abort, Idle, rowVars, PullInv, PullCommitted, OpsKnowPull, NoRedo,
     IdsInv, NextIsFree, IsOpen, NoneAfterCurr, RedoInOrder, FilesTypeOK,
     IsFileTable
<1>c. CallInv'
  BY <1>0, <1>1, SMTT(15) DEF FilesInv, InsertTxnFails, Inserting, Saving,
     Abort, Idle, rowVars, CallInv, ReversedGo, WrittenAreValid,
     NewFileIsWhole, OldFileIsKept, After, IsValid, FilesTypeOK, IsFileTable
<1>k. KeepInv'
  BY <1>0, <1>1, BeforeIsTotal, SMTT(15) DEF FilesInv, InsertTxnFails,
     Inserting, Saving, Abort, Idle, rowVars, PullInv, PullCommitted,
     OpsKnowPull, KeepInv, LocalTxnsKeepFiles, DoomedAreNotLocal, IsLocal,
     Replacing, IsValid, FilesTypeOK, IsFileTable, RowsInv, RowsAgree, Live,
     Written, CallInv, WrittenAreValid, After, OldFileIsKept, IdsInv,
     NextIsFree, IsOpen, NoneAfterCurr
<1> QED
  BY <1>t, <1>p, <1>r, <1>i, <1>c, <1>k DEF FilesInv

(* The old file is away while the new one is moved in,                     *)
LEMMA MoveAsideStep ==
    ASSUME FilesInv, Safe, MoveAside
    PROVE  FilesInv'
<1>0. FilesTypeOK
  BY DEF FilesInv
<1>1. PICK id \in call.ids : RemoveFile(id)
  BY DEF MoveAside
<1>2. /\ DOMAIN files' = DOMAIN files \ {id} /\ files' = [i \in DOMAIN files' |-> files'[i]]
      /\ \A i \in DOMAIN files \ {id} : files'[i] = files[i]
  BY <1>1, RemoveFileFacts
<1>t. FilesTypeOK'
  <2>1. call' \in Calls
    BY <1>0, <1>1, <1>2 DEF MoveAside, FilesTypeOK, Calls, Idle, Ops,
       Places, Contents
  <2> QED
    BY <2>1, <1>0, <1>1, <1>2 DEF MoveAside, rowVars, FilesTypeOK,
       IsFileTable, FileRows, Contents
<1>p. PullInv'
  BY <1>0, <1>1, <1>2, SMTT(15) DEF FilesInv, MoveAside, rowVars, PullInv,
     PullCommitted, OpsKnowPull, EndIsLast, ClosedIsCommitted, NoRedo,
     FilesTypeOK, IsFileTable
<1>r. RowsInv'
  BY <1>0, <1>1, <1>2, SMTT(15) DEF FilesInv, MoveAside, rowVars, PullInv,
     PullCommitted, OpsKnowPull, RowsInv, RowsAgree, RowsGone, Live, Written,
     FilesTypeOK, IsFileTable
<1>i. IdsInv'
  BY <1>0, <1>1, <1>2, SMTT(15) DEF FilesInv, MoveAside, rowVars, PullInv,
     PullCommitted, OpsKnowPull, NoRedo, IdsInv, NextIsFree, IsOpen,
     NoneAfterCurr, RedoInOrder, FilesTypeOK, IsFileTable
<1>c. CallInv'
  BY <1>0, <1>1, <1>2, ReversedFacts, SMTT(15) DEF FilesInv, MoveAside,
     rowVars, CallInv, ReversedGo, WrittenAreValid, NewFileIsWhole,
     OldFileIsKept, After, IsValid, FilesTypeOK, IsFileTable
<1>k. KeepInv'
  BY <1>0, <1>1, <1>2, SMTT(15) DEF FilesInv, MoveAside, rowVars, PullInv,
     PullCommitted, OpsKnowPull, KeepInv, LocalTxnsKeepFiles,
     DoomedAreNotLocal, IsLocal, Replacing, IsValid, FilesTypeOK,
     IsFileTable, RowsInv, RowsAgree, Live, Written, CallInv,
     WrittenAreValid, After, OldFileIsKept
<1> QED
  BY <1>t, <1>p, <1>r, <1>i, <1>c, <1>k DEF FilesInv

(* the new file is in place, its checksum in the open transaction alone,   *)
LEMMA MoveInStep ==
    ASSUME FilesInv, Safe, MoveIn
    PROVE  FilesInv'
<1>0. FilesTypeOK
  BY DEF FilesInv
<1>1. PICK id \in call.ids : WriteFile(id, txns[id].change)
  BY DEF MoveIn
<1>2. /\ DOMAIN files' = DOMAIN files \cup {id} /\ files' = [i \in DOMAIN files' |-> files'[i]]
      /\ files'[id] = txns[id].change /\ \A i \in DOMAIN files \ {id} : files'[i] = files[i]
  BY <1>1, WriteFileFacts
<1>t. FilesTypeOK'
  <2>1. call' \in Calls
    BY <1>0, <1>1, <1>2 DEF MoveIn, FilesTypeOK, Calls, Idle, Ops, Places,
       Contents, FilesInv, CallInv, OldFileIsKept
  <2> QED
    BY <2>1, <1>0, <1>1, <1>2 DEF MoveIn, rowVars, FilesTypeOK,
       IsFileTable, FileRows, Contents, FilesInv, CallInv, OldFileIsKept
<1>p. PullInv'
  BY <1>0, <1>1, <1>2, SMTT(15) DEF FilesInv, MoveIn, rowVars, PullInv,
     PullCommitted, OpsKnowPull, EndIsLast, ClosedIsCommitted, NoRedo,
     FilesTypeOK, IsFileTable
<1>r. RowsInv'
  BY <1>0, <1>1, <1>2, SMTT(15) DEF FilesInv, MoveIn, rowVars, PullInv,
     PullCommitted, OpsKnowPull, RowsInv, RowsAgree, RowsGone, Live, Written,
     FilesTypeOK, IsFileTable
<1>i. IdsInv'
  BY <1>0, <1>1, <1>2, SMTT(15) DEF FilesInv, MoveIn, rowVars, PullInv,
     PullCommitted, OpsKnowPull, NoRedo, IdsInv, NextIsFree, IsOpen,
     NoneAfterCurr, RedoInOrder, FilesTypeOK, IsFileTable
<1>c. CallInv'
  BY <1>0, <1>1, <1>2, ReversedFacts, SMTT(15) DEF FilesInv, MoveIn, rowVars,
     CallInv, ReversedGo, WrittenAreValid, NewFileIsWhole, OldFileIsKept,
     After, IsValid, FilesTypeOK, IsFileTable
<1>k. KeepInv'
  BY <1>0, <1>1, <1>2, SMTT(15) DEF FilesInv, MoveIn, rowVars, PullInv,
     PullCommitted, OpsKnowPull, KeepInv, LocalTxnsKeepFiles,
     DoomedAreNotLocal, IsLocal, Replacing, IsValid, FilesTypeOK,
     IsFileTable, RowsInv, RowsAgree, Live, Written, CallInv,
     WrittenAreValid, After, OldFileIsKept
<1> QED
  BY <1>t, <1>p, <1>r, <1>i, <1>c, <1>k DEF FilesInv

(* and a failure in between is a mishap.                                   *)
LEMMA ReplacingFailsStep ==
    ASSUME FilesInv, Safe, ReplacingFails
    PROVE  FilesInv'
<1>0. FilesTypeOK
  BY DEF FilesInv
<1>1. \/ call.at = "MoveAside" /\ files' = files
      \/ /\ call.at = "MoveIn"
         /\ \E id \in call.ids :
               /\ DOMAIN files' = DOMAIN files \cup {id} /\ files' = [i \in DOMAIN files' |-> files'[i]]
               /\ files'[id] = call.kept /\ \A i \in DOMAIN files \ {id} : files'[i] = files[i]
  BY WriteFileFacts DEF ReplacingFails, Safe
<1>t. FilesTypeOK'
  <2>1. call' \in Calls
    BY DEF ReplacingFails, RebaseFailed, Idle, Calls, Ops, Places, Contents
  <2>2. /\ files' = [id \in DOMAIN files' |-> files'[id]]
        /\ DOMAIN files' \subseteq TxnIds /\ \A id \in DOMAIN files' : files'[id] \in Contents
    BY <1>0, <1>1 DEF FilesTypeOK, Calls
  <2> QED
    BY <1>0, <2>1, <2>2 DEF ReplacingFails, FilesTypeOK, IsFileTable, rowVars
<1>p. PullInv'
  BY <1>0, <1>1, SMTT(15) DEF FilesInv, ReplacingFails, RebaseFailed, Idle,
     Safe, rowVars, PullInv, PullCommitted, OpsKnowPull, EndIsLast,
     ClosedIsCommitted, NoRedo, FilesTypeOK, IsFileTable
<1>r. RowsInv'
  BY <1>0, <1>1, SMTT(15) DEF FilesInv, ReplacingFails, RebaseFailed, Idle,
     Safe, rowVars, PullInv, PullCommitted, OpsKnowPull, RowsInv, RowsAgree,
     RowsGone, Live, Written, FilesTypeOK, IsFileTable
<1>i. IdsInv'
  BY <1>0, <1>1, SMTT(15) DEF FilesInv, ReplacingFails, RebaseFailed, Idle,
     Safe, rowVars, PullInv, PullCommitted, OpsKnowPull, NoRedo, IdsInv,
     NextIsFree, IsOpen, NoneAfterCurr, RedoInOrder, FilesTypeOK, IsFileTable
<1>c. CallInv'
  BY <1>0, <1>1, SMTT(15) DEF FilesInv, ReplacingFails, RebaseFailed, Idle,
     Safe, rowVars, CallInv, ReversedGo, WrittenAreValid, NewFileIsWhole,
     OldFileIsKept, After, IsValid, FilesTypeOK, IsFileTable
<1>k. KeepInv'
  <2>1. UNCHANGED <<disk, released>> /\ call' = [Idle EXCEPT !.op = "RebaseFailed", !.at = "Failed"]
    BY DEF ReplacingFails, RebaseFailed
  <2>2. CASE call.at = "MoveAside" /\ files' = files
    BY <2>1, <2>2 DEF FilesInv, KeepInv, LocalTxnsKeepFiles, DoomedAreNotLocal, IsLocal,
                      Replacing, IsValid, Idle
  <2>3. ASSUME call.at = "MoveIn", NEW id \in call.ids,
               DOMAIN files' = DOMAIN files \cup {id}, files'[id] = call.kept,
               \A i \in DOMAIN files \ {id} : files'[i] = files[i]
        PROVE  KeepInv'
    <3>1. call.op = "Rebase" /\ call.ids = {id} /\ call.kept = disk.txns[id].change
      BY <2>3 DEF FilesInv, CallInv, OldFileIsKept, ReplacingFails
    <3> QED
      BY <2>1, <2>3, <3>1 DEF FilesInv, KeepInv, LocalTxnsKeepFiles, DoomedAreNotLocal,
                              IsLocal, Replacing, IsValid, Idle
  <2> QED BY <1>1, <2>2, <2>3
<1> QED
  BY <1>t, <1>p, <1>r, <1>i, <1>c, <1>k DEF FilesInv

(* The row inserted has the checksum of the file.                          *)
LEMMA InsertTxnStep ==
    ASSUME FilesInv, Safe, NEW next, InsertTxn(next)
    PROVE  FilesInv'
<1>0. FilesTypeOK
  BY DEF FilesInv
<1>1. [deleted |-> FALSE, change |-> files[curr]] \in FileRows /\ curr \in TxnIds
  BY DEF FilesInv, FilesTypeOK, CallInv, NewFileIsWhole, InsertTxn, Inserting, FileRows
<1>2. /\ DOMAIN txns' = DOMAIN txns \cup {curr}
      /\ txns'[curr] = [deleted |-> FALSE, change |-> files[curr]]
      /\ \A i \in DOMAIN txns \ {curr} : txns'[i] = txns[i]
  <2> DEFINE new == Insert(txns, curr, [deleted |-> FALSE, change |-> files[curr]])
  <2>1. DOMAIN new = DOMAIN txns \cup {curr}
    BY InsertDomain
  <2>2. /\ new[curr] = [deleted |-> FALSE, change |-> files[curr]]
        /\ \A i \in DOMAIN txns \ {curr} : new[i] = txns[i]
    BY InsertFacts
  <2>3. txns' = new
    BY DEF InsertTxn
  <2> HIDE DEF new
  <2> QED BY <2>1, <2>2, <2>3
<1>3. IsFileTable(txns')
  BY <1>0, <1>1, InsertIsFileTable DEF InsertTxn, FilesTypeOK
<1>4. \A i \in DOMAIN txns : Before(i, curr)
  BY DEF FilesInv, IdsInv, NoneAfterCurr, InsertTxn, Inserting, Saving
<1>5. curr' \in TxnIds /\ Before(curr, curr') /\ \A i \in DOMAIN txns' : Before(i, curr')
  <2>1. CASE curr' = Increment(curr)
    BY <1>0, <1>1, <1>2, <1>4, <2>1, IncrementIsLater, BeforeIsTransitive
       DEF FilesTypeOK, IsFileTable
  <2>2. CASE curr' \in NewSessions(txns')
    BY <1>2, <1>3, <2>2, NewSessionIsLast DEF IsFileTable
  <2> QED BY <2>1, <2>2 DEF InsertTxn
<1>6. /\ next \in {"Write", "Commit"} /\ call.op \in {"Save", "FinishSave"}
      /\ call.at \in {"Insert", "InsertLast"}
      /\ call' = [call EXCEPT !.at = next, !.ids = @ \cup {curr}]
      /\ UNCHANGED <<files, pull, disk, redo, pushing, released>>
  BY DEF InsertTxn, Inserting, Saving
<1>t. FilesTypeOK'
  <2>1. call' \in Calls
    BY <1>0, <1>1, <1>6 DEF FilesTypeOK, Calls, Places
  <2> QED
    BY <1>0, <1>3, <1>5, <1>6, <2>1 DEF FilesTypeOK, IsFileTable
<1>p. PullInv'
  BY <1>0, <1>2, <1>3, <1>5, <1>6, SMTT(15) DEF FilesInv, rowVars, PullInv,
     PullCommitted, OpsKnowPull, EndIsLast, ClosedIsCommitted, NoRedo,
     FilesTypeOK, IsFileTable
<1>r. RowsInv'
  BY <1>0, <1>2, <1>3, <1>5, <1>6, SMTT(15) DEF FilesInv, rowVars, PullInv,
     PullCommitted, OpsKnowPull, RowsInv, RowsAgree, RowsGone, Live, Written,
     FilesTypeOK, IsFileTable, Calls
<1>i. IdsInv'
  BY <1>0, <1>2, <1>3, <1>5, <1>6, BeforeIsTransitive, SMTT(15) DEF FilesInv,
     rowVars, PullInv, PullCommitted, OpsKnowPull, NoRedo, IdsInv,
     NextIsFree, IsOpen, NoneAfterCurr, RedoInOrder, FilesTypeOK, IsFileTable
<1>c. CallInv'
  BY <1>0, <1>2, <1>3, <1>5, <1>6, SMTT(15) DEF FilesInv, rowVars, CallInv,
     ReversedGo, WrittenAreValid, NewFileIsWhole, OldFileIsKept, After,
     IsValid, FilesTypeOK, IsFileTable, Calls
<1>k. KeepInv'
  BY <1>0, <1>2, <1>3, <1>5, <1>6, BeforeIsTotal, SMTT(15) DEF FilesInv,
     rowVars, PullInv, PullCommitted, OpsKnowPull, KeepInv,
     LocalTxnsKeepFiles, DoomedAreNotLocal, IsLocal, Replacing, IsValid,
     FilesTypeOK, IsFileTable, RowsInv, RowsAgree, Live, Written, CallInv,
     WrittenAreValid, After, OldFileIsKept
<1> QED
  BY <1>t, <1>p, <1>r, <1>i, <1>c, <1>k DEF FilesInv

(* Merging reverses Txns whose files stay, and remembers the end.          *)
LEMMA MergeChangesetStep ==
    ASSUME FilesInv, Safe, MergeChangeset
    PROVE  FilesInv'
<1>0. FilesTypeOK
  BY DEF FilesInv
<1>1. /\ DOMAIN txns' = DOMAIN txns /\ IsFileTable(txns')
      /\ \A i \in DOMAIN txns : txns'[i].change = txns[i].change /\ txns'[i].deleted
  <2>1. txns' = Marked(txns, DOMAIN txns, TRUE) /\ IsFileTable(txns)
    BY <1>0 DEF MergeChangeset, FilesTypeOK
  <2>2. DOMAIN txns' = DOMAIN txns
    BY <2>1, MarkedDomain
  <2>3. IsFileTable(txns') /\ \A i \in DOMAIN txns : txns'[i].deleted
    BY <2>1, MarkedFacts
  <2>4. \A i \in DOMAIN txns : txns'[i].change = txns[i].change
    BY <2>1, MarkedKeepsChanges
  <2> QED BY <2>2, <2>3, <2>4
<1>2. /\ call.op = "Pull" /\ call.at = "Read" /\ call' = Idle
      /\ \A id \in DOMAIN txns : id \in DOMAIN files /\ files[id] = txns[id].change
      /\ pull' = curr /\ disk' = [txns |-> txns', pull |-> curr]
      /\ released' = (released \cap DOMAIN txns') \ call.ids
      /\ UNCHANGED <<files, curr, redo, pushing>>
  BY DEF MergeChangeset, Readable, IsValid, Persist
<1>t. FilesTypeOK'
  <2>1. call' \in Calls /\ released' \subseteq TxnIds
    BY <1>0, <1>1, <1>2 DEF FilesTypeOK, Calls, Idle, Ops, Places, Contents
  <2>2. disk'.txns = txns' /\ disk'.pull = pull' /\ disk' = [txns |-> disk'.txns, pull |-> disk'.pull]
    BY <1>2
  <2> QED BY <1>0, <1>1, <1>2, <2>1, <2>2 DEF FilesTypeOK
<1>p. PullInv'
  BY <1>0, <1>1, <1>2, SMTT(15) DEF FilesInv, rowVars, PullInv,
     PullCommitted, OpsKnowPull, EndIsLast, ClosedIsCommitted, NoRedo,
     FilesTypeOK, IsFileTable, IdsInv, NoneAfterCurr, Idle
<1>r. RowsInv'
  BY <1>0, <1>1, <1>2, SMTT(15) DEF FilesInv, rowVars, PullInv,
     PullCommitted, OpsKnowPull, RowsInv, RowsAgree, RowsGone, Live, Written,
     FilesTypeOK, IsFileTable, Idle
<1>i. IdsInv'
  BY <1>0, <1>1, <1>2, SMTT(15) DEF FilesInv, rowVars, PullInv,
     PullCommitted, OpsKnowPull, NoRedo, IdsInv, NextIsFree, IsOpen,
     NoneAfterCurr, RedoInOrder, FilesTypeOK, IsFileTable, Idle
<1>c. CallInv'
  BY <1>0, <1>1, <1>2, SMTT(15) DEF FilesInv, rowVars, CallInv, ReversedGo,
     WrittenAreValid, NewFileIsWhole, OldFileIsKept, After, IsValid,
     FilesTypeOK, IsFileTable, Idle
<1>k. KeepInv'
  BY <1>0, <1>1, <1>2, SMTT(15) DEF FilesInv, rowVars, PullInv,
     PullCommitted, OpsKnowPull, KeepInv, LocalTxnsKeepFiles,
     DoomedAreNotLocal, IsLocal, Replacing, IsValid, FilesTypeOK,
     IsFileTable, Idle
<1> QED
  BY <1>t, <1>p, <1>r, <1>i, <1>c, <1>k DEF FilesInv

(* Discarding reverses the Txns that were given up.                        *)
LEMMA DiscardReverseStep ==
    ASSUME FilesInv, Safe, DiscardReverse
    PROVE  FilesInv'
<1>0. FilesTypeOK
  BY DEF FilesInv
<1>1. /\ DOMAIN txns' = DOMAIN txns /\ IsFileTable(txns')
      /\ \A i \in DOMAIN txns : txns'[i].change = txns[i].change /\ txns'[i].deleted
  <2>1. txns' = Marked(txns, DOMAIN txns, TRUE) /\ IsFileTable(txns)
    BY <1>0 DEF DiscardReverse, FilesTypeOK
  <2>2. DOMAIN txns' = DOMAIN txns
    BY <2>1, MarkedDomain
  <2>3. IsFileTable(txns') /\ \A i \in DOMAIN txns : txns'[i].deleted
    BY <2>1, MarkedFacts
  <2>4. \A i \in DOMAIN txns : txns'[i].change = txns[i].change
    BY <2>1, MarkedKeepsChanges
  <2> QED BY <2>2, <2>3, <2>4
<1>2. /\ call.op = "Discard" /\ call.at = "Read"
      /\ call' = [Idle EXCEPT !.op = "DeleteAll", !.at = "Files", !.ids = DOMAIN txns']
      /\ \A id \in DOMAIN txns : id \in DOMAIN files /\ files[id] = txns[id].change
      /\ pull' = NoTxn /\ disk' = [txns |-> txns', pull |-> NoTxn]
      /\ released' = DOMAIN txns'
      /\ UNCHANGED <<files, curr, redo, pushing>>
  BY DEF DiscardReverse, Readable, IsValid, GiveUpTxns, Delete
<1>3. DOMAIN txns \subseteq TxnIds
  BY <1>0 DEF FilesTypeOK, IsFileTable
<1>t. FilesTypeOK'
  <2>1. call' \in Calls /\ released' \subseteq TxnIds
    BY <1>0, <1>1, <1>2, <1>3 DEF FilesTypeOK, Calls, Idle, Ops, Places, Contents
  <2>2. disk'.txns = txns' /\ disk'.pull = pull' /\ disk' = [txns |-> disk'.txns, pull |-> disk'.pull]
    BY <1>2
  <2> QED BY <1>0, <1>1, <1>2, <2>1, <2>2 DEF FilesTypeOK
<1>p. PullInv'
  BY <1>0, <1>1, <1>2, ReversedFacts, SMTT(15) DEF FilesInv, rowVars,
     PullInv, PullCommitted, OpsKnowPull, EndIsLast, ClosedIsCommitted,
     NoRedo, FilesTypeOK, IsFileTable, Idle
<1>r. RowsInv'
  BY <1>0, <1>1, <1>2, ReversedFacts, SMTT(15) DEF FilesInv, rowVars,
     PullInv, PullCommitted, OpsKnowPull, RowsInv, RowsAgree, RowsGone, Live,
     Written, FilesTypeOK, IsFileTable, Idle
<1>i. IdsInv'
  BY <1>0, <1>1, <1>2, ReversedFacts, SMTT(15) DEF FilesInv, rowVars,
     PullInv, PullCommitted, OpsKnowPull, NoRedo, IdsInv, NextIsFree, IsOpen,
     NoneAfterCurr, RedoInOrder, FilesTypeOK, IsFileTable, Idle
<1>c. CallInv'
  BY <1>0, <1>1, <1>2, ReversedFacts, SMTT(15) DEF FilesInv, rowVars,
     CallInv, ReversedGo, WrittenAreValid, NewFileIsWhole, OldFileIsKept,
     After, IsValid, FilesTypeOK, IsFileTable, Idle
<1>k. KeepInv'
  BY <1>0, <1>1, <1>2, ReversedFacts, SMTT(15) DEF FilesInv, rowVars,
     PullInv, PullCommitted, OpsKnowPull, KeepInv, LocalTxnsKeepFiles,
     DoomedAreNotLocal, IsLocal, Replacing, IsValid, FilesTypeOK,
     IsFileTable, Idle
<1> QED
  BY <1>t, <1>p, <1>r, <1>i, <1>c, <1>k DEF FilesInv

(* Erasing a Txn in a rebase gives it up.                                  *)
LEMMA PullMergeEraseTxnStep ==
    ASSUME FilesInv, Safe, NEW id \in Reversed, PullMergeEraseTxn(id)
    PROVE  FilesInv'
<1>0. FilesTypeOK
  BY DEF FilesInv
<1>1. id \in DOMAIN txns /\ id \in DOMAIN disk.txns /\ id \in TxnIds /\ txns[id].change = disk.txns[id].change
  BY <1>0, ReversedFacts DEF FilesInv, FilesTypeOK, IsFileTable, RowsInv, RowsAgree, Live, Written,
       PullMergeEraseTxn, MayRebase, ClientReady, Idle
<1>t. FilesTypeOK'
  <2>1. call' \in Calls
    BY <1>0, <1>1 DEF PullMergeEraseTxn, MayRebase, ClientReady, Idle,
       Delete, IsValid, FilesTypeOK, Calls, Ops, Places, Contents
  <2> QED
    BY <2>1, <1>0, <1>1 DEF PullMergeEraseTxn, MayRebase, ClientReady,
       Idle, Delete, IsValid, rowVars, FilesTypeOK, IsFileTable, FileRows,
       Contents
<1>p. PullInv'
  BY <1>0, <1>1, SMTT(15) DEF FilesInv, PullMergeEraseTxn, MayRebase,
     ClientReady, Idle, Delete, IsValid, rowVars, PullInv, PullCommitted,
     OpsKnowPull, EndIsLast, ClosedIsCommitted, NoRedo, FilesTypeOK,
     IsFileTable
<1>r. RowsInv'
  BY <1>0, <1>1, SMTT(15) DEF FilesInv, PullMergeEraseTxn, MayRebase,
     ClientReady, Idle, Delete, IsValid, rowVars, PullInv, PullCommitted,
     OpsKnowPull, RowsInv, RowsAgree, RowsGone, Live, Written, FilesTypeOK,
     IsFileTable
<1>i. IdsInv'
  BY <1>0, <1>1, SMTT(15) DEF FilesInv, PullMergeEraseTxn, MayRebase,
     ClientReady, Idle, Delete, IsValid, rowVars, PullInv, PullCommitted,
     OpsKnowPull, NoRedo, IdsInv, NextIsFree, IsOpen, NoneAfterCurr,
     RedoInOrder, FilesTypeOK, IsFileTable
<1>c. CallInv'
  BY <1>0, <1>1, ReversedFacts, SMTT(15) DEF FilesInv, PullMergeEraseTxn,
     MayRebase, ClientReady, Idle, Delete, IsValid, rowVars, CallInv,
     ReversedGo, WrittenAreValid, NewFileIsWhole, OldFileIsKept, After,
     FilesTypeOK, IsFileTable
<1>k. KeepInv'
  BY <1>0, <1>1, SMTT(15) DEF FilesInv, PullMergeEraseTxn, MayRebase,
     ClientReady, Idle, Delete, IsValid, rowVars, PullInv, PullCommitted,
     OpsKnowPull, KeepInv, LocalTxnsKeepFiles, DoomedAreNotLocal, IsLocal,
     Replacing, FilesTypeOK, IsFileTable
<1> QED
  BY <1>t, <1>p, <1>r, <1>i, <1>c, <1>k DEF FilesInv

(* A Txn that needs no rebase becomes live as it is.                       *)
LEMMA PullMergeSetTxnActiveStep ==
    ASSUME FilesInv, Safe, NEW id \in Reversed, PullMergeSetTxnActive(id)
    PROVE  FilesInv'
<1>0. FilesTypeOK
  BY DEF FilesInv
<1>1. id \in DOMAIN txns /\ id \in DOMAIN disk.txns /\ id \in TxnIds /\ txns[id].change = disk.txns[id].change
  BY <1>0, ReversedFacts DEF FilesInv, FilesTypeOK, IsFileTable, RowsInv, RowsAgree, Live, Written,
       PullMergeSetTxnActive, MayRebase, ClientReady, Idle
<1>2. /\ DOMAIN txns' = DOMAIN txns /\ IsFileTable(txns') /\ id \in TxnIds
      /\ \A i \in DOMAIN txns : txns'[i].change = txns[i].change
  BY <1>0, <1>1, SetDeletedFacts DEF PullMergeSetTxnActive, FilesTypeOK
<1>3. /\ pull # NoTxn /\ curr' = id /\ call = Idle
      /\ UNCHANGED <<files, pull, disk, redo, pushing, released, call>>
  BY DEF PullMergeSetTxnActive, MayRebase, ClientReady
<1>t. FilesTypeOK'
  <2>1. call' \in Calls
    BY <1>0, <1>2, <1>3 DEF PullMergeSetTxnActive, FilesTypeOK, Calls,
       Idle, Ops, Places, Contents
  <2> QED
    BY <2>1, <1>0, <1>2, <1>3 DEF PullMergeSetTxnActive, rowVars,
       FilesTypeOK, IsFileTable, FileRows, Contents
<1>p. PullInv'
  BY <1>0, <1>2, <1>3, SMTT(15) DEF FilesInv, rowVars, PullInv,
     PullCommitted, OpsKnowPull, EndIsLast, ClosedIsCommitted, NoRedo,
     FilesTypeOK, IsFileTable, Idle
<1>r. RowsInv'
  BY <1>0, <1>2, <1>3, SMTT(15) DEF FilesInv, rowVars, PullInv,
     PullCommitted, OpsKnowPull, RowsInv, RowsAgree, RowsGone, Live, Written,
     FilesTypeOK, IsFileTable, Idle
<1>i. IdsInv'
  BY <1>0, <1>2, <1>3, SMTT(15) DEF FilesInv, rowVars, PullInv,
     PullCommitted, OpsKnowPull, NoRedo, IdsInv, NextIsFree, IsOpen,
     NoneAfterCurr, RedoInOrder, FilesTypeOK, IsFileTable, Idle
<1>c. CallInv'
  BY <1>0, <1>2, <1>3, ReversedFacts, SMTT(15) DEF FilesInv, rowVars,
     CallInv, ReversedGo, WrittenAreValid, NewFileIsWhole, OldFileIsKept,
     After, IsValid, FilesTypeOK, IsFileTable, Idle
<1>k. KeepInv'
  BY <1>0, <1>2, <1>3, SMTT(15) DEF FilesInv, rowVars, PullInv,
     PullCommitted, OpsKnowPull, KeepInv, LocalTxnsKeepFiles,
     DoomedAreNotLocal, IsLocal, Replacing, IsValid, FilesTypeOK,
     IsFileTable, Idle
<1> QED
  BY <1>t, <1>p, <1>r, <1>i, <1>c, <1>k DEF FilesInv

(* A Txn that is rebased gets a new checksum, not committed yet.           *)
LEMMA PullMergeUpdateTxnStep ==
    ASSUME FilesInv, Safe, NEW id \in Reversed, PullMergeUpdateTxn(id)
    PROVE  FilesInv'
<1>0. FilesTypeOK
  BY DEF FilesInv
<1>1. id \in DOMAIN txns /\ id \in DOMAIN disk.txns /\ id \in TxnIds /\ txns[id].change = disk.txns[id].change
  BY <1>0, ReversedFacts DEF FilesInv, FilesTypeOK, IsFileTable, RowsInv, RowsAgree, Live, Written,
       PullMergeUpdateTxn, MayRebase, ClientReady, Idle
<1>2. IsFileTable(txns') /\ DOMAIN txns' = DOMAIN txns
      /\ \A i \in DOMAIN txns \ {id} : txns'[i] = txns[i]
  <2>1. PICK change \in Changesets : txns' = Insert(txns, id, [deleted |-> FALSE, change |-> change])
    BY DEF PullMergeUpdateTxn
  <2>2. DOMAIN txns' = DOMAIN txns \cup {id}
    BY <2>1, InsertDomain
  <2>3. \A i \in DOMAIN txns \ {id} : txns'[i] = txns[i]
    BY <2>1, InsertFacts
  <2>4. [deleted |-> FALSE, change |-> change] \in FileRows
    BY DEF FileRows
  <2>5. IsFileTable(txns')
    BY <1>0, <1>1, <2>1, <2>4, InsertIsFileTable DEF FilesTypeOK
  <2> QED BY <1>1, <2>2, <2>3, <2>5
<1>3. /\ id \in DOMAIN files /\ files[id] = txns[id].change
      /\ pull # NoTxn /\ call = Idle
      /\ call' = [op |-> "Rebase", at |-> "MoveAside", ids |-> {id}, kept |-> files[id]]
      /\ UNCHANGED <<files, pull, disk, curr, redo, pushing, released>>
  BY DEF PullMergeUpdateTxn, IsValid, MayRebase, ClientReady, Rebase
<1>t. FilesTypeOK'
  <2>1. call' \in Calls
    BY <1>0, <1>1, <1>2, <1>3 DEF PullMergeUpdateTxn, FilesTypeOK, Calls,
       Idle, Ops, Places, Contents
  <2> QED
    BY <2>1, <1>0, <1>1, <1>2, <1>3, ZenonT(30) DEF PullMergeUpdateTxn, rowVars,
       FilesTypeOK, IsFileTable, FileRows, Contents
<1>p. PullInv'
  BY <1>0, <1>1, <1>2, <1>3, SMTT(15) DEF FilesInv, rowVars, PullInv,
     PullCommitted, OpsKnowPull, EndIsLast, ClosedIsCommitted, NoRedo,
     FilesTypeOK, IsFileTable, Idle
<1>r. RowsInv'
  BY <1>0, <1>1, <1>2, <1>3, SMTT(15) DEF FilesInv, rowVars, PullInv,
     PullCommitted, OpsKnowPull, RowsInv, RowsAgree, RowsGone, Live, Written,
     FilesTypeOK, IsFileTable, Idle
<1>i. IdsInv'
  BY <1>0, <1>1, <1>2, <1>3, SMTT(15) DEF FilesInv, rowVars, PullInv,
     PullCommitted, OpsKnowPull, NoRedo, IdsInv, NextIsFree, IsOpen,
     NoneAfterCurr, RedoInOrder, FilesTypeOK, IsFileTable, Idle
<1>c. CallInv'
  BY <1>0, <1>1, <1>2, <1>3, SMTT(15) DEF FilesInv, rowVars, CallInv,
     ReversedGo, WrittenAreValid, NewFileIsWhole, OldFileIsKept, After,
     IsValid, FilesTypeOK, IsFileTable, Idle
<1>k. KeepInv'
  BY <1>0, <1>1, <1>2, <1>3, SMTT(15) DEF FilesInv, rowVars, PullInv,
     PullCommitted, OpsKnowPull, KeepInv, LocalTxnsKeepFiles,
     DoomedAreNotLocal, IsLocal, Replacing, IsValid, FilesTypeOK,
     IsFileTable, Idle
<1> QED
  BY <1>t, <1>p, <1>r, <1>i, <1>c, <1>k DEF FilesInv

(* Finishing a push gives up the Txns before its end.                      *)
LEMMA FinishCreateChangesetStep ==
    ASSUME FilesInv, Safe, NEW op, FinishCreateChangeset(op)
    PROVE  FilesInv'
<1>0. FilesTypeOK
  BY DEF FilesInv
<1>1. IdsBefore(txns, pushing) \subseteq DOMAIN txns /\ DOMAIN txns \subseteq TxnIds
  BY <1>0 DEF IdsBefore, FilesTypeOK, IsFileTable
<1>2. PICK ids \in SUBSET TxnIds :
        /\ op \in {"Finish", "FinishSave"} /\ call = Idle /\ pull = NoTxn
        /\ call' = [Idle EXCEPT !.op = op, !.at = "Files", !.ids = ids]
        /\ released \subseteq released' /\ released' \subseteq TxnIds
        /\ ids \subseteq released' \cup Reversed
        /\ op = "FinishSave" => Reversed \subseteq ids
        /\ redo' = IF op = "FinishSave" THEN <<>> ELSE redo
        /\ UNCHANGED <<files, txns, pull, disk, curr, pushing>>
  <2> DEFINE ids == IF op = "Finish" THEN IdsBefore(txns, pushing)
                    ELSE IdsBefore(txns, pushing) \cup Reversed
  <2>1. ids \in SUBSET TxnIds
    BY <1>1, ReversedFacts
  <2>2. released' \subseteq TxnIds /\ released \subseteq released' /\ ids \subseteq released' \cup Reversed
    BY <1>0, <1>1 DEF FinishCreateChangeset, FilesTypeOK
  <2>3. /\ op \in {"Finish", "FinishSave"} /\ call = Idle /\ pull = NoTxn
        /\ call' = [Idle EXCEPT !.op = op, !.at = "Files", !.ids = ids]
        /\ redo' = IF op = "FinishSave" THEN <<>> ELSE redo
        /\ UNCHANGED <<files, txns, pull, disk, curr, pushing>>
    BY DEF FinishCreateChangeset, Delete, ClientReady, rowVars
  <2> QED BY <2>1, <2>2, <2>3
<1>t. FilesTypeOK'
  <2>1. call' \in Calls
    BY <1>0, <1>2 DEF FinishCreateChangeset, FilesTypeOK, Calls, Idle, Ops,
       Places, Contents
  <2> QED
    BY <2>1, <1>0, <1>2 DEF FinishCreateChangeset, rowVars, FilesTypeOK,
       IsFileTable, FileRows, Contents
<1>p. PullInv'
  BY <1>0, <1>2, ReversedFacts, SMTT(15) DEF FilesInv, rowVars, PullInv,
     PullCommitted, OpsKnowPull, EndIsLast, ClosedIsCommitted, NoRedo,
     FilesTypeOK, IsFileTable, Idle
<1>r. RowsInv'
  BY <1>0, <1>2, ReversedFacts, SMTT(15) DEF FilesInv, rowVars, PullInv,
     PullCommitted, OpsKnowPull, RowsInv, RowsAgree, RowsGone, Live, Written,
     FilesTypeOK, IsFileTable, Idle
<1>i. IdsInv'
  BY <1>0, <1>2, ReversedFacts, SMTT(15) DEF FilesInv, rowVars, PullInv,
     PullCommitted, OpsKnowPull, NoRedo, IdsInv, NextIsFree, IsOpen,
     NoneAfterCurr, RedoInOrder, FilesTypeOK, IsFileTable, Idle
<1>c. CallInv'
  BY <1>0, <1>2, ReversedFacts, SMTT(15) DEF FilesInv, rowVars, CallInv,
     ReversedGo, WrittenAreValid, NewFileIsWhole, OldFileIsKept, After,
     IsValid, FilesTypeOK, IsFileTable, Idle
<1>k. KeepInv'
  BY <1>0, <1>2, ReversedFacts, SMTT(15) DEF FilesInv, rowVars, PullInv,
     PullCommitted, OpsKnowPull, KeepInv, LocalTxnsKeepFiles,
     DoomedAreNotLocal, IsLocal, Replacing, IsValid, FilesTypeOK,
     IsFileTable, Idle, RowsInv, RowsAgree, Live, Written
<1> QED
  BY <1>t, <1>p, <1>r, <1>i, <1>c, <1>k DEF FilesInv

(* A briefcase that opens starts a session after every row.                *)
LEMMA OpenStep ==
    ASSUME FilesInv, Safe, Open
    PROVE  FilesInv'
<1>0. FilesTypeOK
  BY DEF FilesInv
<1>1. /\ call.op = "Closed" /\ txns = disk.txns /\ redo = <<>> /\ pull = disk.pull
      /\ UNCHANGED <<files, txns, pull, disk, redo, pushing, released>>
  BY DEF FilesInv, PullInv, ClosedIsCommitted, PullCommitted, Open, rowVars
<1>2. /\ call' \in Calls /\ call'.op \in {"None", "Refused"}
      /\ call'.op = "Refused" => call'.at = "Closed" /\ call'.ids = {}
      /\ call'.op = "None" => call' = Idle
  <2>1. CASE call' = Idle
    BY <2>1 DEF Idle, Calls, Ops, Places, Contents
  <2>2. CASE call' = [Idle EXCEPT !.op = "Refused", !.at = "Closed"]
    BY <2>2 DEF Idle, Calls, Ops, Places, Contents
  <2> QED BY <2>1, <2>2 DEF Open
<1>3. /\ curr' \in TxnIds
      /\ call'.op = "None" => \A i \in DOMAIN txns : Before(i, curr')
  <2>1. CASE Readable(txns, DOMAIN txns)
    BY <1>0, <2>1, NewSessionIsLast DEF Open, FilesTypeOK, IsFileTable
  <2>2. CASE ~Readable(txns, DOMAIN txns)
    BY <1>0, <2>2 DEF Open, FilesTypeOK, Idle
  <2> QED BY <2>1, <2>2
<1>t. FilesTypeOK'
  BY <1>0, <1>1, <1>2, <1>3 DEF FilesTypeOK
<1>p. PullInv'
  BY <1>0, <1>1, <1>2, <1>3, SMTT(15) DEF FilesInv, rowVars, PullInv,
     PullCommitted, OpsKnowPull, EndIsLast, ClosedIsCommitted, NoRedo,
     FilesTypeOK, IsFileTable, Idle
<1>r. RowsInv'
  BY <1>0, <1>1, <1>2, <1>3, SMTT(15) DEF FilesInv, rowVars, PullInv,
     PullCommitted, OpsKnowPull, RowsInv, RowsAgree, RowsGone, Live, Written,
     FilesTypeOK, IsFileTable, Idle
<1>i. IdsInv'
  BY <1>0, <1>1, <1>2, <1>3, SMTT(15) DEF FilesInv, rowVars, PullInv,
     PullCommitted, OpsKnowPull, NoRedo, IdsInv, NextIsFree, IsOpen,
     NoneAfterCurr, RedoInOrder, FilesTypeOK, IsFileTable, Idle
<1>c. CallInv'
  BY <1>0, <1>1, <1>2, <1>3, SMTT(15) DEF FilesInv, rowVars, CallInv,
     ReversedGo, WrittenAreValid, NewFileIsWhole, OldFileIsKept, After,
     IsValid, FilesTypeOK, IsFileTable, Idle
<1>k. KeepInv'
  BY <1>0, <1>1, <1>2, <1>3, SMTT(15) DEF FilesInv, rowVars, PullInv,
     PullCommitted, OpsKnowPull, KeepInv, LocalTxnsKeepFiles,
     DoomedAreNotLocal, IsLocal, Replacing, IsValid, FilesTypeOK,
     IsFileTable, Idle
<1> QED
  BY <1>t, <1>p, <1>r, <1>i, <1>c, <1>k DEF FilesInv

(* Undo reverses rows from the range on, which redo may bring back.        *)
LEMMA ReverseTxnRangeStep ==
    ASSUME FilesInv, Safe, NEW first \in DOMAIN txns \cup DOMAIN disk.txns, ReverseTxnRange(first)
    PROVE  FilesInv'
<1>0. FilesTypeOK
  BY DEF FilesInv
<1>1. call = Idle /\ pull = NoTxn /\ Before(first, curr) /\ first \in TxnIds
  BY <1>0 DEF ReverseTxnRange, MayUndo, ClientReady, FilesTypeOK, IsFileTable
<1>2. Replayed(first)
  BY <1>1, ReverseRowsReplays DEF ReverseTxnRange

<1>r1. /\ redo \in Seq([first : TxnIds, last : TxnIds])
       /\ [first |-> first, last |-> curr] \in [first : TxnIds, last : TxnIds]
  BY <1>0, <1>1 DEF FilesTypeOK
<1>r2. \/ redo' = redo
       \/ curr' = first /\ redo' = Append(redo, [first |-> first, last |-> curr])
  BY DEF ReverseTxnRange
<1>3. /\ UNCHANGED <<files, pushing, call>>
      /\ redo' \in Seq([first : TxnIds, last : TxnIds])
  <2>1. Append(redo, [first |-> first, last |-> curr]) \in Seq([first : TxnIds, last : TxnIds])
    BY <1>r1, PushFacts
  <2> QED BY <1>r1, <1>r2, <2>1 DEF ReverseTxnRange
<1>4. RedoInOrder'
  <2>1. curr \in TxnIds /\ curr # first
    BY <1>0, <1>1, BeforeIsTotal DEF FilesTypeOK
  <2>2. CASE curr' = first
    <3> DEFINE top == [first |-> first, last |-> curr]
    <3>1. redo' = Append(redo, top)
      BY <2>2 DEF ReverseTxnRange
    <3>2. /\ DOMAIN redo' = 1 .. Len(redo) + 1 /\ DOMAIN redo = 1 .. Len(redo) /\ Len(redo) \in Nat
          /\ \A n \in 1 .. Len(redo) : redo'[n] = redo[n]
          /\ redo'[Len(redo) + 1] = top
      BY <1>r1, <3>1, StackFacts, PushFacts
    <3>3. \A n \in DOMAIN redo : /\ redo[n].last \in TxnIds /\ ~Before(redo[n].last, curr)
                                /\ ~Before(redo[n].last, first)
      <4>1. \A n \in DOMAIN redo : redo[n] \in [first : TxnIds, last : TxnIds]
        BY <1>r1, StackFacts
      <4>2. \A n \in DOMAIN redo : redo[n].last \in TxnIds
        BY <4>1
      <4>3. \A n \in DOMAIN redo : ~Before(redo[n].last, curr)
        BY DEF FilesInv, IdsInv, RedoInOrder
      <4> QED BY <1>1, <2>1, <4>2, <4>3, BeforeIsTransitive
    <3>4. ~Before(curr, first)
      BY <1>1, <2>1, BeforeIsTotal, BeforeIsTransitive DEF Before, TxnIds
    <3>5. ASSUME NEW n \in DOMAIN redo' PROVE ~Before(redo'[n].last, curr')
      BY <2>2, <3>2, <3>3, <3>4
    <3>6. ASSUME NEW m \in DOMAIN redo', NEW n \in DOMAIN redo', m < n
          PROVE  ~Before(redo'[m].last, redo'[n].last)
      <4>1. m \in DOMAIN redo
        BY <3>2, <3>6
      <4> QED BY <3>2, <3>3, <3>6, <4>1 DEF FilesInv, IdsInv, RedoInOrder
    <3> QED BY <3>5, <3>6 DEF RedoInOrder
  <2>3. CASE curr' # first
    BY <1>2, <2>3 DEF FilesInv, IdsInv, RedoInOrder, ReverseTxnRange, Replayed
  <2> QED BY <2>2, <2>3
<1>t. FilesTypeOK'
  <2>1. call' \in Calls
    BY <1>0, <1>3 DEF FilesTypeOK
  <2>2. CASE Rollback /\ UNCHANGED <<disk, released, curr>>
    BY <1>0, <1>1, <1>3, <2>1, <2>2 DEF Rollback, FilesTypeOK
  <2>3. CASE ~(Rollback /\ UNCHANGED <<disk, released, curr>>)
    BY <1>0, <1>1, <1>2, <1>3, <2>1, <2>3 DEF Replayed, FilesTypeOK
  <2> QED BY <2>2, <2>3
<1>p. PullInv'
  BY <1>0, <1>1, <1>2, <1>3, SMTT(15) DEF FilesInv, rowVars, PullInv,
     PullCommitted, OpsKnowPull, EndIsLast, ClosedIsCommitted, NoRedo,
     FilesTypeOK, IsFileTable, Idle, Replayed, Rollback
<1>r. RowsInv'
  BY <1>0, <1>1, <1>2, <1>3, SMTT(15) DEF FilesInv, rowVars, PullInv,
     PullCommitted, OpsKnowPull, RowsInv, RowsAgree, RowsGone, Live, Written,
     FilesTypeOK, IsFileTable, Idle, Replayed, Rollback
<1>i. IdsInv'
  BY <1>0, <1>1, <1>2, <1>3, <1>4, SMTT(15) DEF FilesInv, rowVars, PullInv,
     PullCommitted, OpsKnowPull, NoRedo, IdsInv, NextIsFree, IsOpen,
     NoneAfterCurr, RedoInOrder, FilesTypeOK, IsFileTable, Idle, Replayed,
     Rollback
<1>c. CallInv'
  BY <1>0, <1>1, <1>2, <1>3, SMTT(15) DEF FilesInv, rowVars, CallInv,
     ReversedGo, WrittenAreValid, NewFileIsWhole, OldFileIsKept, After,
     IsValid, FilesTypeOK, IsFileTable, Idle, Replayed, Rollback
<1>k. KeepInv'
  BY <1>0, <1>1, <1>2, <1>3, SMTT(15) DEF FilesInv, rowVars, PullInv,
     PullCommitted, OpsKnowPull, KeepInv, LocalTxnsKeepFiles,
     DoomedAreNotLocal, IsLocal, Replacing, IsValid, FilesTypeOK,
     IsFileTable, Idle, Replayed, Rollback, RowsInv, RowsAgree, Live, Written
<1> QED
  BY <1>t, <1>p, <1>r, <1>i, <1>c, <1>k DEF FilesInv

(* A cancel reverses them for good.                                        *)
LEMMA CancelToStep ==
    ASSUME FilesInv, Safe, NEW pos \in DOMAIN txns \cup DOMAIN disk.txns, CancelTo(pos)
    PROVE  FilesInv'
<1>0. FilesTypeOK
  BY DEF FilesInv
<1>1. call = Idle /\ pull = NoTxn /\ Before(pos, curr) /\ pos \in TxnIds
  BY <1>0 DEF CancelTo, MayUndo, ClientReady, FilesTypeOK, IsFileTable
<1>2. Replayed(pos)
  BY <1>1, ReverseRowsReplays DEF CancelTo

<1>3. /\ UNCHANGED <<files, pushing>> /\ redo' = <<>>
      /\ call' = [Idle EXCEPT !.op = "Cancel", !.at = "Files", !.ids = Reversed']
  BY DEF CancelTo, Delete, Reversed
<1>t. FilesTypeOK'
  <2>1. call' \in Calls
    <3>1. DOMAIN txns' \subseteq TxnIds
      BY <1>0, <1>2 DEF Replayed, Rollback, FilesTypeOK, IsFileTable
    <3> QED BY <1>3, <3>1, ReversedFacts DEF Calls, Idle, Ops, Places, Contents
  <2>2. CASE Rollback /\ UNCHANGED <<disk, released, curr>>
    BY <1>0, <1>1, <1>3, <2>1, <2>2 DEF Rollback, FilesTypeOK
  <2>3. CASE ~(Rollback /\ UNCHANGED <<disk, released, curr>>)
    BY <1>0, <1>1, <1>2, <1>3, <2>1, <2>3 DEF Replayed, FilesTypeOK
  <2> QED BY <2>2, <2>3
<1>p. PullInv'
  BY <1>0, <1>1, <1>2, <1>3, ReversedFacts, SMTT(15) DEF FilesInv, rowVars,
     PullInv, PullCommitted, OpsKnowPull, EndIsLast, ClosedIsCommitted,
     NoRedo, FilesTypeOK, IsFileTable, Idle, Replayed, Rollback
<1>r. RowsInv'
  BY <1>0, <1>1, <1>2, <1>3, ReversedFacts, SMTT(15) DEF FilesInv, rowVars,
     PullInv, PullCommitted, OpsKnowPull, RowsInv, RowsAgree, RowsGone, Live,
     Written, FilesTypeOK, IsFileTable, Idle, Replayed, Rollback
<1>i. IdsInv'
  BY <1>0, <1>1, <1>2, <1>3, ReversedFacts, SMTT(15) DEF FilesInv, rowVars,
     PullInv, PullCommitted, OpsKnowPull, NoRedo, IdsInv, NextIsFree, IsOpen,
     NoneAfterCurr, RedoInOrder, FilesTypeOK, IsFileTable, Idle, Replayed,
     Rollback
<1>c. CallInv'
  BY <1>0, <1>1, <1>2, <1>3, ReversedFacts, SMTT(15) DEF FilesInv, rowVars,
     CallInv, ReversedGo, WrittenAreValid, NewFileIsWhole, OldFileIsKept,
     After, IsValid, FilesTypeOK, IsFileTable, Idle, Replayed, Rollback
<1>k. KeepInv'
  BY <1>0, <1>1, <1>2, <1>3, ReversedFacts, SMTT(15) DEF FilesInv, rowVars,
     PullInv, PullCommitted, OpsKnowPull, KeepInv, LocalTxnsKeepFiles,
     DoomedAreNotLocal, IsLocal, Replacing, IsValid, FilesTypeOK,
     IsFileTable, Idle, Replayed, Rollback, RowsInv, RowsAgree, Live, Written
<1> QED
  BY <1>t, <1>p, <1>r, <1>i, <1>c, <1>k DEF FilesInv

(* Redo brings back rows whose files it could read.                        *)
LEMMA ReinstateTxnStep ==
    ASSUME FilesInv, Safe, ReinstateTxn
    PROVE  FilesInv'
<1>0. FilesTypeOK
  BY DEF FilesInv
<1>1. /\ call = Idle /\ pull = NoTxn /\ redo # <<>> /\ redo[Len(redo)].last \in TxnIds
      /\ UNCHANGED <<files, pushing, call>>
  <2>1. redo \in Seq([first : TxnIds, last : TxnIds]) /\ redo # <<>>
    BY <1>0 DEF ReinstateTxn, FilesTypeOK
  <2>2. redo[Len(redo)] \in [first : TxnIds, last : TxnIds]
    BY <2>1, StackFacts
  <2> QED BY <2>1, <2>2 DEF ReinstateTxn, ClientReady
<1>2. Replayed(redo[Len(redo)].last)
  BY ReinstateReplays
<1>3. redo' \in Seq([first : TxnIds, last : TxnIds])
  BY <1>0, <1>1, ReinstateReplays DEF FilesTypeOK
<1>4. RedoInOrder'
  <2>1. CASE redo' = redo /\ curr' = curr
    BY <2>1 DEF FilesInv, IdsInv, RedoInOrder
  <2>2. CASE redo' = SubSeq(redo, 1, Len(redo) - 1) /\ curr' = redo[Len(redo)].last
    BY <1>0, <1>1, <2>2 DEF FilesInv, IdsInv, RedoInOrder, FilesTypeOK
  <2>3. CASE redo' = SubSeq(redo, 1, Len(redo) - 1) /\ curr' = curr
    BY <1>0, <1>1, <2>3 DEF FilesInv, IdsInv, RedoInOrder, FilesTypeOK
  <2> QED BY <1>2, <2>1, <2>2, <2>3, ReinstateReplays DEF Replayed
<1>t. FilesTypeOK'
  <2>1. call' \in Calls
    BY <1>0, <1>1 DEF FilesTypeOK
  <2>2. CASE Rollback /\ UNCHANGED <<disk, released, curr>>
    BY <1>0, <1>1, <1>3, <2>1, <2>2 DEF Rollback, FilesTypeOK
  <2>3. CASE ~(Rollback /\ UNCHANGED <<disk, released, curr>>)
    BY <1>0, <1>1, <1>2, <1>3, <2>1, <2>3 DEF Replayed, FilesTypeOK
  <2> QED BY <2>2, <2>3
<1>p. PullInv'
  BY <1>0, <1>1, <1>2, <1>3, SMTT(15) DEF FilesInv, rowVars, PullInv,
     PullCommitted, OpsKnowPull, EndIsLast, ClosedIsCommitted, NoRedo,
     FilesTypeOK, IsFileTable, Idle, Replayed, Rollback
<1>r. RowsInv'
  BY <1>0, <1>1, <1>2, <1>3, SMTT(15) DEF FilesInv, rowVars, PullInv,
     PullCommitted, OpsKnowPull, RowsInv, RowsAgree, RowsGone, Live, Written,
     FilesTypeOK, IsFileTable, Idle, Replayed, Rollback
<1>i. IdsInv'
  BY <1>0, <1>1, <1>2, <1>3, <1>4, SMTT(15) DEF FilesInv, rowVars, PullInv,
     PullCommitted, OpsKnowPull, NoRedo, IdsInv, NextIsFree, IsOpen,
     NoneAfterCurr, RedoInOrder, FilesTypeOK, IsFileTable, Idle, Replayed,
     Rollback
<1>c. CallInv'
  BY <1>0, <1>1, <1>2, <1>3, SMTT(15) DEF FilesInv, rowVars, CallInv,
     ReversedGo, WrittenAreValid, NewFileIsWhole, OldFileIsKept, After,
     IsValid, FilesTypeOK, IsFileTable, Idle, Replayed, Rollback
<1>k. KeepInv'
  BY <1>0, <1>1, <1>2, <1>3, SMTT(15) DEF FilesInv, rowVars, PullInv,
     PullCommitted, OpsKnowPull, KeepInv, LocalTxnsKeepFiles,
     DoomedAreNotLocal, IsLocal, Replacing, IsValid, FilesTypeOK,
     IsFileTable, Idle, Replayed, Rollback, RowsInv, RowsAgree, Live, Written
<1> QED
  BY <1>t, <1>p, <1>r, <1>i, <1>c, <1>k DEF FilesInv

-------------------------------------------------------------------------------
(* Every step of SaveNext keeps the invariant.   *)
LEMMA SaveNextSteps ==
    ASSUME FilesInv, Safe, SaveNext
    PROVE  FilesInv'
<1>1. CASE SaveChanges
  BY <1>1, SaveChangesStep
<1>2. CASE SaveFails
  BY <1>2, SaveFailsStep
<1>3. CASE WriteTxnToFile
  BY <1>3, WriteTxnToFileStep
<1>4. CASE WriteTxnToFileFails
  BY <1>4, WriteTxnToFileFailsStep
<1>5. CASE InsertTxn("Write")
  BY <1>5, InsertTxnStep
<1>6. CASE InsertTxn("Commit")
  BY <1>6, InsertTxnStep
<1>7. CASE InsertTxnFails
  BY <1>7, InsertTxnFailsStep
<1>8. CASE CommitSave
  BY <1>8, CommitSaveStep
<1>9. CASE SaveUntracked
  BY <1>9, SaveUntrackedStep
<1>10. CASE AbandonChanges
  BY <1>10, AbandonChangesStep
<1>11. CASE RestartTxnSession
  BY <1>11, RestartTxnSessionStep
<1> QED BY <1>1, <1>2, <1>3, <1>4, <1>5, <1>6, <1>7, <1>8, <1>9, <1>10, <1>11 DEF SaveNext

(* Every step of UndoNext keeps the invariant.   *)
LEMMA UndoNextSteps ==
    ASSUME FilesInv, Safe, UndoNext
    PROVE  FilesInv'
<1>1. ASSUME NEW id \in DOMAIN txns \cup DOMAIN disk.txns, ReverseTxnRange(id) PROVE FilesInv'
  BY <1>1, ReverseTxnRangeStep
<1>2. ASSUME NEW id \in DOMAIN txns \cup DOMAIN disk.txns, CancelTo(id) PROVE FilesInv'
  BY <1>2, CancelToStep
<1>3. CASE CancelNothing
  BY <1>3, CancelNothingStep
<1>4. CASE ReinstateTxn
  BY <1>4, ReinstateTxnStep
<1> QED BY <1>1, <1>2, <1>3, <1>4 DEF UndoNext

(* Every step of PushNext keeps the invariant.   *)
LEMMA PushNextSteps ==
    ASSUME FilesInv, Safe, PushNext
    PROVE  FilesInv'
<1>1. CASE StartCreateChangeset
  BY <1>1, StartCreateChangesetStep
<1>2. CASE PackTxns
  BY <1>2, PackTxnsStep
<1>3. CASE PackTxnsFails
  BY <1>3, PackTxnsFailsStep
<1>4. CASE StopCreateChangeset
  BY <1>4, StopCreateChangesetStep
<1>5. ASSUME NEW op \in {"Finish", "FinishSave"}, FinishCreateChangeset(op) PROVE FilesInv'
  BY <1>5, FinishCreateChangesetStep
<1>6. CASE CommitFinish
  BY <1>6, CommitFinishStep
<1> QED BY <1>1, <1>2, <1>3, <1>4, <1>5, <1>6 DEF PushNext

(* Every step of DiscardNext keeps the invariant.   *)
LEMMA DiscardNextSteps ==
    ASSUME FilesInv, Safe, DiscardNext
    PROVE  FilesInv'
<1>1. CASE DeleteAllTxns
  BY <1>1, DeleteAllTxnsStep
<1>2. CASE CommitDeleteAll
  BY <1>2, CommitDeleteAllStep
<1>3. CASE DiscardLocalChanges
  BY <1>3, DiscardLocalChangesStep
<1>4. CASE DiscardReverse
  BY <1>4, DiscardReverseStep
<1>5. CASE DiscardFails
  BY <1>5, DiscardFailsStep
<1> QED BY <1>1, <1>2, <1>3, <1>4, <1>5 DEF DiscardNext

(* Every step of PullNext keeps the invariant.   *)
LEMMA PullNextSteps ==
    ASSUME FilesInv, Safe, PullNext
    PROVE  FilesInv'
<1>1. CASE PullMergeReverseLocalChanges
  BY <1>1, PullMergeReverseLocalChangesStep
<1>2. CASE MergeChangeset
  BY <1>2, MergeChangesetStep
<1>3. CASE PullFails
  BY <1>3, PullFailsStep
<1>4. ASSUME NEW id \in Reversed, PullMergeUpdateTxn(id) PROVE FilesInv'
  BY <1>4, PullMergeUpdateTxnStep
<1>5. ASSUME NEW id \in Reversed, PullMergeEraseTxn(id) PROVE FilesInv'
  BY <1>5, PullMergeEraseTxnStep
<1>6. ASSUME NEW id \in Reversed, PullMergeSetTxnActive(id) PROVE FilesInv'
  BY <1>6, PullMergeSetTxnActiveStep
<1>7. CASE MoveAside
  BY <1>7, MoveAsideStep
<1>8. CASE MoveIn
  BY <1>8, MoveInStep
<1>9. CASE ReplacingFails
  BY <1>9, ReplacingFailsStep
<1>10. CASE RebaseFails
  BY <1>10, RebaseFailsStep
<1>11. CASE PullMergeRebaseAbortTxn
  BY <1>11, PullMergeRebaseAbortTxnStep
<1>12. CASE CommitRebase
  BY <1>12, CommitRebaseStep
<1>13. CASE PullMergeRebaseEnd
  BY <1>13, PullMergeRebaseEndStep
<1> QED BY <1>1, <1>2, <1>3, <1>4, <1>5, <1>6, <1>7, <1>8, <1>9, <1>10, <1>11, <1>12, <1>13 DEF PullNext

(* It holds of a new briefcase, *)
LEMMA InitFilesInv == Init => FilesInv
<1> SUFFICES ASSUME Init PROVE FilesInv
  OBVIOUS
<1>1. <<1, 0>> \in TxnIds /\ <<>> \in Seq([first : TxnIds, last : TxnIds])
  BY BoundsAssumption DEF TxnIds
<1>2. DOMAIN EmptyMap = {} /\ EmptyMap = [id \in {} |-> EmptyMap[id]]
  BY DEF EmptyMap
<1>3. FilesTypeOK
  BY <1>1, <1>2 DEF Init, FilesTypeOK, IsFileTable, Calls, Idle, Ops, Places,
     Contents
<1>4. PullInv
  BY <1>2 DEF Init, Idle, PullInv, PullCommitted, OpsKnowPull, EndIsLast,
     ClosedIsCommitted, NoRedo
<1>5. RowsInv
  BY <1>2 DEF Init, Idle, RowsInv, RowsAgree, RowsGone, Live, Written
<1>6. IdsInv
  BY <1>2 DEF Init, Idle, IdsInv, NextIsFree, IsOpen, NoneAfterCurr,
     RedoInOrder
<1>7. CallInv
  BY <1>2 DEF Init, Idle, CallInv, ReversedGo, Reversed, WrittenAreValid,
     NewFileIsWhole, OldFileIsKept, After, IsValid
<1>8. KeepInv
  BY <1>2 DEF Init, Idle, KeepInv, LocalTxnsKeepFiles, DoomedAreNotLocal,
     IsLocal
<1> QED BY <1>3, <1>4, <1>5, <1>6, <1>7, <1>8 DEF FilesInv

(* and every step keeps it, if the three mishaps do not happen.            *)
LEMMA FilesInvSteps ==
    ASSUME FilesInv, Safe, [Next]_vars
    PROVE  FilesInv'
<1>1. CASE DeleteTxnFile
  BY <1>1, DeleteTxnFileStep
<1>2. CASE DeleteRows
  BY <1>2, DeleteRowsStep
<1>3. CASE SaveNext
  BY <1>3, SaveNextSteps
<1>4. CASE UndoNext
  BY <1>4, UndoNextSteps
<1>5. CASE PushNext
  BY <1>5, PushNextSteps
<1>6. CASE DiscardNext
  BY <1>6, DiscardNextSteps
<1>7. CASE PullNext
  BY <1>7, PullNextSteps
<1>8. CASE Crash
  BY <1>8, CrashStep
<1>9. CASE Open
  BY <1>9, OpenStep
<1>10. CASE UNCHANGED vars
  BY <1>10 DEF vars, rowVars, FilesInv, FilesTypeOK, IsFileTable, PullInv,
     PullCommitted, OpsKnowPull, EndIsLast, ClosedIsCommitted, NoRedo,
     RowsInv, RowsAgree, RowsGone, Live, Written, IdsInv, NextIsFree, IsOpen,
     NoneAfterCurr, RedoInOrder, CallInv, ReversedGo, Reversed,
     WrittenAreValid, NewFileIsWhole, OldFileIsKept, After, IsValid, KeepInv,
     LocalTxnsKeepFiles, DoomedAreNotLocal, IsLocal, Replacing
<1> QED BY <1>1, <1>2, <1>3, <1>4, <1>5, <1>6, <1>7, <1>8, <1>9, <1>10 DEF Next

LEMMA FilesInvHolds ==
    ASSUME Safe
    PROVE  Spec => []FilesInv
<1>1. Init => FilesInv
  BY InitFilesInv
<1>2. FilesInv /\ [Next]_vars => FilesInv'
  BY FilesInvSteps
<1> QED BY <1>1, <1>2, PTL DEF Spec

(* Every variable keeps its type: no step of a call stores the checksum of *)
(* a torn file, and no row or file has an id that is not a Txn's.          *)
THEOREM FilesAreTyped ==
    ASSUME Safe
    PROVE  Spec => []FilesTypeOK
<1>1. FilesInv => FilesTypeOK
  BY DEF FilesInv
<1> QED BY <1>1, FilesInvHolds, PTL

(* However the calls of a briefcase with file-based Txns interleave with   *)
(* failures and crashes, as long as none of the three mishaps happens, no  *)
(* local Txn is without its file or has one whose checksum is not that of  *)
(* its row: undo, rebase and push can always read what they need.          *)
THEOREM LocalTxnsAlwaysKeepFiles ==
    ASSUME Safe
    PROVE  Spec => []LocalTxnsKeepFiles
<1>1. FilesInv => LocalTxnsKeepFiles
  BY DEF FilesInv, KeepInv
<1> QED BY <1>1, FilesInvHolds, PTL

-------------------------------------------------------------------------------
(* Undo and redo find files.  A range that redo may bring back has the      *)
(* files it was undone from: a call that deletes reversed Txns clears the  *)
(* stack before it deletes the first file, and the two that may leave it    *)
(* (finishing a push, giving up all Txns) delete what nobody needs.        *)
RedoKept ==
    /\ redo # <<>> =>
          /\ call.op \in {"None", "Finish", "DeleteAll"}
          /\ call.op = "None" => txns = disk.txns
    /\ call.op \in {"Finish", "DeleteAll"} =>
          /\ call.at = "Files" => call.ids \subseteq released
          /\ call.at # "Files" => call.ids \cap DOMAIN txns = {}
    /\ \A n \in DOMAIN redo : \A id \in InRange(txns, redo[n].first, redo[n].last) :
          id \in released \/ IsValid(txns, id)

(* A step that clears the stack, or finds it clear, is in neither of them.  *)
LEMMA ClearStackIsKept ==
    ASSUME redo' = <<>>, call'.op \notin {"Finish", "DeleteAll"}
    PROVE  RedoKept'
  BY DEF RedoKept

(* Rows that keep their checksums, their files and their release stay what  *)
(* redo can read.                                                          *)
LEMMA SameStackIsKept ==
    ASSUME RedoKept, redo' = redo, files' = files, DOMAIN txns' \subseteq DOMAIN txns,
           \A i \in DOMAIN txns' : txns'[i].change = txns[i].change,
           released \cap DOMAIN txns' \subseteq released'
    PROVE  \A n \in DOMAIN redo' : \A id \in InRange(txns', redo'[n].first, redo'[n].last) :
              id \in released' \/ IsValid(txns, id)'
  BY DEF RedoKept, InRange, IsValid

LEMMA SaveKeepsRedo ==
    ASSUME FilesInv, RedoKept, SaveNext
    PROVE  RedoKept'
<1>1. CASE SaveChanges
  BY <1>1, ClearStackIsKept DEF SaveChanges, DeleteReversedTxns, Delete, Idle
<1>2. CASE SaveFails
  BY <1>2, ClearStackIsKept DEF SaveFails, Saving, RedoKept, Idle
<1>3. CASE WriteTxnToFile
  BY <1>3, ClearStackIsKept DEF WriteTxnToFile, Saving, RedoKept
<1>4. CASE WriteTxnToFileFails
  BY <1>4, ClearStackIsKept DEF WriteTxnToFileFails, Abort, Saving, RedoKept, Idle
<1>5. ASSUME NEW next, InsertTxn(next) PROVE RedoKept'
  BY <1>5, ClearStackIsKept DEF InsertTxn, Inserting, Saving, RedoKept, FilesInv, FilesTypeOK,
     Calls
<1>6. CASE InsertTxnFails
  BY <1>6, ClearStackIsKept DEF InsertTxnFails, Abort, Inserting, Saving, RedoKept, Idle
<1>7. CASE CommitSave
  BY <1>7, ClearStackIsKept DEF CommitSave, RedoKept, Idle
<1>8. CASE SaveUntracked
  <2>1. /\ call = Idle /\ UNCHANGED <<files, txns, redo, call>>
        /\ disk'.txns = txns' /\ released' = released \cap DOMAIN txns
    BY <1>8 DEF SaveUntracked, ClientReady, Persist, rowVars, Idle
  <2>2. \A n \in DOMAIN redo' : \A id \in InRange(txns', redo'[n].first, redo'[n].last) :
           id \in released' \/ IsValid(txns, id)'
    BY <2>1, SameStackIsKept
  <2> QED BY <2>1, <2>2 DEF RedoKept, Idle
<1>9. CASE AbandonChanges
  <2>1. /\ call' = Idle /\ UNCHANGED <<files, disk, redo, released>> /\ txns' = disk.txns
        /\ redo # <<>> => txns = disk.txns
    BY <1>9 DEF AbandonChanges, ClientReady, Rollback, RedoKept, Idle
  <2>2. CASE redo = <<>>
    BY <2>1, <2>2, ClearStackIsKept DEF Idle
  <2>3. CASE redo # <<>>
    <3>1. \A n \in DOMAIN redo' : \A id \in InRange(txns', redo'[n].first, redo'[n].last) :
             id \in released' \/ IsValid(txns, id)'
      BY <2>1, <2>3, SameStackIsKept
    <3> QED BY <2>1, <2>3, <3>1 DEF RedoKept, Idle
  <2> QED BY <2>2, <2>3
<1>10. CASE RestartTxnSession
  BY <1>10, ClearStackIsKept DEF RestartTxnSession, ClientReady, Idle
<1> QED BY <1>1, <1>2, <1>3, <1>4, <1>5, <1>6, <1>7, <1>8, <1>9, <1>10 DEF SaveNext

(* A range just undone was read, row by row.                               *)
LEMMA UndoneRangeIsKept ==
    ASSUME FilesInv, RedoKept, NEW first \in TxnIds, MayUndo(first),
           ReverseTxnRange(first)
    PROVE  RedoKept'
<1>1. /\ call = Idle /\ pull = NoTxn /\ call' = Idle /\ files' = files
      /\ redo # <<>> => txns = disk.txns
  BY DEF MayUndo, ReverseTxnRange, ClientReady, RedoKept, Idle
<1>2. /\ IsFileTable(txns) /\ IsFileTable(disk.txns) /\ curr \in TxnIds
      /\ redo \in Seq([first : TxnIds, last : TxnIds])
  BY DEF FilesInv, FilesTypeOK
<1>3. CASE Rollback /\ UNCHANGED <<disk, released, curr>>
  <2>1. redo' = redo
    <3>1. curr # first
      BY <1>2 DEF MayUndo, Before, TxnIds
    <3> QED BY <1>3, <3>1 DEF ReverseTxnRange
  <2>2. CASE redo = <<>>
    BY <1>1, <2>1, <2>2, ClearStackIsKept DEF Idle
  <2>3. CASE redo # <<>>
    <3>1. \A n \in DOMAIN redo' : \A id \in InRange(txns', redo'[n].first, redo'[n].last) :
             id \in released' \/ IsValid(txns, id)'
      BY <1>1, <1>3, <2>1, <2>3, SameStackIsKept DEF Rollback
    <3> QED BY <1>1, <1>3, <2>3, <3>1 DEF RedoKept, Rollback, Idle
  <2> QED BY <2>2, <2>3
<1>4. ASSUME NEW rows \in {txns, disk.txns}, NEW range, range = InRange(rows, first, curr),
             Readable(rows, range), txns' = Marked(rows, range, TRUE),
             curr' = first, Persist
      PROVE  RedoKept'
  <2> DEFINE top == [first |-> first, last |-> curr]
  <2>1. IsFileTable(rows) /\ (redo # <<>> => rows = txns)
    BY <1>1, <1>2
  <2>2. DOMAIN txns' = DOMAIN rows /\ \A i \in DOMAIN rows : txns'[i].change = rows[i].change
    BY <1>4, <2>1, MarkedDomain, MarkedKeepsChanges
  <2>3. disk'.txns = txns' /\ released' = released \cap DOMAIN txns'
    BY <1>1, <1>4 DEF Persist, Idle
  <2>4. /\ redo' = Append(redo, top) /\ Len(redo) \in Nat
        /\ DOMAIN redo = 1 .. Len(redo) /\ DOMAIN redo' = 1 .. Len(redo) + 1
        /\ \A n \in 1 .. Len(redo) : redo'[n] = redo[n]
        /\ redo'[Len(redo) + 1] = top
    <3>1. top \in [first : TxnIds, last : TxnIds]
      BY <1>2
    <3>2. redo' = Append(redo, top)
      BY <1>4 DEF ReverseTxnRange
    <3> QED BY <1>2, <3>1, <3>2, PushFacts, StackFacts
  <2> HIDE DEF top
  <2>5. ASSUME NEW n \in DOMAIN redo',
               NEW id \in InRange(txns', redo'[n].first, redo'[n].last)
        PROVE  id \in released' \/ IsValid(txns, id)'
    <3>1. CASE n \in DOMAIN redo
      <4>1. redo # <<>> /\ redo'[n] = redo[n]
        BY <2>4, <3>1
      <4>2. id \in InRange(txns, redo[n].first, redo[n].last)
        BY <2>1, <2>2, <2>5, <4>1 DEF InRange
      <4>3. id \in released \/ IsValid(txns, id)
        BY <3>1, <4>2 DEF RedoKept
      <4> QED BY <1>1, <2>1, <2>2, <2>3, <2>5, <4>1, <4>3 DEF InRange, IsValid
    <3>2. CASE n \notin DOMAIN redo
      <4>1. redo'[n] = top
        BY <2>4, <3>2
      <4>2. id \in range
        <5>1. id \in InRange(txns', first, curr)
          BY <2>5, <4>1 DEF top
        <5> QED BY <1>4, <2>2, <5>1 DEF InRange
      <4> QED BY <1>1, <1>4, <2>2, <4>2 DEF Readable, IsValid, InRange
    <3> QED BY <3>1, <3>2
  <2> QED BY <1>1, <2>3, <2>5 DEF RedoKept, Idle
<1> QED BY <1>3, <1>4 DEF ReverseTxnRange, ReverseRows

LEMMA UndoKeepsRedo ==
    ASSUME FilesInv, RedoKept, UndoNext
    PROVE  RedoKept'
<1>1. ASSUME NEW id \in DOMAIN txns \cup DOMAIN disk.txns, ReverseTxnRange(id) PROVE RedoKept'
  BY <1>1, UndoneRangeIsKept DEF FilesInv, FilesTypeOK, IsFileTable, ReverseTxnRange
<1>2. ASSUME NEW id \in DOMAIN txns \cup DOMAIN disk.txns, CancelTo(id) PROVE RedoKept'
  BY <1>2, ClearStackIsKept DEF CancelTo, Delete, Idle
<1>3. CASE CancelNothing
  BY <1>3, ClearStackIsKept DEF CancelNothing, DeleteReversedTxns, Delete, Idle
<1>4. CASE ReinstateTxn
  <2>1. /\ call = Idle /\ call' = Idle /\ files' = files /\ redo # <<>> /\ txns = disk.txns
        /\ IsFileTable(txns) /\ redo \in Seq([first : TxnIds, last : TxnIds])
    BY <1>4 DEF ReinstateTxn, ClientReady, RedoKept, Idle, FilesInv, FilesTypeOK
  <2>2. CASE Rollback /\ UNCHANGED <<disk, released, curr, redo>>
    <3>1. \A n \in DOMAIN redo' : \A id \in InRange(txns', redo'[n].first, redo'[n].last) :
             id \in released' \/ IsValid(txns, id)'
      BY <2>1, <2>2, SameStackIsKept DEF Rollback
    <3> QED BY <2>1, <2>2, <3>1 DEF RedoKept, Rollback, Idle
  <2>3. ASSUME NEW range, txns' = Marked(txns, range, FALSE), Persist,
               redo' = SubSeq(redo, 1, Len(redo) - 1)
        PROVE  RedoKept'
    <3>1. DOMAIN txns' = DOMAIN txns /\ \A i \in DOMAIN txns : txns'[i].change = txns[i].change
      BY <2>1, <2>3, MarkedDomain, MarkedKeepsChanges
    <3>2. disk'.txns = txns' /\ released' = released \cap DOMAIN txns'
      BY <2>1, <2>3 DEF Persist, Idle
    <3>3. \A n \in DOMAIN redo' : n \in DOMAIN redo /\ redo'[n] = redo[n]
      BY <2>1, <2>3, StackFacts
    <3>4. \A n \in DOMAIN redo' : \A id \in InRange(txns', redo'[n].first, redo'[n].last) :
             id \in released' \/ IsValid(txns, id)'
      BY <2>1, <3>1, <3>2, <3>3 DEF RedoKept, InRange, IsValid
    <3> QED BY <2>1, <3>2, <3>4 DEF RedoKept, Idle
  <2> QED BY <1>4, <2>1, <2>2, <2>3 DEF ReinstateTxn
<1> QED BY <1>1, <1>2, <1>3, <1>4 DEF UndoNext

LEMMA PushKeepsRedo ==
    ASSUME FilesInv, RedoKept, PushNext
    PROVE  RedoKept'
<1>0. FilesTypeOK
  BY DEF FilesInv
<1>1. CASE StartCreateChangeset
  BY <1>1, ClearStackIsKept DEF StartCreateChangeset, DeleteReversedTxns, Delete, Idle
<1>2. CASE PackTxns
  BY <1>2, ClearStackIsKept DEF PackTxns, Idle
<1>3. CASE PackTxnsFails
  BY <1>3, ClearStackIsKept DEF PackTxnsFails, RedoKept, Idle
<1>4. CASE StopCreateChangeset
  BY <1>4 DEF StopCreateChangeset, RedoKept, rowVars, InRange, IsValid
<1>5. ASSUME NEW op \in {"Finish", "FinishSave"}, FinishCreateChangeset(op) PROVE RedoKept'
  <2>1. CASE op = "FinishSave"
    BY <1>5, <2>1, ClearStackIsKept DEF FinishCreateChangeset, Delete, Idle
  <2>2. CASE op = "Finish"
    <3>1. /\ call'.op = "Finish" /\ call'.at = "Files" /\ UNCHANGED <<files, txns, redo>>
          /\ call'.ids \subseteq released' /\ released \subseteq released'
      BY <1>5, <2>2 DEF FinishCreateChangeset, Delete, Idle, rowVars
    <3>2. \A n \in DOMAIN redo' : \A id \in InRange(txns', redo'[n].first, redo'[n].last) :
             id \in released' \/ IsValid(txns, id)'
      BY <3>1, SameStackIsKept
    <3> QED BY <3>1, <3>2 DEF RedoKept
  <2> QED BY <2>1, <2>2
<1>6. CASE CommitFinish
  <2>1. CASE redo' = <<>>
    BY <1>6, <2>1, ClearStackIsKept DEF CommitFinish, Idle
  <2>2. CASE redo' # <<>>
    <3>1. /\ call.at = "Commit" /\ call' = Idle /\ UNCHANGED <<files, txns, redo>>
          /\ disk'.txns = txns' /\ released' = (released \cap DOMAIN txns') \ call.ids
      BY <1>6, <2>2 DEF CommitFinish, Persist, rowVars
    <3>2. call.ids \cap DOMAIN txns = {}
      BY <1>6, <2>2, <3>1 DEF RedoKept, CommitFinish
    <3>3. \A n \in DOMAIN redo' : \A id \in InRange(txns', redo'[n].first, redo'[n].last) :
             id \in released' \/ IsValid(txns, id)'
      BY <3>1, <3>2, SameStackIsKept
    <3> QED BY <3>1, <3>3 DEF RedoKept, Idle
  <2> QED BY <2>1, <2>2
<1> QED BY <1>1, <1>2, <1>3, <1>4, <1>5, <1>6 DEF PushNext

LEMMA DiscardKeepsRedo ==
    ASSUME FilesInv, RedoKept, DiscardNext
    PROVE  RedoKept'
<1>1. ASSUME GiveUpTxns PROVE RedoKept'
  BY <1>1 DEF GiveUpTxns, RedoKept, Delete, Idle, InRange
<1>2. CASE DeleteAllTxns
  BY <1>1, <1>2 DEF DeleteAllTxns
<1>3. CASE CommitDeleteAll
  BY <1>3, ClearStackIsKept DEF CommitDeleteAll, Idle
<1>4. CASE DiscardLocalChanges
  BY <1>4, ClearStackIsKept DEF DiscardLocalChanges, Delete, Idle
<1>5. CASE DiscardReverse
  BY <1>1, <1>5 DEF DiscardReverse
<1>6. CASE DiscardFails
  BY <1>6, ClearStackIsKept DEF DiscardFails, RedoKept, Idle
<1> QED BY <1>2, <1>3, <1>4, <1>5, <1>6 DEF DiscardNext

(* In a rebase there is nothing to redo.                                   *)
LEMMA PullKeepsRedo ==
    ASSUME FilesInv, RedoKept, PullNext
    PROVE  RedoKept'
<1>0. /\ call \in Calls
      /\ pull # NoTxn => redo = <<>>
      /\ call.op \in {"Rebase", "Erase", "RebaseFailed"} => pull # NoTxn
  BY DEF FilesInv, FilesTypeOK, PullInv, NoRedo, OpsKnowPull
<1>1. CASE PullMergeReverseLocalChanges
  BY <1>1, ClearStackIsKept DEF PullMergeReverseLocalChanges, DeleteReversedTxns, Delete, Idle
<1>2. CASE MergeChangeset
  BY <1>2, ClearStackIsKept DEF MergeChangeset, RedoKept, Idle
<1>3. CASE PullFails
  BY <1>3, ClearStackIsKept DEF PullFails, RedoKept, Idle
<1>4. ASSUME NEW id \in Reversed, PullMergeUpdateTxn(id) PROVE RedoKept'
  BY <1>0, <1>4, ClearStackIsKept DEF PullMergeUpdateTxn, MayRebase, Rebase
<1>5. ASSUME NEW id \in Reversed, PullMergeEraseTxn(id) PROVE RedoKept'
  BY <1>0, <1>5, ClearStackIsKept DEF PullMergeEraseTxn, MayRebase, Delete, Idle
<1>6. ASSUME NEW id \in Reversed, PullMergeSetTxnActive(id) PROVE RedoKept'
  BY <1>0, <1>6, ClearStackIsKept DEF PullMergeSetTxnActive, MayRebase, ClientReady, Idle
<1>7. CASE MoveAside
  BY <1>0, <1>7, ClearStackIsKept DEF MoveAside, Calls
<1>8. CASE MoveIn
  BY <1>0, <1>8, ClearStackIsKept DEF MoveIn, Calls
<1>9. CASE ReplacingFails
  BY <1>0, <1>9, ClearStackIsKept DEF ReplacingFails, RebaseFailed, Idle
<1>10. CASE RebaseFails
  BY <1>0, <1>10, ClearStackIsKept DEF RebaseFails, RebaseFailed, Idle
<1>11. CASE PullMergeRebaseAbortTxn
  BY <1>0, <1>11, ClearStackIsKept DEF PullMergeRebaseAbortTxn, Idle
<1>12. CASE CommitRebase
  BY <1>0, <1>12, ClearStackIsKept DEF CommitRebase, Idle
<1>13. CASE PullMergeRebaseEnd
  BY <1>13, ClearStackIsKept DEF PullMergeRebaseEnd, ClientReady, Idle
<1> QED BY <1>1, <1>2, <1>3, <1>4, <1>5, <1>6, <1>7, <1>8, <1>9, <1>10, <1>11, <1>12, <1>13
     DEF PullNext

(* A call that deletes files with something left to redo deletes released  *)
(* ones.                                                                   *)
LEMMA DeletionKeepsRedo ==
    ASSUME FilesInv, RedoKept, DeleteTxnFile \/ DeleteRows
    PROVE  RedoKept'
<1>0. /\ call \in Calls
      /\ call.at = "Files" => call.op # "None"
  BY DEF FilesInv, FilesTypeOK, PullInv, OpsKnowPull
<1>1. CASE DeleteTxnFile
  <2>1. call' = call /\ call.at = "Files" /\ UNCHANGED <<txns, disk, redo, released>>
    BY <1>1 DEF DeleteTxnFile, rowVars
  <2>2. PICK gone \in call.ids : RemoveFile(gone)
    BY <1>1 DEF DeleteTxnFile
  <2>3. /\ DOMAIN files' = DOMAIN files \ {gone}
        /\ \A i \in DOMAIN files \ {gone} : files'[i] = files[i]
    BY <2>2, RemoveFileFacts
  <2>4. redo # <<>> => gone \in released
    BY <1>0, <2>1, <2>2 DEF RedoKept
  <2>5. CASE redo = <<>>
    BY <2>1, <2>5 DEF RedoKept
  <2>6. CASE redo # <<>>
    BY <2>1, <2>3, <2>4, <2>6 DEF RedoKept, InRange, IsValid
  <2> QED BY <2>5, <2>6
<1>2. CASE DeleteRows
  <2>1. /\ DOMAIN txns' = DOMAIN txns \ call.ids
        /\ \A i \in DOMAIN txns' : txns'[i] = txns[i]
    <3>1. txns' = Without(txns, call.ids)
      BY <1>2 DEF DeleteRows
    <3>2. LET new == Without(txns, call.ids)
          IN  /\ DOMAIN new = DOMAIN txns \ call.ids
              /\ \A i \in DOMAIN txns \ call.ids : new[i] = txns[i]
      BY WithoutFacts
    <3> QED BY <3>1, <3>2
  <2>2. UNCHANGED <<files, redo, released>> /\ call.at = "Files"
    BY <1>2 DEF DeleteRows
  <2>3. \A n \in DOMAIN redo' : \A id \in InRange(txns', redo'[n].first, redo'[n].last) :
           id \in released' \/ IsValid(txns, id)'
    BY <2>1, <2>2, SameStackIsKept
  <2>4. CASE call.op = "Cancel"
    BY <1>2, <2>2, <2>4, ClearStackIsKept DEF DeleteRows, RedoKept, Idle
  <2>5. CASE call.op # "Cancel"
    <3>1. /\ call'.op = call.op /\ call'.ids = call.ids
          /\ call.op \in {"Finish", "DeleteAll"} => call'.at = "Commit"
      BY <1>0, <1>2, <2>5 DEF DeleteRows, AfterDelete, Calls
    <3> QED BY <1>0, <2>1, <2>2, <2>3, <3>1 DEF RedoKept
  <2> QED BY <2>4, <2>5
<1> QED BY <1>1, <1>2

(* Undo, redo and cancel, as long as there is no pull, find the file of     *)
(* every Txn they may be asked for, with the checksum of its row: neither  *)
(* a save, cancel or push that deletes files nor one that fails takes one. *)
THEOREM UndoRedoAlwaysFindFiles ==
    ASSUME Safe
    PROVE  Spec => []UndoRedoFindFiles
<1>1. Init => RedoKept
  BY DEF Init, RedoKept, Idle
<1>2. FilesInv /\ RedoKept /\ [Next]_vars => RedoKept'
  <2> SUFFICES ASSUME FilesInv, RedoKept, [Next]_vars PROVE RedoKept'
    OBVIOUS
  <2>1. CASE Crash
    BY <2>1, ClearStackIsKept DEF Crash, Idle
  <2>2. CASE Open
    <3>1. call.op = "Closed" /\ redo' = redo
      BY <2>2 DEF Open
    <3>2. redo' = <<>>
      BY <3>1 DEF RedoKept
    <3>3. CASE call' = Idle
      BY <3>2, <3>3, ClearStackIsKept DEF Idle
    <3>4. CASE call' = [Idle EXCEPT !.op = "Refused", !.at = "Closed"]
      BY <3>2, <3>4, ClearStackIsKept DEF Idle
    <3> QED BY <2>2, <3>3, <3>4 DEF Open
  <2>3. CASE UNCHANGED vars
    BY <2>3 DEF vars, rowVars, RedoKept, InRange, IsValid
  <2> QED BY <2>1, <2>2, <2>3, SaveKeepsRedo, UndoKeepsRedo, PushKeepsRedo, DiscardKeepsRedo,
          PullKeepsRedo, DeletionKeepsRedo DEF Next
<1>3. FilesInv /\ RedoKept => UndoRedoFindFiles
  <2> SUFFICES ASSUME FilesInv, RedoKept, call = Idle, pull = NoTxn,
                      NEW id \in DOMAIN txns \ released, CanBeAskedFor(id)
               PROVE  IsValid(txns, id)
    BY DEF UndoRedoFindFiles, ClientReady
  <2>1. CASE ~txns[id].deleted
    <3>1. txns[id] = disk.txns[id] /\ id \in DOMAIN disk.txns
      BY RowsBetweenCalls
    <3>2. IsLocal(id) /\ ~Replacing(id)
      BY <2>1, <3>1 DEF IsLocal, Replacing, Idle
    <3> QED BY <3>1, <3>2 DEF FilesInv, KeepInv, LocalTxnsKeepFiles, IsValid
  <2>2. CASE \E n \in DOMAIN redo : id \in InRange(txns, redo[n].first, redo[n].last)
    BY <2>2 DEF RedoKept
  <2> QED BY <2>1, <2>2 DEF CanBeAskedFor
<1> QED BY <1>1, <1>2, <1>3, FilesInvHolds, PTL DEF Spec

===============================================================================
