------------------------------- MODULE TxnTable -------------------------------
(***************************************************************************)
(* The dgn_Txns table of a briefcase, as a value: TxnIds and their order,  *)
(* rows, the changesets the rows hold, and the queries and updates that    *)
(* TxnManager makes on the table.  No variables: every module about        *)
(* transactions extends this one.                                          *)
(*                                                                         *)
(* A briefcase's tracked tables are abstracted to a function from Keys to  *)
(* Values; a key stands for one row of a tracked table and one of the      *)
(* values may stand for "no such row", so that an insert, an update and a  *)
(* delete are all a change of a key's value.                               *)
(***************************************************************************)
EXTENDS Naturals, FiniteSets

CONSTANTS Keys,       (* the rows of the tracked tables                    *)
          Values      (* what a row may hold                               *)

States == [Keys -> Values]

(***************************************************************************)
(* A TxnId is a session number and a counter, compared as one 64-bit       *)
(* number: the session is the high half.  Sessions count from 1, counters  *)
(* from 0.  NoTxn stands for the invalid id and for TxnId(0), the id that  *)
(* queries for the first row start from: no comparison tells them apart.   *)
(***************************************************************************)
TxnIds == (Nat \ {0}) \X Nat
NoTxn == <<0, 0>>
Before(a, b) == a[1] < b[1] \/ (a[1] = b[1] /\ a[2] < b[2])
Increment(id) == <<id[1], id[2] + 1>>
FaultySessionStart(id) == <<1, 0>>           (* Fault: the oldest session *)
SessionStart(id) == <<id[1], 0>>

IsFirst(id, S) == id \in S /\ \A other \in S : ~Before(other, id)
IsLast(id, S) == id \in S /\ \A other \in S : ~Before(id, other)

(***************************************************************************)
(* A changeset gives, for each key it touches, the value before and after. *)
(***************************************************************************)
Changes == UNION {[touched -> [old : Values, new : Values]] :
                      touched \in SUBSET Keys}
EmptyMap == [k \in {} |-> k]
Invert(change) ==
    [k \in DOMAIN change |-> [old |-> change[k].new, new |-> change[k].old]]

(* The net difference between two states: keys whose value is the same in  *)
(* both are not part of a changeset.                                       *)
Difference(from, to) ==
    [k \in {key \in Keys : from[key] # to[key]} |->
        [old |-> from[k], new |-> to[k]]]

(* Applying a Txn for undo or redo: UndoChangeSet skips every row that does *)
(* not hold the value the changeset expects.                               *)
ApplySkipping(change, state) ==
    [k \in Keys |-> IF k \in DOMAIN change /\ state[k] = change[k].old
                    THEN change[k].new ELSE state[k]]

TxnTypes == {"Data", "EcSchema", "Ddl"}
Rows == [type : TxnTypes, deleted : BOOLEAN, grouped : BOOLEAN, change : Changes]
IsTable(table) ==
    /\ table = [id \in DOMAIN table |-> table[id]]
    /\ DOMAIN table \subseteq TxnIds
    /\ \A id \in DOMAIN table : table[id] \in Rows

(***************************************************************************)
(* Queries.  QueryPreviousTxnId and QueryNextTxnId see reversed rows too.  *)
(***************************************************************************)
IdsBefore(table, id) == {i \in DOMAIN table : Before(i, id)}
IdsAfter(table, id) == {i \in DOMAIN table : Before(id, i)}
IsPrevious(table, id, previous) == IsLast(previous, IdsBefore(table, id))
IsNext(table, id, next) == IsFirst(next, IdsAfter(table, id))
HasPendingTxns(table) == \E i \in DOMAIN table : ~table[i].deleted

(* Fault: a new session takes the number of the last one.                  *)
FaultyIsNewSession(table, id) ==
    \/ DOMAIN table = {} /\ id = <<1, 0>>
    \/ \E last \in DOMAIN table : IsLast(last, DOMAIN table) /\ id = <<last[1], 0>>

(* TxnManager::Initialize(New): the id a new session starts at is one       *)
(* session past every id in the table, reversed ones included.             *)
IsNewSession(table, id) ==
    \/ DOMAIN table = {} /\ id = <<1, 0>>
    \/ \E last \in DOMAIN table :
          IsLast(last, DOMAIN table) /\ id = <<last[1] + 1, 0>>

(***************************************************************************)
(* Updates.                                                                *)
(***************************************************************************)
Keep(table, ids) == [i \in DOMAIN table \cap ids |-> table[i]]
FaultyWithoutReversed(table) == table        (* Fault: nothing is deleted   *)
WithoutReversed(table) == Keep(table, {i \in DOMAIN table : ~table[i].deleted})
FaultyFrom(table, id) == EmptyMap            (* Fault: the WHERE is dropped *)
From(table, id) == Keep(table, {i \in DOMAIN table : ~Before(i, id)})
Insert(table, id, row) ==
    [i \in DOMAIN table \cup {id} |-> IF i = id THEN row ELSE table[i]]
SetDeleted(table, id, flag) == [table EXCEPT ![id].deleted = flag]

(***************************************************************************)
(* What a table says about the database: the state obtained by applying to *)
(* base, in id order, the rows of the table that lie before id.  The last  *)
(* row that touches a key decides its value.                               *)
(***************************************************************************)
Writers(table, key) == {i \in DOMAIN table : key \in DOMAIN table[i].change}
ValueFrom(table, writers, base, key) ==
    IF writers = {} THEN base[key]
    ELSE table[CHOOSE i \in writers : IsLast(i, writers)].change[key].new
StateAt(table, base, id) ==
    [k \in Keys |->
        ValueFrom(table, {i \in Writers(table, k) : Before(i, id)}, base, k)]
Replay(table, base) ==
    [k \in Keys |-> ValueFrom(table, Writers(table, k), base, k)]

(* The changeset obtained by grouping the rows before id: the first old    *)
(* value and the last new value of every key, dropped when they are equal. *)
GroupedChange(table, id) ==
    LET touching(k) == {i \in Writers(table, k) : Before(i, id)}
        oldest(k) == table[CHOOSE i \in touching(k) : IsFirst(i, touching(k))].change[k].old
        newest(k) == table[CHOOSE i \in touching(k) : IsLast(i, touching(k))].change[k].new
    IN [k \in {key \in Keys : touching(key) # {} /\ oldest(key) # newest(key)} |->
            [old |-> oldest(k), new |-> newest(k)]]
===============================================================================
