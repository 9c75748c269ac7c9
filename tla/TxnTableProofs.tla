---------------------------- MODULE TxnTableProofs ----------------------------
(***************************************************************************)
(* Facts about the operators of TxnTable: the order of TxnIds and the      *)
(* types of the changesets and tables the operators return.                *)
(***************************************************************************)
EXTENDS TxnTable, WellFoundedInduction, TLAPS

(***************************************************************************)
(* TxnIds.                                                                 *)
(***************************************************************************)

(* TxnIds are totally ordered, as the 64-bit numbers they stand for are.   *)
LEMMA BeforeIsTotal ==
    ASSUME NEW a \in TxnIds, NEW b \in TxnIds
    PROVE  /\ ~Before(a, a)
           /\ a = b \/ Before(a, b) \/ Before(b, a)
           /\ ~(Before(a, b) /\ Before(b, a))
  BY DEF TxnIds, Before

(* The order is transitive.                                                *)
LEMMA BeforeIsTransitive ==
    ASSUME NEW a \in TxnIds, NEW b \in TxnIds, NEW c \in TxnIds,
           Before(a, b), Before(b, c)
    PROVE  Before(a, c)
  BY DEF TxnIds, Before

(* What SaveTxn does to m_curr gives a later id of the same session.       *)
LEMMA IncrementIsLater ==
    ASSUME NEW a \in TxnIds
    PROVE  Increment(a) \in TxnIds /\ Before(a, Increment(a)) /\ Increment(a)[1] = a[1]
  BY DEF TxnIds, Before, Increment

(* The ids of a table are bounded: a table is finite.                      *)
IsBounded(S) == \E n \in Nat : \A i \in S : i[1] <= n /\ i[2] <= n

(* The least-number principle, for a set of naturals.                      *)
LEMMA LeastNatural ==
    ASSUME NEW S \in SUBSET Nat, S # {}
    PROVE  \E m \in S : \A i \in S : m <= i
<1> DEFINE less == {pair \in Nat \X Nat : pair[1] < pair[2]}
<1>1. less = OpToRel(<, Nat)
  BY Zenon DEF OpToRel
<1>2. IsWellFoundedOn(less, Nat)
  BY <1>1, NatLessThanWellFounded
<1>3. \A i, m \in Nat : <<i, m>> \notin less => m <= i
  OBVIOUS
<1> HIDE DEF less
<1>4. \E m \in S : \A i \in S : <<i, m>> \notin less
  <2>1. S \subseteq Nat
    OBVIOUS
  <2> QED BY <1>2, <2>1, WFMin, Zenon
<1> QED BY <1>3, <1>4

(* A query for the first id of a nonempty set of rows has a result.        *)
LEMMA FirstExists ==
    ASSUME NEW S \in SUBSET TxnIds, S # {}
    PROVE  \E id \in S : IsFirst(id, S)
<1> DEFINE sessions == {i[1] : i \in S}
<1>1. sessions \in SUBSET Nat /\ sessions # {}
  BY DEF TxnIds
<1>2. PICK s \in sessions : \A t \in sessions : s <= t
  BY <1>1, LeastNatural
<1> DEFINE counters == {i[2] : i \in {j \in S : j[1] = s}}
<1>3. counters \in SUBSET Nat /\ counters # {}
  BY <1>2 DEF TxnIds
<1>4. PICK c \in counters : \A d \in counters : c <= d
  BY <1>3, LeastNatural
<1>5. PICK id \in S : id[1] = s /\ id[2] = c
  BY <1>4
<1>6. ASSUME NEW other \in S PROVE ~Before(other, id)
  <2>1. other[1] \in sessions /\ s <= other[1]
    BY <1>2
  <2>2. other[1] = s => c <= other[2]
    BY <1>4
  <2> QED BY <1>5, <2>1, <2>2 DEF TxnIds, Before
<1> QED BY <1>5, <1>6 DEF IsFirst

(* A set of naturals below a bound has a largest element.                  *)
LEMMA LargestNatural ==
    ASSUME NEW S \in SUBSET Nat, S # {}, NEW n \in Nat, \A i \in S : i <= n
    PROVE  \E m \in S : \A i \in S : i <= m
<1> DEFINE gaps == {n - i : i \in S}
<1>1. gaps \in SUBSET Nat /\ gaps # {}
  <2>1. ASSUME NEW i \in S PROVE n - i \in Nat
    <3>1. i \in Nat /\ i <= n
      OBVIOUS
    <3> QED BY <3>1
  <2> QED BY <2>1
<1>2. PICK g \in gaps : \A h \in gaps : g <= h
  BY <1>1, LeastNatural
<1>3. PICK m \in S : g = n - m
  BY <1>2
<1>4. ASSUME NEW i \in S PROVE i <= m
  BY <1>2, <1>3
<1> QED BY <1>4

(* A query for the last id of a nonempty set of rows has a result.         *)
LEMMA LastExists ==
    ASSUME NEW S \in SUBSET TxnIds, S # {}, IsBounded(S)
    PROVE  \E id \in S : IsLast(id, S)
<1>1. PICK n \in Nat : \A i \in S : i[1] <= n /\ i[2] <= n
  BY DEF IsBounded
<1> DEFINE sessions == {i[1] : i \in S}
<1>2. sessions \in SUBSET Nat /\ sessions # {} /\ \A t \in sessions : t <= n
  BY <1>1 DEF TxnIds
<1>3. PICK s \in sessions : \A t \in sessions : t <= s
  BY <1>2, LargestNatural
<1> DEFINE counters == {i[2] : i \in {j \in S : j[1] = s}}
<1>4. counters \in SUBSET Nat /\ counters # {} /\ \A t \in counters : t <= n
  BY <1>1, <1>3 DEF TxnIds
<1>5. PICK c \in counters : \A d \in counters : d <= c
  BY <1>4, LargestNatural
<1>6. PICK id \in S : id[1] = s /\ id[2] = c
  BY <1>5
<1>7. ASSUME NEW other \in S PROVE ~Before(id, other)
  <2>1. other[1] \in sessions /\ other[1] <= s
    BY <1>3
  <2>2. other[1] = s => other[2] <= c
    BY <1>5
  <2> QED BY <1>6, <2>1, <2>2 DEF TxnIds, Before
<1> QED BY <1>6, <1>7 DEF IsLast

-------------------------------------------------------------------------------
(***************************************************************************)
(* Changesets.                                                             *)
(***************************************************************************)
OldAndNew == [old : Values, new : Values]

(* A changeset is a function from some of the keys.                        *)
LEMMA ChangeIsFunction ==
    ASSUME NEW change
    PROVE  change \in Changes <=>
               DOMAIN change \subseteq Keys /\ change \in [DOMAIN change -> OldAndNew]
<1>1. change \in Changes => DOMAIN change \subseteq Keys /\ change \in [DOMAIN change -> OldAndNew]
  BY DEF Changes, OldAndNew
<1>2. ASSUME DOMAIN change \subseteq Keys, change \in [DOMAIN change -> OldAndNew]
      PROVE  change \in Changes
  <2>1. DOMAIN change \in SUBSET Keys
    BY <1>2
  <2> QED BY <1>2, <2>1 DEF Changes, OldAndNew
<1> QED BY <1>1, <1>2

(* What the session of ChangeTracker yields is a changeset.                *)
LEMMA DifferenceIsChange ==
    ASSUME NEW from \in States, NEW to \in States
    PROVE  Difference(from, to) \in Changes
<1>1. DOMAIN Difference(from, to) \subseteq Keys
  BY DEF Difference
<1>2. Difference(from, to) \in [DOMAIN Difference(from, to) -> OldAndNew]
  BY DEF Difference, States, OldAndNew
<1> QED BY <1>1, <1>2, ChangeIsFunction

(* So is an empty one.                                                     *)
LEMMA EmptyIsChange == EmptyMap \in Changes
<1>1. DOMAIN EmptyMap \subseteq Keys /\ EmptyMap \in [DOMAIN EmptyMap -> OldAndNew]
  BY DEF EmptyMap
<1> QED BY <1>1, ChangeIsFunction

(* And the inverse of a changeset, which undo applies.                     *)
LEMMA InvertIsChange ==
    ASSUME NEW change \in Changes
    PROVE  Invert(change) \in Changes
<1>1. DOMAIN change \subseteq Keys /\ change \in [DOMAIN change -> OldAndNew]
  BY ChangeIsFunction
<1>2. DOMAIN Invert(change) \subseteq Keys
  BY <1>1 DEF Invert
<1>3. Invert(change) \in [DOMAIN Invert(change) -> OldAndNew]
  BY <1>1 DEF Invert, OldAndNew
<1> QED BY <1>2, <1>3, ChangeIsFunction

(* Undo and redo lead from a state to a state.                             *)
LEMMA ApplySkippingIsState ==
    ASSUME NEW change \in Changes, NEW state \in States
    PROVE  ApplySkipping(change, state) \in States
<1>1. change \in [DOMAIN change -> OldAndNew]
  BY ChangeIsFunction
<1>2. ASSUME NEW k \in Keys PROVE ApplySkipping(change, state)[k] \in Values
  BY <1>1 DEF ApplySkipping, States, OldAndNew
<1> QED BY <1>2 DEF ApplySkipping, States

-------------------------------------------------------------------------------
(***************************************************************************)
(* Tables.                                                                 *)
(***************************************************************************)
IsFiniteTable(table) == IsTable(table) /\ IsBounded(DOMAIN table)

(* The table of a briefcase that has no Txns.                              *)
LEMMA EmptyIsTable == IsFiniteTable(EmptyMap)
  BY DEF IsFiniteTable, IsTable, IsBounded, EmptyMap

(* Deleting rows leaves a table.                                           *)
LEMMA KeepIsTable ==
    ASSUME NEW table, IsFiniteTable(table), NEW ids
    PROVE  /\ IsFiniteTable(Keep(table, ids))
           /\ DOMAIN Keep(table, ids) = DOMAIN table \cap ids
           /\ \A i \in DOMAIN Keep(table, ids) : Keep(table, ids)[i] = table[i]
<1>1. /\ DOMAIN Keep(table, ids) = DOMAIN table \cap ids
      /\ \A i \in DOMAIN Keep(table, ids) : Keep(table, ids)[i] = table[i]
      /\ Keep(table, ids) = [i \in DOMAIN Keep(table, ids) |-> Keep(table, ids)[i]]
  BY DEF Keep
<1>2. IsTable(Keep(table, ids))
  BY <1>1 DEF IsFiniteTable, IsTable
<1>3. IsBounded(DOMAIN Keep(table, ids))
  BY <1>1 DEF IsFiniteTable, IsBounded
<1> QED BY <1>1, <1>2, <1>3 DEF IsFiniteTable

(* DeleteReversedTxns leaves a table.                                      *)
LEMMA WithoutReversedIsTable ==
    ASSUME NEW table, IsFiniteTable(table)
    PROVE  IsFiniteTable(WithoutReversed(table))
  BY KeepIsTable DEF WithoutReversed

(* Deleting the Txns of a pushed changeset leaves a table.                 *)
LEMMA FromIsTable ==
    ASSUME NEW table, IsFiniteTable(table), NEW id
    PROVE  IsFiniteTable(From(table, id))
  BY KeepIsTable DEF From

(* Inserting a row, or replacing one, leaves a table.                      *)
LEMMA InsertIsTable ==
    ASSUME NEW table, IsFiniteTable(table), NEW id \in TxnIds, NEW row \in Rows
    PROVE  IsFiniteTable(Insert(table, id, row))
<1> DEFINE new == Insert(table, id, row)
<1>1. /\ DOMAIN new = DOMAIN table \cup {id}
      /\ \A i \in DOMAIN new : new[i] = IF i = id THEN row ELSE table[i]
      /\ new = [i \in DOMAIN new |-> new[i]]
  BY DEF Insert
<1> HIDE DEF new
<1>2. IsTable(new)
  BY <1>1 DEF IsFiniteTable, IsTable
<1>3. PICK n \in Nat : \A i \in DOMAIN table : i[1] <= n /\ i[2] <= n
  BY DEF IsFiniteTable, IsBounded
<1>4. \A i \in DOMAIN table : i[1] \in Nat /\ i[2] \in Nat
  BY DEF IsFiniteTable, IsTable, TxnIds
<1>5. id[1] \in Nat /\ id[2] \in Nat
  BY DEF TxnIds
<1>6. n + id[1] + id[2] \in Nat
  BY <1>5
<1>7. \A i \in DOMAIN new : i[1] <= n + id[1] + id[2] /\ i[2] <= n + id[1] + id[2]
  BY <1>1, <1>3, <1>4, <1>5
<1>8. IsBounded(DOMAIN new)
  BY <1>6, <1>7 DEF IsBounded
<1> QED BY <1>2, <1>8 DEF IsFiniteTable, new

(* Marking a row reversed or live leaves a table with the same rows.       *)
LEMMA SetDeletedIsTable ==
    ASSUME NEW table, IsFiniteTable(table), NEW id \in DOMAIN table, NEW flag \in BOOLEAN
    PROVE  /\ IsFiniteTable(SetDeleted(table, id, flag))
           /\ DOMAIN SetDeleted(table, id, flag) = DOMAIN table
           /\ \A i \in DOMAIN table :
                 /\ i # id => SetDeleted(table, id, flag)[i] = table[i]
                 /\ SetDeleted(table, id, flag)[i].type = table[i].type
                 /\ SetDeleted(table, id, flag)[i].change = table[i].change
           /\ SetDeleted(table, id, flag)[id].deleted = flag
<1> DEFINE new == SetDeleted(table, id, flag)
<1>1. table = [i \in DOMAIN table |-> table[i]] /\ \A i \in DOMAIN table : table[i] \in Rows
  BY DEF IsFiniteTable, IsTable
<1>2. /\ DOMAIN new = DOMAIN table
      /\ \A i \in DOMAIN table : i # id => new[i] = table[i]
      /\ new[id] = [table[id] EXCEPT !.deleted = flag]
      /\ new = [i \in DOMAIN new |-> new[i]]
  BY <1>1 DEF SetDeleted
<1>3. /\ new[id] \in Rows /\ new[id].deleted = flag
      /\ new[id].type = table[id].type /\ new[id].change = table[id].change
  BY <1>1, <1>2 DEF Rows
<1> HIDE DEF new
<1>4. IsTable(new)
  BY <1>2, <1>3, <1>1 DEF IsFiniteTable, IsTable
<1>5. IsBounded(DOMAIN new)
  BY <1>2 DEF IsFiniteTable
<1> QED BY <1>2, <1>3, <1>4, <1>5 DEF IsFiniteTable, new

(* A part of the ids of a table is bounded as well.                        *)
LEMMA PartIsBounded ==
    ASSUME NEW table, IsFiniteTable(table), NEW S \in SUBSET DOMAIN table
    PROVE  S \in SUBSET TxnIds /\ IsBounded(S)
  BY DEF IsFiniteTable, IsTable, IsBounded

(* What StartCreateChangeset packages is a changeset.                      *)
LEMMA GroupedChangeIsChange ==
    ASSUME NEW table, IsFiniteTable(table), NEW id
    PROVE  GroupedChange(table, id) \in Changes
<1> DEFINE touching(k) == {i \in Writers(table, k) : Before(i, id)}
           first(k) == CHOOSE i \in touching(k) : IsFirst(i, touching(k))
           last(k) == CHOOSE i \in touching(k) : IsLast(i, touching(k))
           grouped == GroupedChange(table, id)
<1>1. ASSUME NEW k \in Keys, touching(k) # {}
      PROVE  /\ table[first(k)].change[k].old \in Values
             /\ table[last(k)].change[k].new \in Values
  <2>1. touching(k) \in SUBSET DOMAIN table
    BY DEF Writers
  <2>2. touching(k) \in SUBSET TxnIds /\ IsBounded(touching(k))
    BY <2>1, PartIsBounded
  <2>3. first(k) \in touching(k)
    <3>1. \E i \in touching(k) : IsFirst(i, touching(k))
      BY <1>1, <2>2, FirstExists
    <3> QED BY <3>1
  <2>4. last(k) \in touching(k)
    <3>1. \E i \in touching(k) : IsLast(i, touching(k))
      BY <1>1, <2>2, LastExists
    <3> QED BY <3>1
  <2>5. ASSUME NEW i \in touching(k)
        PROVE  table[i].change[k].old \in Values /\ table[i].change[k].new \in Values
    <3>1. i \in DOMAIN table /\ k \in DOMAIN table[i].change
      BY DEF Writers
    <3>2. table[i].change \in Changes
      BY <3>1 DEF IsFiniteTable, IsTable, Rows
    <3>3. table[i].change \in [DOMAIN table[i].change -> OldAndNew]
      BY <3>2, ChangeIsFunction
    <3> QED BY <3>1, <3>3 DEF OldAndNew
  <2> HIDE DEF touching, first, last
  <2> QED BY <2>3, <2>4, <2>5
<1>2. /\ DOMAIN grouped \subseteq Keys
      /\ grouped = [k \in DOMAIN grouped |-> grouped[k]]
      /\ \A k \in DOMAIN grouped :
            /\ touching(k) # {}
            /\ grouped[k] = [old |-> table[first(k)].change[k].old,
                             new |-> table[last(k)].change[k].new]
  BY Zenon DEF GroupedChange
<1> HIDE DEF touching, first, last, grouped
<1>3. \A k \in DOMAIN grouped : grouped[k] \in OldAndNew
  BY <1>1, <1>2 DEF OldAndNew
<1>4. grouped \in [DOMAIN grouped -> OldAndNew]
  BY <1>2, <1>3
<1> QED BY <1>2, <1>4, ChangeIsFunction DEF grouped
-------------------------------------------------------------------------------
(***************************************************************************)
(* What a table says about the database.                                   *)
(***************************************************************************)
WritersBefore(table, key, id) == {i \in Writers(table, key) : Before(i, id)}

(* Only one id is the last of a set.                                       *)
LEMMA LastIsUnique ==
    ASSUME NEW S \in SUBSET TxnIds, NEW a, NEW b, IsLast(a, S), IsLast(b, S)
    PROVE  a = b
<1>1. a \in TxnIds /\ b \in TxnIds /\ ~Before(a, b) /\ ~Before(b, a)
  BY DEF IsLast
<1> QED BY <1>1, BeforeIsTotal

(* The writers of a key are some of the rows of the table.                 *)
LEMMA WritersAreRows ==
    ASSUME NEW table, IsFiniteTable(table), NEW key, NEW id
    PROVE  /\ WritersBefore(table, key, id) \in SUBSET DOMAIN table
           /\ WritersBefore(table, key, id) \in SUBSET TxnIds
           /\ IsBounded(WritersBefore(table, key, id))
<1>1. WritersBefore(table, key, id) \in SUBSET DOMAIN table
  BY DEF WritersBefore, Writers
<1> QED BY <1>1, PartIsBounded

(* The last Txn before an id to write a key decides its value there.       *)
LEMMA LastWriterDecides ==
    ASSUME NEW table, IsFiniteTable(table), NEW base, NEW id, NEW key \in Keys,
           NEW i, IsLast(i, WritersBefore(table, key, id))
    PROVE  StateAt(table, base, id)[key] = table[i].change[key].new
<1> DEFINE writers == {j \in Writers(table, key) : Before(j, id)}
           last == CHOOSE j \in writers : IsLast(j, writers)
<1>1. writers \in SUBSET TxnIds /\ IsLast(i, writers)
  BY WritersAreRows DEF WritersBefore
<1>2. i \in writers
  BY <1>1 DEF IsLast
<1>3. last \in writers /\ IsLast(last, writers)
  BY <1>1, <1>2
<1>4. StateAt(table, base, id)[key]
          = IF writers = {} THEN base[key] ELSE table[last].change[key].new
  BY DEF StateAt, ValueFrom
<1> HIDE DEF writers, last
<1>5. last = i
  BY <1>1, <1>3, LastIsUnique
<1> QED BY <1>2, <1>4, <1>5

(* A key that no Txn before an id writes has the value it started with.    *)
LEMMA NoWriterNoChange ==
    ASSUME NEW table, NEW base, NEW id, NEW key \in Keys,
           WritersBefore(table, key, id) = {}
    PROVE  StateAt(table, base, id)[key] = base[key]
  BY DEF StateAt, ValueFrom, WritersBefore

(* Tables whose Txns before an id make the same changes lead to the same   *)
(* state there.                                                            *)
AgreeBefore(t, u, id) ==
    \A i \in TxnIds : Before(i, id) =>
        /\ i \in DOMAIN t <=> i \in DOMAIN u
        /\ i \in DOMAIN t => t[i].change = u[i].change

LEMMA AgreeingTablesLeadAlike ==
    ASSUME NEW t, NEW u, IsFiniteTable(t), IsFiniteTable(u), NEW id,
           AgreeBefore(t, u, id), NEW base
    PROVE  StateAt(t, base, id) = StateAt(u, base, id)
<1>1. ASSUME NEW k \in Keys
      PROVE  StateAt(t, base, id)[k] = StateAt(u, base, id)[k]
  <2> DEFINE writers == WritersBefore(t, k, id)
  <2>1. DOMAIN t \subseteq TxnIds /\ DOMAIN u \subseteq TxnIds
    BY DEF IsFiniteTable, IsTable
  <2>2. writers = WritersBefore(u, k, id)
    BY <2>1 DEF WritersBefore, Writers, AgreeBefore
  <2>3. CASE writers = {}
    <3>1. WritersBefore(t, k, id) = {} /\ WritersBefore(u, k, id) = {}
      BY <2>2, <2>3
    <3>2. StateAt(t, base, id)[k] = base[k]
      BY <3>1, NoWriterNoChange
    <3>3. StateAt(u, base, id)[k] = base[k]
      BY <3>1, NoWriterNoChange
    <3> QED BY <3>2, <3>3
  <2>4. CASE writers # {}
    <3>1. PICK last \in writers : IsLast(last, writers)
      BY <2>4, WritersAreRows, LastExists
    <3>2. last \in TxnIds /\ last \in DOMAIN t /\ Before(last, id)
      BY <2>1 DEF WritersBefore, Writers
    <3>3. t[last].change[k].new = u[last].change[k].new
      BY <3>2 DEF AgreeBefore
    <3> QED BY <2>2, <3>1, <3>3, LastWriterDecides
  <2> QED BY <2>3, <2>4
<1> QED BY <1>1 DEF StateAt

(* Ids that no row lies between.                                           *)
LEMMA NothingBetween ==
    ASSUME NEW table, NEW a, NEW b,
           \A i \in DOMAIN table : Before(i, a) <=> Before(i, b), NEW base
    PROVE  StateAt(table, base, a) = StateAt(table, base, b)
<1>1. ASSUME NEW k \in Keys
      PROVE  StateAt(table, base, a)[k] = StateAt(table, base, b)[k]
  <2>1. {i \in Writers(table, k) : Before(i, a)} = {i \in Writers(table, k) : Before(i, b)}
    BY DEF Writers
  <2> QED BY <2>1 DEF StateAt
<1> QED BY <1>1 DEF StateAt

(* Before its first Txn a briefcase holds the version it started from.     *)
LEMMA NothingBefore ==
    ASSUME NEW table, NEW id, \A i \in DOMAIN table : ~Before(i, id),
           NEW base \in States
    PROVE  StateAt(table, base, id) = base
<1>1. ASSUME NEW k \in Keys
      PROVE  StateAt(table, base, id)[k] = base[k]
  <2>1. WritersBefore(table, k, id) = {}
    BY DEF WritersBefore, Writers
  <2> QED BY <2>1, NoWriterNoChange
<1> QED BY <1>1 DEF StateAt, States

(* The state a Txn leads to, in terms of the one it starts from.           *)
LEMMA StateAfterTxn ==
    ASSUME NEW table, IsFiniteTable(table), NEW at \in TxnIds,
           NEW id, IsPrevious(table, at, id), NEW base, NEW k \in Keys
    PROVE  StateAt(table, base, at)[k] =
               IF k \in DOMAIN table[id].change THEN table[id].change[k].new
               ELSE StateAt(table, base, id)[k]
<1> DEFINE writers == WritersBefore(table, k, at)
<1>1. id \in DOMAIN table /\ id \in TxnIds /\ Before(id, at)
  BY DEF IsPrevious, IsLast, IdsBefore, IsFiniteTable, IsTable
<1>2. \A i \in DOMAIN table : Before(i, at) => ~Before(id, i)
  BY DEF IsPrevious, IsLast, IdsBefore
<1>3. CASE k \in DOMAIN table[id].change
  <2>1. IsLast(id, writers)
    BY <1>1, <1>2, <1>3 DEF IsLast, WritersBefore, Writers
  <2> QED BY <1>3, <2>1, LastWriterDecides
<1>4. CASE k \notin DOMAIN table[id].change
  <2>1. ASSUME NEW i \in DOMAIN table, i # id
        PROVE  Before(i, at) <=> Before(i, id)
    <3>1. i \in TxnIds
      BY DEF IsFiniteTable, IsTable
    <3>2. Before(i, id) => Before(i, at)
      BY <1>1, <3>1, BeforeIsTransitive
    <3>3. Before(i, at) => Before(i, id)
      BY <1>1, <1>2, <2>1, <3>1, BeforeIsTotal
    <3> QED BY <3>2, <3>3
  <2>2. ~Before(id, id)
    BY <1>1, BeforeIsTotal
  <2>3. {i \in Writers(table, k) : Before(i, at)} = {i \in Writers(table, k) : Before(i, id)}
    BY <1>4, <2>1, <2>2 DEF Writers
  <2> QED BY <1>4, <2>3 DEF StateAt
<1> QED BY <1>3, <1>4

(* A state the table leads to is a state.                                  *)
LEMMA StateAtIsState ==
    ASSUME NEW table, IsFiniteTable(table), NEW base \in States, NEW id
    PROVE  StateAt(table, base, id) \in States
<1>1. ASSUME NEW k \in Keys
      PROVE  StateAt(table, base, id)[k] \in Values
  <2> DEFINE writers == WritersBefore(table, k, id)
  <2>1. CASE writers = {}
    BY <2>1, NoWriterNoChange DEF States
  <2>2. CASE writers # {}
    <3>1. PICK last \in writers : IsLast(last, writers)
      BY <2>2, WritersAreRows, LastExists
    <3>2. last \in DOMAIN table /\ k \in DOMAIN table[last].change
      BY DEF WritersBefore, Writers
    <3>3. table[last].change \in Changes
      BY <3>2 DEF IsFiniteTable, IsTable, Rows
    <3>4. table[last].change[k].new \in Values
      BY <3>2, <3>3, ChangeIsFunction DEF OldAndNew
    <3> QED BY <3>1, <3>4, LastWriterDecides
  <2> QED BY <2>1, <2>2
<1> QED BY <1>1 DEF StateAt, States

(* An id past every row of a table, and past another id.                   *)
LEMMA PastExists ==
    ASSUME NEW table, IsFiniteTable(table), NEW id \in TxnIds
    PROVE  \E at \in TxnIds : Before(id, at) /\ \A i \in DOMAIN table : Before(i, at)
<1>1. PICK n \in Nat : \A i \in DOMAIN table : i[1] <= n /\ i[2] <= n
  BY DEF IsFiniteTable, IsBounded
<1> DEFINE at == <<n + id[1] + 1, 0>>
<1>2. at \in TxnIds /\ Before(id, at)
  BY DEF TxnIds, Before
<1>3. ASSUME NEW i \in DOMAIN table PROVE Before(i, at)
  <2>1. i \in TxnIds /\ i[1] <= n
    BY <1>1 DEF IsFiniteTable, IsTable
  <2> QED BY <2>1 DEF TxnIds, Before
<1> QED BY <1>2, <1>3

(* Replaying a table leads where it leads past its last row.               *)
LEMMA ReplayIsStateAt ==
    ASSUME NEW table, NEW at, \A i \in DOMAIN table : Before(i, at), NEW base
    PROVE  Replay(table, base) = StateAt(table, base, at)
<1>1. ASSUME NEW k \in Keys
      PROVE  Replay(table, base)[k] = StateAt(table, base, at)[k]
  <2>1. {i \in Writers(table, k) : Before(i, at)} = Writers(table, k)
    BY DEF Writers
  <2> QED BY <2>1 DEF Replay, StateAt
<1> QED BY <1>1 DEF Replay, StateAt

-------------------------------------------------------------------------------
(***************************************************************************)
(* Undo, redo and the packaging of Txns, when every Txn finds the values   *)
(* it expects.                                                             *)
(***************************************************************************)
Chained(table, base) ==
    \A id \in DOMAIN table : \A key \in DOMAIN table[id].change :
        table[id].change[key].old = StateAt(table, base, id)[key]

(* Undo leads back to the state the Txn started from.                      *)
LEMMA UndoingTxnIsExact ==
    ASSUME NEW table, IsFiniteTable(table), NEW base \in States, Chained(table, base),
           NEW at \in TxnIds, NEW id, IsPrevious(table, at, id)
    PROVE  ApplySkipping(Invert(table[id].change), StateAt(table, base, at))
               = StateAt(table, base, id)
<1> DEFINE change == table[id].change
           after == StateAt(table, base, at)
           before == StateAt(table, base, id)
<1>1. id \in DOMAIN table
  BY DEF IsPrevious, IsLast, IdsBefore
<1>2. ASSUME NEW k \in Keys
      PROVE  after[k] = IF k \in DOMAIN change THEN change[k].new ELSE before[k]
  BY StateAfterTxn
<1>3. \A k \in DOMAIN change : change[k].old = before[k]
  BY <1>1 DEF Chained
<1>4. before \in States /\ after \in States
  BY StateAtIsState
<1> HIDE DEF after, before, change
<1>5. /\ DOMAIN Invert(change) = DOMAIN change
      /\ \A k \in DOMAIN change : /\ Invert(change)[k].old = change[k].new
                                  /\ Invert(change)[k].new = change[k].old
  BY DEF Invert
<1>6. ASSUME NEW k \in Keys
      PROVE  ApplySkipping(Invert(change), after)[k] = before[k]
  BY <1>2, <1>3, <1>5 DEF ApplySkipping
<1>7. ApplySkipping(Invert(change), after) = before
  BY <1>4, <1>6 DEF ApplySkipping, States
<1> QED BY <1>7 DEF after, before, change

(* Redo leads to the state the Txn led to.                                 *)
LEMMA RedoingTxnIsExact ==
    ASSUME NEW table, IsFiniteTable(table), NEW base \in States, Chained(table, base),
           NEW at \in TxnIds, NEW id, IsPrevious(table, at, id)
    PROVE  ApplySkipping(table[id].change, StateAt(table, base, id))
               = StateAt(table, base, at)
<1> DEFINE change == table[id].change
           after == StateAt(table, base, at)
           before == StateAt(table, base, id)
<1>1. id \in DOMAIN table
  BY DEF IsPrevious, IsLast, IdsBefore
<1>2. ASSUME NEW k \in Keys
      PROVE  after[k] = IF k \in DOMAIN change THEN change[k].new ELSE before[k]
  BY StateAfterTxn
<1>3. \A k \in DOMAIN change : change[k].old = before[k]
  BY <1>1 DEF Chained
<1>4. before \in States /\ after \in States
  BY StateAtIsState
<1> HIDE DEF after, before, change
<1>5. ASSUME NEW k \in Keys
      PROVE  ApplySkipping(change, before)[k] = after[k]
  BY <1>2, <1>3 DEF ApplySkipping
<1>6. ApplySkipping(change, before) = after
  BY <1>4, <1>5 DEF ApplySkipping, States
<1> QED BY <1>6 DEF after, before, change

(* What is packaged is the difference the Txns make: the first value of a  *)
(* key is the one the briefcase started from.                              *)
LEMMA GroupedIsDifference ==
    ASSUME NEW table, IsFiniteTable(table), NEW base \in States, Chained(table, base),
           NEW id \in TxnIds
    PROVE  GroupedChange(table, id) = Difference(base, StateAt(table, base, id))
<1> DEFINE touching(k) == {i \in Writers(table, k) : Before(i, id)}
           first(k) == CHOOSE i \in touching(k) : IsFirst(i, touching(k))
           last(k) == CHOOSE i \in touching(k) : IsLast(i, touching(k))
           oldest(k) == table[first(k)].change[k].old
           newest(k) == table[last(k)].change[k].new
           reached == StateAt(table, base, id)
           touched == {key \in Keys : touching(key) # {} /\ oldest(key) # newest(key)}
           differs == {key \in Keys : base[key] # reached[key]}
<1>1. ASSUME NEW k \in Keys, touching(k) # {}
      PROVE  oldest(k) = base[k] /\ newest(k) = reached[k]
  <2>1. /\ touching(k) \in SUBSET TxnIds /\ touching(k) \in SUBSET DOMAIN table
        /\ IsBounded(touching(k))
    BY WritersAreRows DEF WritersBefore
  <2>2. last(k) \in touching(k) /\ IsLast(last(k), touching(k))
    <3>1. \E i \in touching(k) : IsLast(i, touching(k))
      BY <1>1, <2>1, LastExists
    <3> QED BY <3>1
  <2>3. newest(k) = reached[k]
    <3>1. IsLast(last(k), WritersBefore(table, k, id))
      BY <2>2 DEF WritersBefore
    <3> HIDE DEF last
    <3> QED BY <3>1, LastWriterDecides
  <2>4. first(k) \in touching(k) /\ IsFirst(first(k), touching(k))
    <3>1. \E i \in touching(k) : IsFirst(i, touching(k))
      BY <1>1, <2>1, FirstExists
    <3> QED BY <3>1
  <2>5. oldest(k) = base[k]
    <3> HIDE DEF first
    <3>1. /\ first(k) \in DOMAIN table /\ k \in DOMAIN table[first(k)].change
          /\ Before(first(k), id) /\ first(k) \in TxnIds
      BY <2>1, <2>4 DEF Writers
    <3>2. oldest(k) = StateAt(table, base, first(k))[k]
      BY <3>1 DEF Chained
    <3>3. WritersBefore(table, k, first(k)) = {}
      <4>1. ASSUME NEW i \in WritersBefore(table, k, first(k)) PROVE FALSE
        <5>1. i \in Writers(table, k) /\ Before(i, first(k)) /\ i \in TxnIds
          BY WritersAreRows DEF WritersBefore
        <5>2. Before(i, id)
          BY <3>1, <5>1, BeforeIsTransitive
        <5>3. i \in touching(k)
          BY <5>1, <5>2
        <5> QED BY <2>4, <5>1, <5>3 DEF IsFirst
      <4> QED BY <4>1
    <3> QED BY <3>2, <3>3, NoWriterNoChange
  <2> QED BY <2>3, <2>5
<1>2. ASSUME NEW k \in Keys, touching(k) = {} PROVE reached[k] = base[k]
  BY <1>2, NoWriterNoChange DEF WritersBefore
<1>3. GroupedChange(table, id) = [k \in touched |-> [old |-> oldest(k), new |-> newest(k)]]
  BY Zenon DEF GroupedChange
<1>4. Difference(base, reached) = [k \in differs |-> [old |-> base[k], new |-> reached[k]]]
  BY DEF Difference
<1> HIDE DEF touching, oldest, newest, reached, first, last
<1>5. touched = differs
  BY <1>1, <1>2
<1>6. \A k \in touched : oldest(k) = base[k] /\ newest(k) = reached[k]
  BY <1>1
<1> QED BY <1>3, <1>4, <1>5, <1>6 DEF reached

(* Applying a packaged changeset to the version it was made from.          *)
LEMMA DifferenceLeadsThere ==
    ASSUME NEW from \in States, NEW to \in States
    PROVE  [k \in Keys |-> IF k \in DOMAIN Difference(from, to)
                           THEN Difference(from, to)[k].new ELSE from[k]] = to
  BY DEF Difference, States

-------------------------------------------------------------------------------
(***************************************************************************)
(* Deleting and inserting rows.                                            *)
(***************************************************************************)

(* No live Txn follows a reversed one; the live Txns are those before at.  *)
LiveFirst(table) ==
    \A i, j \in DOMAIN table : Before(i, j) /\ ~table[j].deleted => ~table[i].deleted
CutAt(table, at) == \A i \in DOMAIN table : table[i].deleted <=> ~Before(i, at)

(* Every Txn is live, as after DeleteReversedTxns.                         *)
AllLive(table) == \A i \in DOMAIN table : ~table[i].deleted

(* Tables with a cut have their live Txns first.                           *)
LEMMA CutIsLiveFirst ==
    ASSUME NEW table, IsFiniteTable(table), NEW at \in TxnIds, CutAt(table, at)
    PROVE  LiveFirst(table)
<1>1. ASSUME NEW i \in DOMAIN table, NEW j \in DOMAIN table, Before(i, j), Before(j, at)
      PROVE  Before(i, at)
  <2>1. i \in TxnIds /\ j \in TxnIds
    BY DEF IsFiniteTable, IsTable
  <2> QED BY <1>1, <2>1, BeforeIsTransitive
<1> QED BY <1>1 DEF CutAt, LiveFirst

(* What DeleteReversedTxns leaves.                                         *)
LEMMA WithoutReversedRows ==
    ASSUME NEW table, IsFiniteTable(table)
    PROVE  /\ IsFiniteTable(WithoutReversed(table)) /\ AllLive(WithoutReversed(table))
           /\ DOMAIN WithoutReversed(table) = {i \in DOMAIN table : ~table[i].deleted}
           /\ \A i \in DOMAIN WithoutReversed(table) : WithoutReversed(table)[i] = table[i]
<1> DEFINE live == {i \in DOMAIN table : ~table[i].deleted}
<1>1. /\ DOMAIN Keep(table, live) = DOMAIN table \cap live
      /\ \A i \in DOMAIN Keep(table, live) : Keep(table, live)[i] = table[i]
      /\ IsFiniteTable(Keep(table, live))
  BY KeepIsTable
<1> QED BY <1>1 DEF WithoutReversed, AllLive

(* A table of live Txns is left alone.                                     *)
LEMMA NothingToDelete ==
    ASSUME NEW table, IsFiniteTable(table), AllLive(table)
    PROVE  WithoutReversed(table) = table
<1>1. table = [i \in DOMAIN table |-> table[i]]
  BY DEF IsFiniteTable, IsTable
<1>2. DOMAIN table \cap {i \in DOMAIN table : ~table[i].deleted} = DOMAIN table
  BY DEF AllLive
<1> QED BY <1>1, <1>2 DEF WithoutReversed, Keep

(* Deleting the reversed Txns changes no state that lies before them.      *)
LEMMA DeletingReversedAgrees ==
    ASSUME NEW table, IsFiniteTable(table), NEW at,
           \A i \in DOMAIN table : Before(i, at) => ~table[i].deleted
    PROVE  /\ AgreeBefore(table, WithoutReversed(table), at)
           /\ \A base : StateAt(WithoutReversed(table), base, at) = StateAt(table, base, at)
<1>1. AgreeBefore(table, WithoutReversed(table), at)
  BY WithoutReversedRows DEF AgreeBefore
<1>2. ASSUME NEW base
      PROVE  StateAt(WithoutReversed(table), base, at) = StateAt(table, base, at)
  BY <1>1, WithoutReversedRows, AgreeingTablesLeadAlike
<1> QED BY <1>1, <1>2

(* And the Txns that are left find what they expect.                       *)
LEMMA WithoutReversedIsChained ==
    ASSUME NEW table, IsFiniteTable(table), LiveFirst(table),
           NEW base, Chained(table, base)
    PROVE  Chained(WithoutReversed(table), base)
<1> DEFINE new == WithoutReversed(table)
<1>1. ASSUME NEW id \in DOMAIN new, NEW key \in DOMAIN new[id].change
      PROVE  new[id].change[key].old = StateAt(new, base, id)[key]
  <2>1. id \in DOMAIN table /\ ~table[id].deleted /\ new[id] = table[id]
    BY WithoutReversedRows
  <2>2. \A i \in DOMAIN table : Before(i, id) => ~table[i].deleted
    BY <2>1 DEF LiveFirst
  <2>3. StateAt(new, base, id) = StateAt(table, base, id)
    BY <2>2, DeletingReversedAgrees
  <2>4. table[id].change[key].old = StateAt(table, base, id)[key]
    BY <1>1, <2>1 DEF Chained
  <2> QED BY <2>1, <2>3, <2>4
<1> QED BY <1>1 DEF Chained

(* With a cut, the live Txns lead to the state there.                      *)
LEMMA ReplayIsStateAtCut ==
    ASSUME NEW table, IsFiniteTable(table), NEW at, CutAt(table, at), NEW base
    PROVE  Replay(WithoutReversed(table), base) = StateAt(table, base, at)
<1>1. \A i \in DOMAIN WithoutReversed(table) : Before(i, at)
  BY WithoutReversedRows DEF CutAt
<1>2. Replay(WithoutReversed(table), base) = StateAt(WithoutReversed(table), base, at)
  BY <1>1, ReplayIsStateAt
<1>3. StateAt(WithoutReversed(table), base, at) = StateAt(table, base, at)
  BY DeletingReversedAgrees DEF CutAt
<1> QED BY <1>2, <1>3

(* Marking a Txn reversed or live changes no state, nor what Txns expect.  *)
LEMMA MarkingKeepsChain ==
    ASSUME NEW table, IsFiniteTable(table), NEW id \in DOMAIN table, NEW flag \in BOOLEAN,
           NEW base, Chained(table, base)
    PROVE  /\ Chained(SetDeleted(table, id, flag), base)
           /\ \A at : StateAt(SetDeleted(table, id, flag), base, at) = StateAt(table, base, at)
<1> DEFINE new == SetDeleted(table, id, flag)
<1>1. /\ IsFiniteTable(new) /\ DOMAIN new = DOMAIN table
      /\ \A i \in DOMAIN table : new[i].change = table[i].change
  BY SetDeletedIsTable
<1> HIDE DEF new
<1>2. \A at : AgreeBefore(new, table, at)
  BY <1>1 DEF AgreeBefore
<1>3. ASSUME NEW at PROVE StateAt(new, base, at) = StateAt(table, base, at)
  BY <1>1, <1>2, AgreeingTablesLeadAlike
<1>4. Chained(new, base)
  BY <1>1, <1>3 DEF Chained
<1> QED BY <1>3, <1>4 DEF new

(* A Txn inserted after all others starts from the state they lead to.     *)
LEMMA InsertKeepsChain ==
    ASSUME NEW table, IsFiniteTable(table), NEW id \in TxnIds, NEW row \in Rows,
           \A i \in DOMAIN table : Before(i, id), NEW base, Chained(table, base),
           \A key \in DOMAIN row.change : row.change[key].old = Replay(table, base)[key]
    PROVE  Chained(Insert(table, id, row), base)
<1> DEFINE new == Insert(table, id, row)
<1>1. /\ DOMAIN new = DOMAIN table \cup {id} /\ new[id] = row
      /\ \A i \in DOMAIN table : i # id => new[i] = table[i]
      /\ IsFiniteTable(new)
  BY InsertIsTable DEF Insert
<1> HIDE DEF new
<1>2. \A i \in DOMAIN table : i # id
  BY BeforeIsTotal
<1>3. ASSUME NEW at \in TxnIds, ~Before(id, at)
      PROVE  StateAt(new, base, at) = StateAt(table, base, at)
  <2>1. AgreeBefore(new, table, at)
    BY <1>1, <1>2, <1>3 DEF AgreeBefore
  <2> QED BY <1>1, <2>1, AgreeingTablesLeadAlike
<1>4. \A i \in DOMAIN new : i \in TxnIds /\ ~Before(id, i)
  BY <1>1, BeforeIsTotal DEF IsFiniteTable, IsTable
<1>5. \A i \in DOMAIN new : StateAt(new, base, i) = StateAt(table, base, i)
  BY <1>3, <1>4
<1>6. Replay(table, base) = StateAt(table, base, id)
  BY ReplayIsStateAt
<1>7. Chained(new, base)
  BY <1>1, <1>2, <1>5, <1>6 DEF Chained
<1> QED BY <1>7 DEF new

(* And the state it leads to is its own.                                   *)
LEMMA InsertLeadsOn ==
    ASSUME NEW table, IsFiniteTable(table), NEW id \in TxnIds, NEW row \in Rows,
           \A i \in DOMAIN table : Before(i, id), NEW base, NEW key \in Keys
    PROVE  Replay(Insert(table, id, row), base)[key]
               = IF key \in DOMAIN row.change THEN row.change[key].new
                 ELSE Replay(table, base)[key]
<1> DEFINE new == Insert(table, id, row)
<1>1. /\ DOMAIN new = DOMAIN table \cup {id} /\ new[id] = row
      /\ \A i \in DOMAIN table : i # id => new[i] = table[i]
      /\ IsFiniteTable(new)
  BY InsertIsTable DEF Insert
<1> HIDE DEF new
<1>2. PICK at \in TxnIds : Before(id, at) /\ \A i \in DOMAIN new : Before(i, at)
  BY <1>1, PastExists
<1>3. Replay(new, base) = StateAt(new, base, at)
  BY <1>2, ReplayIsStateAt
<1>4. IsPrevious(new, at, id)
  BY <1>1, <1>2, BeforeIsTotal DEF IsPrevious, IsLast, IdsBefore, IsFiniteTable, IsTable
<1>5. StateAt(new, base, at)[key] = IF key \in DOMAIN row.change THEN row.change[key].new
                                    ELSE StateAt(new, base, id)[key]
  BY <1>1, <1>4, StateAfterTxn
<1>6. ~Before(id, id)
  BY BeforeIsTotal
<1>7. AgreeBefore(new, table, id)
  BY <1>1, <1>6 DEF AgreeBefore
<1>8. StateAt(new, base, id) = StateAt(table, base, id)
  BY <1>1, <1>7, AgreeingTablesLeadAlike
<1>9. Replay(table, base) = StateAt(table, base, id)
  BY ReplayIsStateAt
<1> QED BY <1>3, <1>5, <1>8, <1>9 DEF new

(* What deleting the Txns of a pushed changeset leaves.                    *)
LEMMA RowsFrom ==
    ASSUME NEW table, IsFiniteTable(table), NEW end
    PROVE  /\ IsFiniteTable(From(table, end))
           /\ DOMAIN From(table, end) = {i \in DOMAIN table : ~Before(i, end)}
           /\ \A i \in DOMAIN From(table, end) : From(table, end)[i] = table[i]
<1> DEFINE kept == {i \in DOMAIN table : ~Before(i, end)}
<1>1. /\ DOMAIN Keep(table, kept) = DOMAIN table \cap kept
      /\ \A i \in DOMAIN Keep(table, kept) : Keep(table, kept)[i] = table[i]
      /\ IsFiniteTable(Keep(table, kept))
  BY KeepIsTable
<1> QED BY <1>1 DEF From

(* The Txns that are left lead, from the version that was pushed, to where *)
(* they led before.                                                        *)
LEMMA DeletingPushedAgrees ==
    ASSUME NEW table, IsFiniteTable(table), NEW base \in States, NEW end \in TxnIds,
           NEW at \in TxnIds, ~Before(at, end)
    PROVE  StateAt(From(table, end), StateAt(table, base, end), at)
               = StateAt(table, base, at)
<1> DEFINE new == From(table, end)
           pushed == StateAt(table, base, end)
<1>1. /\ IsFiniteTable(new) /\ DOMAIN new = {i \in DOMAIN table : ~Before(i, end)}
      /\ \A i \in DOMAIN new : new[i] = table[i]
  BY RowsFrom
<1> HIDE DEF new
<1>2. \A i \in DOMAIN table : i \in TxnIds
  BY DEF IsFiniteTable, IsTable
<1>3. ASSUME NEW k \in Keys
      PROVE  StateAt(new, pushed, at)[k] = StateAt(table, base, at)[k]
  <2>1. CASE WritersBefore(new, k, at) = {}
    <3>1. StateAt(new, pushed, at)[k] = pushed[k]
      BY <2>1, NoWriterNoChange
    <3>2. ASSUME NEW i \in Writers(table, k) PROVE Before(i, at) <=> Before(i, end)
      <4>1. i \in DOMAIN table /\ i \in TxnIds /\ k \in DOMAIN table[i].change
        BY <1>2 DEF Writers
      <4>2. Before(i, at) => Before(i, end)
        BY <1>1, <2>1, <4>1 DEF WritersBefore, Writers
      <4>3. Before(i, end) => Before(i, at)
        BY <4>1 DEF TxnIds, Before
      <4> QED BY <4>2, <4>3
    <3>3. {i \in Writers(table, k) : Before(i, at)} = {i \in Writers(table, k) : Before(i, end)}
      BY <3>2
    <3>4. pushed[k] = StateAt(table, base, at)[k]
      BY <3>3 DEF StateAt
    <3> QED BY <3>1, <3>4
  <2>2. CASE WritersBefore(new, k, at) # {}
    <3>1. PICK last \in WritersBefore(new, k, at) : IsLast(last, WritersBefore(new, k, at))
      BY <1>1, <2>2, WritersAreRows, LastExists
    <3>2. /\ last \in DOMAIN new /\ last \in DOMAIN table /\ last \in TxnIds
          /\ ~Before(last, end) /\ new[last] = table[last] /\ Before(last, at)
          /\ k \in DOMAIN table[last].change
      BY <1>1, <1>2 DEF WritersBefore, Writers
    <3>3. ASSUME NEW i \in WritersBefore(table, k, at) PROVE ~Before(last, i)
      <4>1. /\ i \in DOMAIN table /\ i \in TxnIds /\ Before(i, at)
            /\ k \in DOMAIN table[i].change
        BY <1>2 DEF WritersBefore, Writers
      <4>2. CASE Before(i, end)
        BY <3>2, <4>1, <4>2 DEF TxnIds, Before
      <4>3. CASE ~Before(i, end)
        <5>1. i \in WritersBefore(new, k, at)
          BY <1>1, <4>1, <4>3 DEF WritersBefore, Writers
        <5> QED BY <3>1, <5>1 DEF IsLast
      <4> QED BY <4>2, <4>3
    <3>4. IsLast(last, WritersBefore(table, k, at))
      BY <3>2, <3>3 DEF IsLast, WritersBefore, Writers
    <3>5. StateAt(table, base, at)[k] = table[last].change[k].new
      BY <3>4, LastWriterDecides
    <3>6. StateAt(new, pushed, at)[k] = new[last].change[k].new
      BY <1>1, <3>1, LastWriterDecides
    <3> QED BY <3>2, <3>5, <3>6
  <2> QED BY <2>1, <2>2
<1>4. StateAt(new, pushed, at) = StateAt(table, base, at)
  BY <1>3 DEF StateAt
<1> QED BY <1>4 DEF new

(* And find what they expect.                                              *)
LEMMA FromIsChained ==
    ASSUME NEW table, IsFiniteTable(table), NEW base \in States, NEW end \in TxnIds,
           Chained(table, base)
    PROVE  Chained(From(table, end), StateAt(table, base, end))
<1> DEFINE new == From(table, end)
           pushed == StateAt(table, base, end)
<1>1. /\ DOMAIN new = {i \in DOMAIN table : ~Before(i, end)}
      /\ \A i \in DOMAIN new : new[i] = table[i]
  BY RowsFrom
<1>2. ASSUME NEW id \in DOMAIN new, NEW key \in DOMAIN new[id].change
      PROVE  new[id].change[key].old = StateAt(new, pushed, id)[key]
  <2>1. /\ id \in DOMAIN table /\ id \in TxnIds /\ ~Before(id, end)
        /\ new[id] = table[id] /\ key \in DOMAIN table[id].change
    BY <1>1, <1>2 DEF IsFiniteTable, IsTable
  <2>2. StateAt(new, pushed, id) = StateAt(table, base, id)
    BY <2>1, DeletingPushedAgrees
  <2>3. table[id].change[key].old = StateAt(table, base, id)[key]
    BY <2>1 DEF Chained
  <2> QED BY <2>1, <2>2, <2>3
<1> QED BY <1>2 DEF Chained

(* The live Txns that are left lead to where all of them led.              *)
LEMMA PushedReplays ==
    ASSUME NEW table, IsFiniteTable(table), NEW base \in States, NEW end \in TxnIds,
           \A i \in DOMAIN table : Before(i, end) => ~table[i].deleted
    PROVE  Replay(WithoutReversed(From(table, end)), StateAt(table, base, end))
               = Replay(WithoutReversed(table), base)
<1> DEFINE live == WithoutReversed(table)
           new == WithoutReversed(From(table, end))
           pushed == StateAt(table, base, end)
<1>1. /\ IsFiniteTable(live) /\ DOMAIN live = {i \in DOMAIN table : ~table[i].deleted}
      /\ \A i \in DOMAIN live : live[i] = table[i]
  BY WithoutReversedRows
<1>2. /\ IsFiniteTable(From(table, end))
      /\ DOMAIN From(table, end) = {i \in DOMAIN table : ~Before(i, end)}
      /\ \A i \in DOMAIN From(table, end) : From(table, end)[i] = table[i]
  BY RowsFrom
<1>3. /\ IsFiniteTable(new)
      /\ DOMAIN new = {i \in DOMAIN From(table, end) : ~From(table, end)[i].deleted}
      /\ \A i \in DOMAIN new : new[i] = From(table, end)[i]
  BY <1>2, WithoutReversedRows
<1>4. /\ IsFiniteTable(From(live, end))
      /\ DOMAIN From(live, end) = {i \in DOMAIN live : ~Before(i, end)}
      /\ \A i \in DOMAIN From(live, end) : From(live, end)[i] = live[i]
  BY <1>1, RowsFrom
<1>5. StateAt(live, base, end) = pushed
  BY DeletingReversedAgrees
<1> HIDE DEF live, new, pushed
<1>6. DOMAIN new = DOMAIN From(live, end) /\ \A i \in DOMAIN new : new[i] = From(live, end)[i]
  BY <1>1, <1>2, <1>3, <1>4
<1>7. PICK at \in TxnIds : Before(end, at) /\ \A i \in DOMAIN live : Before(i, at)
  BY <1>1, PastExists
<1>8. AgreeBefore(new, From(live, end), at)
  BY <1>6 DEF AgreeBefore
<1>9. Replay(new, pushed) = StateAt(new, pushed, at)
  <2>1. \A i \in DOMAIN new : Before(i, at)
    BY <1>4, <1>6, <1>7
  <2> QED BY <2>1, ReplayIsStateAt
<1>10. StateAt(new, pushed, at) = StateAt(From(live, end), pushed, at)
  BY <1>3, <1>4, <1>8, AgreeingTablesLeadAlike
<1>11. ~Before(at, end)
  BY <1>7, BeforeIsTotal
<1>12. StateAt(From(live, end), StateAt(live, base, end), at) = StateAt(live, base, at)
  BY <1>1, <1>11, DeletingPushedAgrees
<1>13. StateAt(live, base, at) = Replay(live, base)
  BY <1>7, ReplayIsStateAt
<1> QED BY <1>5, <1>9, <1>10, <1>12, <1>13 DEF live, new, pushed

(* Deleting pushed Txns leaves the live ones first.                        *)
LEMMA FromIsLiveFirst ==
    ASSUME NEW table, IsFiniteTable(table), NEW end, LiveFirst(table)
    PROVE  LiveFirst(From(table, end))
<1>1. /\ DOMAIN From(table, end) = {i \in DOMAIN table : ~Before(i, end)}
      /\ \A i \in DOMAIN From(table, end) : From(table, end)[i] = table[i]
  BY RowsFrom
<1> QED BY <1>1 DEF LiveFirst
===============================================================================
