--------------------------- MODULE QueryQueueProofs ---------------------------
(***************************************************************************)
(* Proofs about QueryQueue: its type invariant, that a request is in one   *)
(* place, is answered once and is taken in the order of priorities, that   *)
(* the queue is bounded, and that no wake-up is lost.                      *)
(***************************************************************************)
EXTENDS QueryQueue, SubsequenceProofs

-------------------------------------------------------------------------------
(***************************************************************************)
(* Sequences: what Without, InsertAt and Sorted return.                    *)
(***************************************************************************)

(* The requests of a queue, as q knows them, ascend by priority.           *)
Ascending(s, q) ==
    \A i, j \in DOMAIN s : i < j => q[s[i]].priority <= q[s[j]].priority

(* What holds of a queue holds of it without some requests.                *)
LEMMA WithoutProperties ==
    ASSUME NEW R, requests \in Seq(R), NEW rs
    PROVE  /\ Without(requests, rs) \in Seq(R) /\ Len(Without(requests, rs)) <= Len(requests)
           /\ ToSet(Without(requests, rs)) = Waiting \ rs
           /\ NoRepeats(requests) => NoRepeats(Without(requests, rs))
           /\ \A q : Ascending(requests, q) => Ascending(Without(requests, rs), q)
<1> DEFINE w == Without(requests, rs)
<1>1. w \in Seq(R) /\ \E f \in [1..Len(w) -> 1..Len(requests)] :
         /\ \A n \in 1..Len(w) : w[n] = requests[f[n]]
         /\ \A m, n \in 1..Len(w) : m < n => f[m] < f[n]
  BY WithoutKeepsOrder
<1> HIDE DEF w
<1>2. PICK f \in [1..Len(w) -> 1..Len(requests)] :
         /\ \A n \in 1..Len(w) : w[n] = requests[f[n]]
         /\ \A m, n \in 1..Len(w) : m < n => f[m] < f[n]
  BY <1>1
<1>3. /\ DOMAIN w = 1..Len(w) /\ DOMAIN requests = 1..Len(requests)
      /\ Len(w) \in Nat /\ Len(requests) \in Nat
      /\ \A n \in 1..Len(w) : f[n] \in 1..Len(requests)
  BY <1>1
<1>4. ASSUME NEW q, Ascending(requests, q) PROVE Ascending(w, q)
  <2> SUFFICES ASSUME NEW m \in 1..Len(w), NEW n \in 1..Len(w), m < n
               PROVE  q[w[m]].priority <= q[w[n]].priority
    BY <1>3 DEF Ascending
  <2>1. f[m] < f[n] /\ w[m] = requests[f[m]] /\ w[n] = requests[f[n]]
    BY <1>2
  <2> QED BY <1>3, <1>4, <2>1 DEF Ascending
<1> QED BY <1>4, WithoutElements DEF w, Waiting

(* InsertAt moves what follows by one.                                     *)
LEMMA InsertAtProperties ==
    ASSUME NEW R, NEW s \in Seq(R), NEW i \in 1..Len(s), NEW x \in R
    PROVE  /\ InsertAt(s, i, x) \in Seq(R) /\ Len(InsertAt(s, i, x)) = Len(s) + 1
           /\ \A n \in 1..Len(s) + 1 :
                 InsertAt(s, i, x)[n] = IF n < i THEN s[n] ELSE IF n = i THEN x ELSE s[n - 1]
<1> DEFINE a == SubSeq(s, 1, i - 1)
           b == SubSeq(s, i, Len(s))
<1>0. Len(s) \in Nat /\ i \in Nat /\ 1 <= i /\ i <= Len(s)
  OBVIOUS
<1>1. a \in Seq(R) /\ Len(a) = i - 1 /\ (\A n \in 1..i - 1 : a[n] = s[n])
  <2>1. CASE i = 1
    BY <2>1
  <2>2. CASE i # 1
    BY <2>2
  <2> QED BY <2>1, <2>2
<1>2. b \in Seq(R) /\ Len(b) = Len(s) - i + 1 /\ (\A n \in 1..Len(s) - i + 1 : b[n] = s[i + n - 1])
  OBVIOUS
<1> HIDE DEF a, b
<1> DEFINE c == a \o <<x>>
<1>3. c \in Seq(R) /\ Len(c) = i /\ (\A n \in 1..i - 1 : c[n] = s[n]) /\ c[i] = x
  BY <1>0, <1>1
<1>4. InsertAt(s, i, x) = c \o b
  BY DEF InsertAt, a, b
<1> HIDE DEF c
<1>5. c \o b \in Seq(R) /\ Len(c \o b) = Len(s) + 1
  <2>1. c \o b \in Seq(R) /\ Len(c \o b) = Len(c) + Len(b)
    BY <1>2, <1>3, ConcatProperties
  <2> QED BY <1>0, <1>2, <1>3, <2>1
<1>6. ASSUME NEW n \in 1..Len(s) + 1
      PROVE  (c \o b)[n] = IF n < i THEN s[n] ELSE IF n = i THEN x ELSE s[n - 1]
  <2>1. CASE n <= i
    <3>1. (c \o b)[n] = c[n]
      BY <1>0, <1>2, <1>3, <2>1
    <3> QED BY <1>0, <1>3, <2>1, <3>1
  <2>2. CASE ~(n <= i)
    <3>1. (c \o b)[n] = b[n - i] /\ n - i \in 1..Len(s) - i + 1
      BY <1>0, <1>2, <1>3, <2>2
    <3>2. b[n - i] = s[i + (n - i) - 1] /\ i + (n - i) - 1 = n - 1
      BY <1>0, <1>2, <3>1
    <3> QED BY <1>0, <2>2, <3>1, <3>2
  <2> QED BY <1>0, <2>1, <2>2
<1> QED BY <1>4, <1>5, <1>6

(* A queue with one more request somewhere.                                *)
IsInserted(t, s, i, x) ==
    /\ i \in 1..Len(s) + 1 /\ Len(t) = Len(s) + 1
    /\ \A n \in 1..Len(s) + 1 :
          t[n] = IF n < i THEN s[n] ELSE IF n = i THEN x ELSE s[n - 1]

LEMMA InsertAtInserts ==
    ASSUME NEW R, NEW s \in Seq(R), NEW i \in 1..Len(s), NEW x \in R
    PROVE  InsertAt(s, i, x) \in Seq(R) /\ IsInserted(InsertAt(s, i, x), s, i, x)
BY InsertAtProperties DEF IsInserted

LEMMA AppendInserts ==
    ASSUME NEW R, NEW s \in Seq(R), NEW x \in R
    PROVE  Append(s, x) \in Seq(R) /\ IsInserted(Append(s, x), s, Len(s) + 1, x)
BY DEF IsInserted

(* Only the new request is added, and none is doubled.                     *)
LEMMA InsertedProperties ==
    ASSUME NEW R, NEW s \in Seq(R), NEW t \in Seq(R), NEW i, NEW x \in R,
           IsInserted(t, s, i, x)
    PROVE  /\ ToSet(t) = ToSet(s) \cup {x}
           /\ NoRepeats(s) /\ x \notin ToSet(s) => NoRepeats(t)
<1>1. /\ DOMAIN t = 1..Len(s) + 1 /\ DOMAIN s = 1..Len(s) /\ Len(s) \in Nat
      /\ i \in 1..Len(s) + 1
      /\ \A n \in 1..Len(s) + 1 :
            t[n] = IF n < i THEN s[n] ELSE IF n = i THEN x ELSE s[n - 1]
  BY DEF IsInserted
<1>2. ToSet(t) = ToSet(s) \cup {x}
  <2>1. \A y \in ToSet(t) : y \in ToSet(s) \cup {x}
    <3> SUFFICES ASSUME NEW n \in 1..Len(s) + 1 PROVE t[n] \in ToSet(s) \cup {x}
      BY <1>1 DEF ToSet
    <3>1. CASE n < i
      <4>1. n \in 1..Len(s) /\ t[n] = s[n]
        BY <1>1, <3>1
      <4> QED BY <1>1, <4>1 DEF ToSet
    <3>2. CASE n = i
      BY <1>1, <3>2
    <3>3. CASE n > i
      <4>1. n - 1 \in 1..Len(s) /\ t[n] = s[n - 1]
        BY <1>1, <3>3
      <4> QED BY <1>1, <4>1 DEF ToSet
    <3> QED BY <1>1, <3>1, <3>2, <3>3
  <2>2. x \in ToSet(t)
    <3>1. t[i] = x
      BY <1>1
    <3> QED BY <1>1, <3>1 DEF ToSet
  <2>3. \A y \in ToSet(s) : y \in ToSet(t)
    <3> SUFFICES ASSUME NEW n \in 1..Len(s) PROVE s[n] \in ToSet(t)
      BY <1>1 DEF ToSet
    <3>1. CASE n < i
      <4>1. n \in 1..Len(s) + 1 /\ t[n] = s[n]
        BY <1>1, <3>1
      <4> QED BY <1>1, <4>1 DEF ToSet
    <3>2. CASE ~(n < i)
      <4>1. n + 1 \in 1..Len(s) + 1 /\ t[n + 1] = s[n]
        BY <1>1, <3>2
      <4> QED BY <1>1, <4>1 DEF ToSet
    <3> QED BY <3>1, <3>2
  <2> QED BY <2>1, <2>2, <2>3
<1>3. ASSUME NoRepeats(s), x \notin ToSet(s) PROVE NoRepeats(t)
  <2> SUFFICES ASSUME NEW m \in 1..Len(s) + 1, NEW n \in 1..Len(s) + 1, t[m] = t[n], m < n
               PROVE  FALSE
    BY <1>1 DEF NoRepeats
  <2>0. \A k \in 1..Len(s) : s[k] # x
    BY <1>1, <1>3 DEF ToSet
  <2>s. \A k, l \in 1..Len(s) : s[k] = s[l] => k = l
    BY <1>1, <1>3 DEF NoRepeats
  <2>1. CASE n < i
    BY <1>1, <2>1, <2>s
  <2>2. CASE n = i
    BY <1>1, <2>2, <2>0
  <2>3. CASE n > i /\ m = i
    BY <1>1, <2>3, <2>0
  <2>4. CASE n > i /\ m < i
    <3>1. PICK k, l \in 1..Len(s) : k # l /\ t[m] = s[k] /\ t[n] = s[l]
      <4>1. t[m] = s[m] /\ t[n] = s[n - 1] /\ m \in 1..Len(s) /\ n - 1 \in 1..Len(s)
            /\ m # n - 1
        BY <1>1, <2>4
      <4> QED BY <4>1
    <3> QED BY <2>s, <3>1
  <2>5. CASE m > i
    <3>1. PICK k, l \in 1..Len(s) : k # l /\ t[m] = s[k] /\ t[n] = s[l]
      <4>1. t[m] = s[m - 1] /\ t[n] = s[n - 1] /\ m - 1 \in 1..Len(s) /\ n - 1 \in 1..Len(s)
            /\ m - 1 # n - 1
        BY <1>1, <2>5
      <4> QED BY <4>1
    <3> QED BY <2>s, <3>1
  <2> QED BY <1>1, <2>1, <2>2, <2>3, <2>4, <2>5
<1> QED BY <1>2, <1>3

(* A queue stays in order with a request between those of lower or equal   *)
(* priority and those of higher or equal priority.                         *)
LEMMA InsertedAscending ==
    ASSUME NEW R, NEW s \in Seq(R), NEW t \in Seq(R), NEW i, NEW x \in R,
           IsInserted(t, s, i, x), NEW q, \A r \in R : q[r].priority \in Nat,
           Ascending(s, q),
           \A n \in 1..Len(s) : n < i => q[s[n]].priority <= q[x].priority,
           \A n \in 1..Len(s) : i <= n => q[x].priority <= q[s[n]].priority
    PROVE  Ascending(t, q)
<1> DEFINE p(r) == q[r].priority
<1>1. /\ DOMAIN t = 1..Len(s) + 1 /\ DOMAIN s = 1..Len(s) /\ Len(s) \in Nat
      /\ i \in 1..Len(s) + 1
      /\ \A n \in 1..Len(s) + 1 :
            t[n] = IF n < i THEN s[n] ELSE IF n = i THEN x ELSE s[n - 1]
      /\ \A n \in 1..Len(s) : s[n] \in R
  BY DEF IsInserted
<1>2. /\ \A m, n \in 1..Len(s) : m < n => p(s[m]) <= p(s[n])
      /\ \A n \in 1..Len(s) : p(s[n]) \in Nat
      /\ p(x) \in Nat
      /\ \A n \in 1..Len(s) : n < i => p(s[n]) <= p(x)
      /\ \A n \in 1..Len(s) : i <= n => p(x) <= p(s[n])
  BY <1>1 DEF Ascending
<1> SUFFICES ASSUME NEW m \in 1..Len(s) + 1, NEW n \in 1..Len(s) + 1, m < n
             PROVE  p(t[m]) <= p(t[n])
  BY <1>1 DEF Ascending
<1> HIDE DEF p
<1>3. CASE n < i
  <2>1. t[m] = s[m] /\ t[n] = s[n] /\ m \in 1..Len(s) /\ n \in 1..Len(s)
    BY <1>1, <1>3
  <2> QED BY <1>2, <2>1
<1>4. CASE n = i
  <2>1. t[m] = s[m] /\ t[n] = x /\ m \in 1..Len(s) /\ m < i
    BY <1>1, <1>4
  <2> QED BY <1>2, <2>1
<1>5. CASE n > i /\ m = i
  <2>1. t[m] = x /\ t[n] = s[n - 1] /\ n - 1 \in 1..Len(s) /\ i <= n - 1
    BY <1>1, <1>5
  <2> QED BY <1>2, <2>1
<1>6. CASE n > i /\ m < i
  <2>1. t[m] = s[m] /\ t[n] = s[n - 1] /\ m \in 1..Len(s) /\ n - 1 \in 1..Len(s)
        /\ m < n - 1
    BY <1>1, <1>6
  <2> QED BY <1>2, <2>1
<1>7. CASE m > i
  <2>1. PICK k, l \in 1..Len(s) : k < l /\ t[m] = s[k] /\ t[n] = s[l]
    <3>1. m - 1 \in 1..Len(s) /\ n - 1 \in 1..Len(s) /\ m - 1 < n - 1
      <4>1. Len(s) \in Nat /\ i \in 1..Len(s) + 1
        BY <1>1
      <4> QED BY <1>7, <4>1
    <3>2. t[m] = s[m - 1] /\ t[n] = s[n - 1]
      BY <1>1, <1>7
    <3> QED BY <3>1, <3>2
  <2> QED BY <1>2, <2>1
<1> QED BY <1>1, <1>3, <1>4, <1>5, <1>6, <1>7

(* All but the last of a queue.                                            *)
LEMMA FrontProperties ==
    ASSUME NEW R, NEW s \in Seq(R), s # <<>>
    PROVE  /\ Front(s) \in Seq(R) /\ Len(Front(s)) = Len(s) - 1 /\ Last(s) \in R
           /\ ToSet(s) = ToSet(Front(s)) \cup {Last(s)}
           /\ NoRepeats(s) => NoRepeats(Front(s)) /\ Last(s) \notin ToSet(Front(s))
           /\ \A q : Ascending(s, q) => Ascending(Front(s), q)
<1> DEFINE f == Front(s)
<1>1. Len(s) \in Nat /\ Len(s) >= 1 /\ DOMAIN s = 1..Len(s) /\ (\A n \in 1..Len(s) : s[n] \in R)
  BY EmptySeq
<1>2. f \in Seq(R) /\ Len(f) = Len(s) - 1 /\ DOMAIN f = 1..Len(s) - 1
      /\ (\A n \in 1..Len(s) - 1 : f[n] = s[n])
  <2>1. CASE Len(s) = 1
    BY <1>1, <2>1 DEF Front
  <2>2. CASE Len(s) # 1
    BY <1>1, <2>2 DEF Front
  <2> QED BY <2>1, <2>2
<1>3. Last(s) = s[Len(s)] /\ Last(s) \in R
  BY <1>1 DEF Last
<1> HIDE DEF f
<1>4. ToSet(s) = ToSet(f) \cup {Last(s)}
  <2>1. \A y : y \in ToSet(s) <=> \E n \in 1..Len(s) : y = s[n]
    BY <1>1 DEF ToSet
  <2>2. \A y : y \in ToSet(f) <=> \E n \in 1..Len(s) - 1 : y = s[n]
    BY <1>2 DEF ToSet
  <2>3. \A n \in 1..Len(s) : n \in 1..Len(s) - 1 \/ n = Len(s)
    <3>1. Len(s) \in Nat
      BY <1>1
    <3> QED BY <3>1
  <2>4. Len(s) \in 1..Len(s) /\ \A n \in 1..Len(s) - 1 : n \in 1..Len(s)
    <3>1. Len(s) \in Nat /\ Len(s) >= 1
      BY <1>1
    <3> QED BY <3>1
  <2>5. \A y : y \in ToSet(s) <=> y \in ToSet(f) \/ y = s[Len(s)]
    BY <2>1, <2>2, <2>3, <2>4, Zenon
  <2> QED BY <1>3, <2>5
<1>5. ASSUME NoRepeats(s) PROVE NoRepeats(f) /\ Last(s) \notin ToSet(f)
  <2>1. NoRepeats(f)
    BY <1>1, <1>2, <1>5 DEF NoRepeats
  <2>2. ASSUME NEW n \in 1..Len(s) - 1 PROVE f[n] # Last(s)
    <3>1. n \in 1..Len(s) /\ Len(s) \in 1..Len(s) /\ n # Len(s)
      <4>1. Len(s) \in Nat /\ Len(s) >= 1
        BY <1>1
      <4> QED BY <4>1
    <3> QED BY <1>1, <1>2, <1>3, <1>5, <3>1 DEF NoRepeats
  <2> QED BY <1>2, <2>1, <2>2 DEF ToSet
<1>6. ASSUME NEW q, Ascending(s, q) PROVE Ascending(f, q)
  BY <1>1, <1>2, <1>6 DEF Ascending
<1> QED BY <1>2, <1>3, <1>4, <1>5, <1>6 DEF f

(* What SelectInSeq takes of the indices that satisfy its condition.       *)
LEMMA LeastIndex ==
    ASSUME NEW n \in Nat, NEW I \in SUBSET (1..n), NEW i, i = IF I # {} THEN Min(I) ELSE 0
    PROVE  \/ i = 0 /\ I = {}
           \/ i \in I /\ \A m \in I : i <= m
<1>1. CASE I # {}
  <2>1. \E m \in I : \A k \in I : m <= k
    <3>1. I \in SUBSET Nat
      OBVIOUS
    <3> QED BY <1>1, <3>1, LeastNatural
  <2>2. Min(I) \in I /\ \A k \in I : Min(I) <= k
    BY <2>1, Zenon DEF Min
  <2> QED BY <1>1, <2>2
<1> QED BY <1>1

(* Sorted inserts the new request, and keeps the order of priorities.      *)
LEMMA SortedProperties ==
    ASSUME NEW r \in Requests, NEW s \in Seq(Requests)
    PROVE  /\ Sorted(r, s) \in Seq(Requests) /\ Len(Sorted(r, s)) = Len(s) + 1
           /\ ToSet(Sorted(r, s)) = ToSet(s) \cup {r}
           /\ NoRepeats(s) /\ r \notin ToSet(s) => NoRepeats(Sorted(r, s))
           /\ (\A q \in Requests : req[q].priority \in Nat) /\ Ascending(s, req)
                 => Ascending(Sorted(r, s), req)
<1> DEFINE I == {n \in 1..Len(s) : req[s[n]].priority > req[r].priority}
           h == IF I # {} THEN Min(I) ELSE 0
           t == Sorted(r, s)
<1>1. t = IF h = 0 THEN Append(s, r) ELSE InsertAt(s, h, r)
  BY Zenon DEF Sorted, SelectInSeq
<1>2. Len(s) \in Nat /\ I \in SUBSET (1..Len(s)) /\ (\A n \in 1..Len(s) : s[n] \in Requests)
  OBVIOUS
<1>3. \A n \in 1..Len(s) : n \in I <=> req[s[n]].priority > req[r].priority
  OBVIOUS
<1> HIDE DEF I, t
<1>4. \/ h = 0 /\ I = {}
      \/ h \in I /\ \A m \in I : h <= m
  BY <1>2, LeastIndex
<1> HIDE DEF h
<1>5. CASE h = 0 /\ I = {}
  <2>1. t \in Seq(Requests) /\ IsInserted(t, s, Len(s) + 1, r)
    BY <1>1, <1>5, AppendInserts
  <2>2. ASSUME \A q \in Requests : req[q].priority \in Nat, Ascending(s, req)
        PROVE  Ascending(t, req)
    <3>1. \A n \in 1..Len(s) : n < Len(s) + 1 => req[s[n]].priority <= req[r].priority
      BY <1>2, <1>3, <1>5, <2>2
    <3>2. \A n \in 1..Len(s) : Len(s) + 1 <= n => req[r].priority <= req[s[n]].priority
      BY <1>2
    <3> QED BY <2>1, <2>2, <3>1, <3>2, InsertedAscending
  <2>3. Len(t) = Len(s) + 1
    BY <2>1 DEF IsInserted
  <2> QED BY <2>1, <2>2, <2>3, InsertedProperties DEF t
<1>6. CASE h \in I /\ \A m \in I : h <= m
  <2>0. h \in 1..Len(s) /\ h # 0 /\ req[s[h]].priority > req[r].priority
    BY <1>2, <1>3, <1>6
  <2>1. t \in Seq(Requests) /\ IsInserted(t, s, h, r)
    BY <1>1, <2>0, InsertAtInserts
  <2>2. ASSUME \A q \in Requests : req[q].priority \in Nat, Ascending(s, req)
        PROVE  Ascending(t, req)
    <3>1. \A n \in 1..Len(s) : n < h => req[s[n]].priority <= req[r].priority
      <4> SUFFICES ASSUME NEW n \in 1..Len(s), n < h
                   PROVE  req[s[n]].priority <= req[r].priority
        OBVIOUS
      <4>1. n \notin I
        BY <1>6, <2>0
      <4> QED BY <1>2, <1>3, <2>2, <4>1
    <3>2. \A n \in 1..Len(s) : h <= n => req[r].priority <= req[s[n]].priority
      <4> SUFFICES ASSUME NEW n \in 1..Len(s), h <= n
                   PROVE  req[r].priority <= req[s[n]].priority
        OBVIOUS
      <4>1. req[s[h]].priority <= req[s[n]].priority
        <5>1. CASE h = n
          BY <1>2, <2>2, <5>1
        <5>2. CASE h < n
          BY <1>2, <2>0, <2>2, <5>2 DEF Ascending
        <5> QED BY <2>0, <5>1, <5>2
      <4>2. req[r].priority \in Nat /\ req[s[h]].priority \in Nat /\ req[s[n]].priority \in Nat
        BY <1>2, <2>0, <2>2
      <4> QED BY <2>0, <4>1, <4>2
    <3> QED BY <2>1, <2>2, <3>1, <3>2, InsertedAscending
  <2>3. Len(t) = Len(s) + 1
    BY <2>1 DEF IsInserted
  <2> QED BY <2>1, <2>2, <2>3, InsertedProperties DEF t
<1> QED BY <1>4, <1>5, <1>6

(* PutBack inserts a request again.                                        *)
LEMMA PutBackProperties ==
    ASSUME NEW r \in Requests, NEW s \in Seq(Requests)
    PROVE  /\ PutBack(r, s) \in Seq(Requests) /\ Len(PutBack(r, s)) = Len(s) + 1
           /\ ToSet(PutBack(r, s)) = ToSet(s) \cup {r}
           /\ NoRepeats(s) /\ r \notin ToSet(s) => NoRepeats(PutBack(r, s))
<1> DEFINE t == PutBack(r, s)
<1>1. PICK i : t \in Seq(Requests) /\ IsInserted(t, s, i, r)
  <2>1. CASE Len(s) > 1
    <3>1. t = InsertAt(s, Len(s), r) /\ Len(s) \in 1..Len(s)
      BY <2>1 DEF PutBack
    <3> HIDE DEF t
    <3> QED BY <3>1, InsertAtInserts
  <2>2. CASE ~(Len(s) > 1)
    <3>1. t = Append(s, r)
      BY <2>2 DEF PutBack
    <3> HIDE DEF t
    <3> QED BY <3>1, AppendInserts
  <2> QED BY <2>1, <2>2
<1> HIDE DEF t
<1>2. Len(t) = Len(s) + 1
  BY <1>1 DEF IsInserted
<1> QED BY <1>1, <1>2, InsertedProperties DEF t

(* When no waiting request with the token of a new one has been answered,  *)
(* all with its token are replaced.                                        *)
LEMMA FirstAnsweredProperties ==
    ASSUME NEW r \in Requests, requests \in Seq(Requests)
    PROVE  /\ ReplacedBy(r) \subseteq Waiting
           /\ \A q \in ReplacedBy(r) : SameToken(r, q)
           /\ FirstAnswered(r) = 0 => \A q \in Waiting :
                 SameToken(r, q) => Open(q) /\ q \in ReplacedBy(r)
           /\ FirstAnswered(r) # 0 => \E q \in Waiting : SameToken(r, q) /\ ~Open(q)
<1> DEFINE I == {n \in 1..Len(requests) : SameToken(r, requests[n]) /\ ~Open(requests[n])}
           h == FirstAnswered(r)
<1>1. h = IF I # {} THEN Min(I) ELSE 0
  BY Zenon DEF FirstAnswered, SelectInSeq
<1>2. Len(requests) \in Nat /\ DOMAIN requests = 1..Len(requests) /\ I \in SUBSET (1..Len(requests))
  OBVIOUS
<1>3. \A n \in 1..Len(requests) : n \in I <=> SameToken(r, requests[n]) /\ ~Open(requests[n])
  BY Zenon
<1>4. \A q : q \in Waiting <=> \E n \in 1..Len(requests) : q = requests[n]
  BY <1>2 DEF Waiting, ToSet
<1> HIDE DEF I, h
<1>5. \/ h = 0 /\ I = {}
      \/ h \in I /\ \A m \in I : h <= m
  BY <1>1, <1>2, LeastIndex
<1>6. \A q : q \in ReplacedBy(r) <=> \E n \in 1..Len(requests) :
         q = requests[n] /\ SameToken(r, requests[n]) /\ (h = 0 \/ n < h)
  BY <1>2, Zenon DEF ReplacedBy, h
<1>7. h = 0 => \A q \in Waiting : SameToken(r, q) => Open(q) /\ q \in ReplacedBy(r)
  BY <1>2, <1>3, <1>4, <1>5, <1>6
<1>8. h # 0 => \E q \in Waiting : SameToken(r, q) /\ ~Open(q)
  BY <1>2, <1>3, <1>4, <1>5
<1> QED BY <1>4, <1>6, <1>7, <1>8 DEF h

-------------------------------------------------------------------------------
(***************************************************************************)
(* Types.  An executor holds a request exactly when it has taken one and   *)
(* not answered it.                                                        *)
(***************************************************************************)
RequestRecord ==
    [pc : {"New", "Submitted"} \cup Inside, priority : Priorities,
     token : Tokens \cup {NoToken}, delayed : BOOLEAN, late : BOOLEAN,
     cancelled : BOOLEAN, answer : Answers]

TypeInv ==
    /\ QueueTypeOK
    /\ \A e \in Executors : exec[e].req \in Requests <=> exec[e].pc \in {"Taken", "Running"}

LEMMA BlankTyped == Blank \in RequestRecord
<1>1. (CHOOSE p \in Priorities : TRUE) \in Priorities
  BY QueryQueueAssumption
<1> QED BY <1>1 DEF Blank, RequestRecord, Answers

LEMMA AnsweredTyped ==
    ASSUME NEW a \in Answers, NEW pc \in {"New", "Submitted"} \cup Inside
    PROVE  Answered(a, pc) \in RequestRecord
BY BlankTyped DEF Answered, RequestRecord

(* Some requests answered and gone.                                        *)
LEMMA FinishTyped ==
    ASSUME req \in [Requests -> RequestRecord], NEW rs, NEW a \in Answers
    PROVE  Finish(rs, a) \in [Requests -> RequestRecord]
<1>1. ASSUME NEW r \in Requests
      PROVE  (IF r \in rs THEN Answered(a, req[r].pc) ELSE req[r]) \in RequestRecord
  <2>1. req[r] \in RequestRecord
    OBVIOUS
  <2>2. req[r].pc \in {"New", "Submitted"} \cup Inside
    BY <2>1 DEF RequestRecord
  <2> QED BY <2>1, <2>2, AnsweredTyped
<1> QED BY <1>1 DEF Finish

LEMMA SetResponseTyped ==
    ASSUME req \in [Requests -> RequestRecord], NEW rs, NEW a \in Answers
    PROVE  SetResponse(rs, a) \in [Requests -> RequestRecord]
BY DEF SetResponse, RequestRecord

LEMMA NotifyAllTyped ==
    ASSUME TypeInv, NotifyAll
    PROVE  /\ exec' \in [Executors -> [pc : {"Loop", "Blocked", "Taken", "Running", "Exited"},
                                       req : Requests \cup {NoRequest}]]
           /\ \A e \in Executors : exec'[e].req \in Requests <=> exec'[e].pc \in {"Taken", "Running"}
BY DEF TypeInv, QueueTypeOK, NotifyAll, Blocked

LEMMA TypeInit == Init => TypeInv
<1> SUFFICES ASSUME Init PROVE TypeInv
  OBVIOUS
<1>1. req \in [Requests -> RequestRecord]
  BY BlankTyped DEF Init
<1> QED BY <1>1, QueryQueueAssumption DEF Init, TypeInv, QueueTypeOK, RequestRecord

LEMMA TypeStep == TypeInv /\ [Next]_vars => TypeInv'
<1> SUFFICES ASSUME TypeInv, [Next]_vars PROVE TypeInv'
  OBVIOUS
<1>0. /\ req \in [Requests -> RequestRecord] /\ requests \in Seq(Requests)
      /\ state \in {"Running", "Stop"} /\ lastDelayed \in Requests \cup {NoRequest}
      /\ exec \in [Executors -> [pc : {"Loop", "Blocked", "Taken", "Running", "Exited"},
                                 req : Requests \cup {NoRequest}]]
      /\ pool \in [open : Nat, lost : Nat]
      /\ monitor \in {"Scan", "Check", "Sleep", "Exited"}
      /\ manager \in {"Live", "Dropped", "Stopping", "Stopped", "Joining", "Gone"}
      /\ thrown \in {"Nobody", "Client", "Monitor"}
      /\ \A e \in Executors : exec[e].req \in Requests <=> exec[e].pc \in {"Taken", "Running"}
  BY DEF TypeInv, QueueTypeOK, RequestRecord
<1> DEFINE ReqTyped == (req \in [Requests -> RequestRecord])'
           ExecTyped == (/\ exec \in [Executors -> [pc : {"Loop", "Blocked", "Taken", "Running", "Exited"},
                                                    req : Requests \cup {NoRequest}]]
                         /\ \A e \in Executors :
                               exec[e].req \in Requests <=> exec[e].pc \in {"Taken", "Running"})'
<1>u. ASSUME UNCHANGED req PROVE ReqTyped
  BY <1>0, <1>u
<1>e. ASSUME UNCHANGED exec PROVE ExecTyped
  BY <1>0, <1>e
<1>q. ASSUME ReqTyped, ExecTyped, requests' \in Seq(Requests),
             state' \in {"Running", "Stop"}, lastDelayed' \in Requests \cup {NoRequest},
             pool' \in [open : Nat, lost : Nat],
             monitor' \in {"Scan", "Check", "Sleep", "Exited"},
             manager' \in {"Live", "Dropped", "Stopping", "Stopped", "Joining", "Gone"},
             thrown' \in {"Nobody", "Client", "Monitor"}
      PROVE  TypeInv'
  BY <1>q DEF TypeInv, QueueTypeOK, RequestRecord
<1>r. \A r \in Requests : req[r] \in RequestRecord /\ req[r].pc \in {"New", "Submitted"} \cup Inside
  BY <1>0 DEF RequestRecord
<1>w. \A rs : Without(requests, rs) \in Seq(Requests)
  BY <1>0, WithoutProperties
<1>s. ASSUME NEW r \in Requests, NEW v \in RequestRecord, req' = [req EXCEPT ![r] = v]
      PROVE  ReqTyped
  BY <1>0, <1>s
<1>x. ASSUME NEW e \in Executors,
             NEW v \in [pc : {"Loop", "Blocked", "Taken", "Running", "Exited"},
                        req : Requests \cup {NoRequest}],
             v.req \in Requests <=> v.pc \in {"Taken", "Running"},
             exec' = [exec EXCEPT ![e] = v]
      PROVE  ExecTyped
  BY <1>0, <1>x
<1>f. ASSUME NEW r \in Requests
      PROVE  /\ [req[r] EXCEPT !.pc = "Admitted"] \in RequestRecord
             /\ [req[r] EXCEPT !.pc = "Submitted"] \in RequestRecord
             /\ [req[r] EXCEPT !.delayed = FALSE] \in RequestRecord
             /\ [req[r] EXCEPT !.late = TRUE] \in RequestRecord
             /\ [req[r] EXCEPT !.late = FALSE] \in RequestRecord
  BY <1>r DEF RequestRecord, Inside
<1> HIDE DEF ReqTyped, ExecTyped
<1>1. CASE UNCHANGED vars
  BY <1>0, <1>1, <1>u, <1>e, <1>q DEF vars
<1>2. ASSUME NEW r \in Requests, CountQueue(r) PROVE TypeInv'
  <2>1. ReqTyped
    <3>1. PICK p \in Priorities, t \in Tokens \cup {NoToken}, d \in Delays, full \in SeemsFull(r) :
             req' = [req EXCEPT ![r] =
                       IF full THEN Answered("QueueFull", "Submitted")
                       ELSE [Blank EXCEPT !.pc = "Counted", !.priority = p,
                                          !.token = t, !.delayed = d]]
      BY <1>2 DEF CountQueue
    <3>2. [Blank EXCEPT !.pc = "Counted", !.priority = p, !.token = t, !.delayed = d] \in RequestRecord
      BY BlankTyped, QueryQueueAssumption DEF RequestRecord, Inside
    <3>3. Answered("QueueFull", "Submitted") \in RequestRecord
      BY AnsweredTyped DEF Answers
    <3> QED BY <1>0, <3>1, <3>2, <3>3 DEF ReqTyped
  <2> QED BY <1>0, <1>2, <1>e, <1>q, <2>1 DEF CountQueue
<1>3. ASSUME NEW r \in Requests, RejectStopped(r) PROVE TypeInv'
  <2>1. ReqTyped
    <3>3. Answered("ShuttingDown", "Submitted") \in RequestRecord
      BY AnsweredTyped DEF Answers
    <3> QED BY <1>0, <1>3, <3>3 DEF ReqTyped, RejectStopped
  <2> QED BY <1>0, <1>3, <1>e, <1>q, <2>1 DEF RejectStopped
<1>4. ASSUME NEW r \in Requests, Admit(r) PROVE TypeInv'
  <2>1. ReqTyped
    BY <1>4, <1>f, <1>s DEF Admit
  <2> QED BY <1>0, <1>4, <1>e, <1>q, <2>1 DEF Admit
<1>5. ASSUME NEW r \in Requests, ExecuteSynchronously(r) PROVE TypeInv'
  <2>1. ReqTyped
    <3>1. PICK a \in Outcomes(r) : req' = [req EXCEPT ![r] = Answered(a, "Submitted")]
      BY <1>5 DEF ExecuteSynchronously
    <3>2. a \in Answers
      BY DEF Outcomes, Answers
    <3>3. Answered(a, "Submitted") \in RequestRecord
      BY <3>2, AnsweredTyped
    <3> QED BY <1>0, <3>1, <3>3 DEF ReqTyped
  <2> QED BY <1>0, <1>5, <1>e, <1>q, <2>1 DEF ExecuteSynchronously
<1>6. ASSUME NEW r \in Requests, InsertSorted(r) PROVE TypeInv'
  <2>1. ReqTyped
    <3>1. Answered("Exception", "Submitted") \in RequestRecord
      BY AnsweredTyped DEF Answers
    <3>2. ASSUME NEW q \in Requests PROVE Answered("Cancel", req[q].pc) \in RequestRecord
      BY <1>r, AnsweredTyped DEF Answers
    <3>3. ASSUME NEW q \in Requests
          PROVE  /\ [req[q] EXCEPT !.pc = "Inserted"] \in RequestRecord
                 /\ [req[q] EXCEPT !.cancelled = TRUE] \in RequestRecord
      BY <1>r DEF RequestRecord, Inside
    <3> DEFINE new(q) ==
              CASE q = r -> IF FirstAnswered(r) # 0 THEN Answered("Exception", "Submitted")
                            ELSE [req[q] EXCEPT !.pc = "Inserted"]
                [] q \in ReplacedBy(r) -> Answered("Cancel", req[q].pc)
                [] q \in InterruptedBy(r) /\ ~(FirstAnswered(r) # 0) -> [req[q] EXCEPT !.cancelled = TRUE]
                [] OTHER -> req[q]
    <3>4. req' = [q \in Requests |-> new(q)]
      BY <1>6 DEF InsertSorted
    <3>5. \A q \in Requests : new(q) \in RequestRecord
      BY <1>r, <3>1, <3>2, <3>3
    <3> HIDE DEF new
    <3> QED BY <3>4, <3>5 DEF ReqTyped
  <2>2. requests' \in Seq(Requests)
    BY <1>6, <1>w, SortedProperties DEF InsertSorted
  <2> QED BY <1>0, <1>6, <1>e, <1>q, <2>1, <2>2 DEF InsertSorted
<1>7. ASSUME NEW r \in Requests, NotifyOne(r) PROVE TypeInv'
  <2>1. ReqTyped
    BY <1>7, <1>f, <1>s DEF NotifyOne
  <2>2. ExecTyped
    <3>1. CASE UNCHANGED exec
      BY <3>1, <1>e
    <3>2. ASSUME NEW e \in Blocked, exec' = [exec EXCEPT ![e].pc = "Loop"] PROVE ExecTyped
      <4>1. e \in Executors /\ exec[e].pc = "Blocked"
        BY DEF Blocked
      <4>2. exec' = [exec EXCEPT ![e] = [exec[e] EXCEPT !.pc = "Loop"]]
        BY <3>2
      <4> QED BY <1>0, <1>x, <4>1, <4>2
    <3> QED BY <1>7, <3>1, <3>2 DEF NotifyOne
  <2> QED BY <1>0, <1>7, <1>q, <2>1, <2>2 DEF NotifyOne
<1>8. ASSUME NEW r \in Requests, CancelRequest(r) PROVE TypeInv'
  <2>1. ReqTyped
    BY <1>0, <1>8, FinishTyped DEF ReqTyped, CancelRequest, Answers
  <2>2. requests' \in Seq(Requests)
    BY <1>0, <1>8, <1>w DEF CancelRequest
  <2> QED BY <1>0, <1>8, <1>e, <1>q, <2>1, <2>2 DEF CancelRequest
<1>9. ASSUME NEW r \in Requests, DelayEnds(r) \/ TimeExceeded(r) PROVE TypeInv'
  <2>1. ReqTyped
    BY <1>9, <1>f, <1>s DEF DelayEnds, TimeExceeded
  <2> QED BY <1>0, <1>9, <1>e, <1>q, <2>1 DEF DelayEnds, TimeExceeded
<1>10. ASSUME NEW e \in Executors, WaitInQueue(e) \/ Exit(e) PROVE TypeInv'
  <2>1. ExecTyped
    <3>1. \/ exec' = [exec EXCEPT ![e] = [exec[e] EXCEPT !.pc = "Blocked"]]
          \/ exec' = [exec EXCEPT ![e] = [exec[e] EXCEPT !.pc = "Exited"]]
      BY <1>10 DEF WaitInQueue, Exit
    <3>2. exec[e].pc = "Loop"
      BY <1>10 DEF WaitInQueue, Exit
    <3> QED BY <1>0, <1>x, <3>1, <3>2
  <2> QED BY <1>0, <1>10, <1>u, <1>q, <2>1 DEF WaitInQueue, Exit
<1>11. ASSUME NEW e \in Executors, Dequeue(e) PROVE TypeInv'
  <2>1. Last(requests) \in Requests /\ Front(requests) \in Seq(Requests)
    BY <1>0, <1>11, FrontProperties DEF Dequeue
  <2>2. requests' \in Seq(Requests)
    BY <1>11, <2>1, PutBackProperties DEF Dequeue
  <2>3. ReqTyped
    BY <1>11, <1>f, <1>s, <1>u, <2>1 DEF Dequeue
  <2>4. ExecTyped
    BY <1>11, <1>e, <1>x, <2>1 DEF Dequeue
  <2>5. lastDelayed' \in Requests \cup {NoRequest}
    BY <1>0, <1>11, <2>1 DEF Dequeue
  <2> QED BY <1>0, <1>11, <1>q, <2>2, <2>3, <2>4, <2>5 DEF Dequeue
<1>12. ASSUME NEW e \in Executors, GetConnection(e) \/ OpenFails(e) PROVE TypeInv'
  <2>1. ExecTyped
    BY <1>0, <1>12, <1>e DEF ExecTyped, GetConnection, OpenFails
  <2>2. pool' \in [open : Nat, lost : Nat]
    BY <1>0, <1>12 DEF GetConnection, OpenFails
  <2> QED BY <1>0, <1>12, <1>u, <1>q, <2>1, <2>2 DEF GetConnection, OpenFails
<1>13. ASSUME NEW e \in Executors, Execute(e) PROVE TypeInv'
  <2>1. ReqTyped
    <3>1. PICK a \in Outcomes(exec[e].req) : req' = Finish({exec[e].req}, a)
      BY <1>13 DEF Execute
    <3>2. a \in Answers
      BY DEF Outcomes, Answers
    <3> QED BY <1>0, <3>1, <3>2, FinishTyped DEF ReqTyped
  <2>2. ExecTyped
    BY <1>0, <1>13, QueryQueueAssumption DEF ExecTyped, Execute
  <2> QED BY <1>0, <1>13, <1>q, <2>1, <2>2 DEF Execute
<1>14. CASE RemoveTimedOut
  <2>1. ReqTyped
    BY <1>0, <1>14, FinishTyped DEF ReqTyped, RemoveTimedOut, Answers
  <2>2. requests' \in Seq(Requests)
    BY <1>0, <1>14, <1>w DEF RemoveTimedOut
  <2> QED BY <1>0, <1>14, <1>e, <1>q, <2>1, <2>2 DEF RemoveTimedOut
<1>15. CASE StayUp \/ WakeMonitor
  BY <1>0, <1>15, <1>u, <1>e, <1>q DEF StayUp, WakeMonitor
<1>16. CASE ShutdownWhenIdle
  <2>1. ExecTyped
    BY <1>16, NotifyAllTyped DEF ExecTyped, ShutdownWhenIdle
  <2> QED BY <1>0, <1>16, <1>u, <1>q, <2>1 DEF ShutdownWhenIdle
<1>17. CASE Shutdown \/ BeginStop \/ JoinMonitor
  BY <1>0, <1>17, <1>u, <1>e, <1>q DEF Shutdown, BeginStop, JoinMonitor
<1>18. CASE StopRequests
  <2>1. ReqTyped
    BY <1>0, <1>18, SetResponseTyped DEF ReqTyped, StopRequests, Answers
  <2>2. ExecTyped
    BY <1>18, NotifyAllTyped DEF ExecTyped, StopRequests
  <2> QED BY <1>0, <1>18, <1>q, <2>1, <2>2 DEF StopRequests
<1>19. CASE JoinExecutors
  <2>1. requests' \in Seq(Requests)
    BY <1>19 DEF JoinExecutors
  <2> QED BY <1>0, <1>19, <1>u, <1>e, <1>q, <2>1 DEF JoinExecutors
<1>20. CASE Ended
  BY <1>1, <1>20 DEF Ended
<1> QED BY <1>1, <1>2, <1>3, <1>4, <1>5, <1>6, <1>7, <1>8, <1>9, <1>10, <1>11, <1>12, <1>13,
           <1>14, <1>15, <1>16, <1>17, <1>18, <1>19, <1>20
        DEF Next, Caller, Executor, Monitor, Destroy

(* QueueTypeOK is an invariant: whatever the threads do, in whatever order, *)
(* the parts of the manager stay what they are declared to be.              *)
THEOREM TypeCorrect == SafetySpec => []QueueTypeOK
<1>1. TypeInv => QueueTypeOK
  BY DEF TypeInv
<1> QED BY <1>1, TypeInit, TypeStep, PTL DEF SafetySpec

-------------------------------------------------------------------------------
(***************************************************************************)
(* Fields of requests that were answered or had one field changed.         *)
(***************************************************************************)
LEMMA AnsweredFields ==
    \A a, p : /\ Answered(a, p).pc = p /\ Answered(a, p).answer = a
              /\ Answered(a, p).late = FALSE /\ Answered(a, p).token = NoToken
BY DEF Answered, Blank

LEMMA FinishFields ==
    ASSUME NEW rs, NEW a, NEW r \in Requests
    PROVE  /\ Finish(rs, a)[r].pc = req[r].pc
           /\ r \notin rs => Finish(rs, a)[r] = req[r]
           /\ r \in rs => Finish(rs, a)[r] = Answered(a, req[r].pc)
           /\ r \in rs => Finish(rs, a)[r].answer = a
<1>1. Finish(rs, a)[r] = IF r \in rs THEN Answered(a, req[r].pc) ELSE req[r]
  BY DEF Finish
<1>2. Answered(a, req[r].pc).pc = req[r].pc /\ Answered(a, req[r].pc).answer = a
  BY AnsweredFields, Zenon
<1>3. CASE r \in rs
  BY <1>1, <1>2, <1>3, Zenon
<1>4. CASE r \notin rs
  BY <1>1, <1>4, Zenon
<1> QED BY <1>3, <1>4, Zenon

LEMMA SetResponseFields ==
    ASSUME TypeInv, NEW rs, NEW a, NEW r \in Requests
    PROVE  /\ SetResponse(rs, a)[r].pc = req[r].pc
           /\ SetResponse(rs, a)[r].late = req[r].late
           /\ SetResponse(rs, a)[r].token = req[r].token
           /\ SetResponse(rs, a)[r].priority = req[r].priority
           /\ r \notin rs => SetResponse(rs, a)[r] = req[r]
           /\ r \in rs => SetResponse(rs, a)[r].answer = a
BY DEF SetResponse, TypeInv, QueueTypeOK

(* What is typed, in the form the proofs below use.                        *)
LEMMA TypeFacts ==
    ASSUME TypeInv
    PROVE  /\ req \in [Requests -> RequestRecord] /\ requests \in Seq(Requests)
           /\ Waiting \subseteq Requests
           /\ exec \in [Executors -> [pc : {"Loop", "Blocked", "Taken", "Running", "Exited"},
                                      req : Requests \cup {NoRequest}]]
           /\ \A e \in Executors : exec[e].req \in Requests <=> exec[e].pc \in {"Taken", "Running"}
           /\ \A r \in Requests : req[r] \in RequestRecord
BY DEF TypeInv, QueueTypeOK, RequestRecord, Waiting, ToSet

-------------------------------------------------------------------------------
(***************************************************************************)
(* A request is at most once in the queue or with an executor, and only    *)
(* between its insertion and its end.                                      *)
(***************************************************************************)
PlacesInv ==
    /\ NoRepeats(requests)
    /\ \A e, f \in Executors : exec[e].req = exec[f].req /\ exec[e].req \in Requests => e = f
    /\ \A e \in Executors : exec[e].req \notin Waiting
    /\ \A r \in Waiting : req[r].pc \in {"Inserted", "Submitted"}
    /\ \A e \in Executors : exec[e].req \in Requests =>
          req[exec[e].req].pc \in {"Inserted", "Submitted"}

(* What InsertSorted does to each request.                                 *)
LEMMA InsertSortedFields ==
    ASSUME TypeInv, PlacesInv, NEW r \in Requests, InsertSorted(r)
    PROVE  /\ FirstAnswered(r) # 0 => req'[r] = Answered("Exception", "Submitted")
           /\ FirstAnswered(r) = 0 => req'[r] = [req[r] EXCEPT !.pc = "Inserted"]
           /\ req'[r].pc \in {"Inserted", "Submitted"}
           /\ \A q \in Requests \ {r} :
                 /\ req'[q].pc = req[q].pc
                 /\ q \in ReplacedBy(r) => req'[q] = Answered("Cancel", req[q].pc)
                 /\ q \notin ReplacedBy(r) =>
                       req'[q] = req[q] \/ req'[q] = [req[q] EXCEPT !.cancelled = TRUE]
<1> DEFINE throws == FirstAnswered(r) # 0
           new(q) ==
              CASE q = r -> IF throws THEN Answered("Exception", "Submitted")
                            ELSE [req[q] EXCEPT !.pc = "Inserted"]
                [] q \in ReplacedBy(r) -> Answered("Cancel", req[q].pc)
                [] q \in InterruptedBy(r) /\ ~throws -> [req[q] EXCEPT !.cancelled = TRUE]
                [] OTHER -> req[q]
<1>1. \A q \in Requests : req'[q] = new(q)
  BY DEF InsertSorted
<1> HIDE DEF throws
<1>2. \A q \in Requests : req[q].pc = [req[q] EXCEPT !.cancelled = TRUE].pc
  BY TypeFacts DEF RequestRecord
<1>3. r \notin ReplacedBy(r) /\ r \notin InterruptedBy(r)
      /\ \A q \in ReplacedBy(r) : q \notin InterruptedBy(r)
  <2>1. req[r].pc = "Admitted"
    BY DEF InsertSorted
  <2>2. ReplacedBy(r) \subseteq Waiting
    BY TypeFacts, FirstAnsweredProperties
  <2>3. \A q \in InterruptedBy(r) : \E e \in Executors : exec[e].req = q
    BY DEF InterruptedBy, Running
  <2> QED BY <2>1, <2>2, <2>3 DEF PlacesInv
<1>4. req'[r] = IF throws THEN Answered("Exception", "Submitted")
                ELSE [req[r] EXCEPT !.pc = "Inserted"]
  BY <1>1, <1>3
<1>5. ASSUME NEW q \in Requests \ {r}
      PROVE  /\ q \in ReplacedBy(r) => req'[q] = Answered("Cancel", req[q].pc)
             /\ q \notin ReplacedBy(r) =>
                   req'[q] = req[q] \/ req'[q] = [req[q] EXCEPT !.cancelled = TRUE]
  <2>1. req'[q] = new(q)
    BY <1>1
  <2>2. CASE q \in ReplacedBy(r)
    BY <1>3, <2>1, <2>2
  <2>3. CASE q \notin ReplacedBy(r)
    BY <2>1, <2>3
  <2> QED BY <2>2, <2>3
<1> HIDE DEF new
<1>6. ASSUME NEW q \in Requests \ {r} PROVE req'[q].pc = req[q].pc
  <2>1. CASE q \in ReplacedBy(r)
    <3>1. Answered("Cancel", req[q].pc).pc = req[q].pc
      BY AnsweredFields, Zenon
    <3> QED BY <1>5, <2>1, <3>1
  <2>2. CASE q \notin ReplacedBy(r)
    BY <1>2, <1>5, <2>2
  <2> QED BY <2>1, <2>2
<1>7. req'[r].pc \in {"Inserted", "Submitted"}
  <2>1. [req[r] EXCEPT !.pc = "Inserted"].pc = "Inserted"
    BY TypeFacts DEF RequestRecord
  <2>2. Answered("Exception", "Submitted").pc = "Submitted"
    BY AnsweredFields, Zenon
  <2> QED BY <1>4, <2>1, <2>2
<1> QED BY <1>4, <1>5, <1>6, <1>7 DEF throws

LEMMA PlacesInit == Init => PlacesInv
BY QueryQueueAssumption DEF Init, PlacesInv, NoRepeats, Waiting, ToSet

(* A step that brings no request into the queue and to no executor.        *)
LEMMA PlacesFrame ==
    ASSUME TypeInv, TypeInv', PlacesInv, NoRepeats(requests'), Waiting' \subseteq Waiting,
           \A e \in Executors : exec'[e].req \in {exec[e].req, NoRequest},
           \A r \in Requests : req[r].pc \in {"Inserted", "Submitted"} =>
               req'[r].pc \in {"Inserted", "Submitted"}
    PROVE  PlacesInv'
<1>1. Waiting \subseteq Requests /\ NoRequest \notin Requests
  BY TypeFacts, QueryQueueAssumption
<1> QED BY <1>1 DEF PlacesInv

(* What the threads in WaitForDequeue hold is the same when they wake up.  *)
LEMMA NotifyAllHolds ==
    ASSUME TypeInv, NotifyAll, NEW e \in Executors
    PROVE  /\ exec'[e].req = exec[e].req
           /\ exec'[e].pc = IF exec[e].pc = "Blocked" THEN "Loop" ELSE exec[e].pc
BY TypeFacts DEF NotifyAll, Blocked

LEMMA PlacesStep == TypeInv /\ TypeInv' /\ PlacesInv /\ [Next]_vars => PlacesInv'
<1> SUFFICES ASSUME TypeInv, TypeInv', PlacesInv, [Next]_vars PROVE PlacesInv'
  OBVIOUS
<1>0. /\ req \in [Requests -> RequestRecord] /\ requests \in Seq(Requests)
      /\ Waiting \subseteq Requests
      /\ exec \in [Executors -> [pc : {"Loop", "Blocked", "Taken", "Running", "Exited"},
                                 req : Requests \cup {NoRequest}]]
      /\ \A e \in Executors : exec[e].req \in Requests <=> exec[e].pc \in {"Taken", "Running"}
  BY TypeFacts
<1>n. NoRepeats(requests)
  BY DEF PlacesInv
<1>f. ASSUME NoRepeats(requests'), Waiting' \subseteq Waiting,
             \A e \in Executors : exec'[e].req \in {exec[e].req, NoRequest},
             \A r \in Requests : req[r].pc \in {"Inserted", "Submitted"} =>
                 req'[r].pc \in {"Inserted", "Submitted"}
      PROVE  PlacesInv'
  BY <1>f, PlacesFrame
<1>r. ASSUME UNCHANGED requests PROVE NoRepeats(requests') /\ Waiting' \subseteq Waiting
  BY <1>n, <1>r DEF Waiting
<1>w. ASSUME NEW rs, requests' = Without(requests, rs) PROVE NoRepeats(requests') /\ Waiting' \subseteq Waiting
  BY <1>0, <1>n, <1>w, WithoutProperties DEF Waiting
<1>p. \A q \in Requests :
         /\ [req[q] EXCEPT !.delayed = FALSE].pc = req[q].pc
         /\ [req[q] EXCEPT !.late = TRUE].pc = req[q].pc
         /\ [req[q] EXCEPT !.late = FALSE].pc = req[q].pc
  BY <1>0 DEF RequestRecord
<1>1. CASE UNCHANGED vars
  BY <1>1, <1>f, <1>r DEF vars
<1>2. ASSUME NEW r \in Requests,
             CountQueue(r) \/ RejectStopped(r) \/ Admit(r) \/ ExecuteSynchronously(r)
      PROVE  PlacesInv'
  <2>1. UNCHANGED <<requests, exec>> /\ req[r].pc \notin {"Inserted", "Submitted"}
        /\ \E v : req' = [req EXCEPT ![r] = v]
    BY <1>2 DEF CountQueue, RejectStopped, Admit, ExecuteSynchronously
  <2> QED BY <1>0, <1>f, <1>r, <2>1
<1>3. ASSUME NEW r \in Requests, InsertSorted(r) PROVE PlacesInv'
  <2> DEFINE kept == Without(requests, ReplacedBy(r))
  <2>0. req[r].pc = "Admitted" /\ r \notin Waiting
    BY <1>3 DEF InsertSorted, PlacesInv
  <2>1. kept \in Seq(Requests) /\ NoRepeats(kept) /\ ToSet(kept) \subseteq Waiting
    BY <1>0, <1>n, WithoutProperties
  <2>2. \A q \in Requests : req[q].pc \in {"Inserted", "Submitted"} =>
            req'[q].pc \in {"Inserted", "Submitted"}
    BY <1>3, <2>0, InsertSortedFields
  <2>3. req'[r].pc \in {"Inserted", "Submitted"}
    BY <1>3, InsertSortedFields
  <2>4. UNCHANGED exec
    BY <1>3 DEF InsertSorted
  <2>5. requests' = kept \/ requests' = Sorted(r, kept)
    BY <1>3 DEF InsertSorted
  <2> HIDE DEF kept
  <2>6. CASE requests' = kept
    BY <1>0, <1>f, <2>1, <2>2, <2>4, <2>6 DEF Waiting
  <2>7. CASE requests' = Sorted(r, kept)
    <3>1. NoRepeats(requests') /\ ToSet(requests') = ToSet(kept) \cup {r}
      BY <2>0, <2>1, <2>7, SortedProperties
    <3>2. Waiting' \subseteq Waiting \cup {r}
      BY <2>1, <3>1 DEF Waiting
    <3>3. \A e \in Executors : exec[e].req # r
      BY <2>0 DEF PlacesInv
    <3> QED BY <1>0, <2>0, <2>2, <2>3, <2>4, <3>1, <3>2, <3>3 DEF PlacesInv
  <2> QED BY <2>5, <2>6, <2>7
<1>4. ASSUME NEW r \in Requests, NotifyOne(r) PROVE PlacesInv'
  <2>1. \A e \in Executors : exec'[e].req = exec[e].req
    BY <1>0, <1>4 DEF NotifyOne, Blocked
  <2>2. UNCHANGED requests /\ req' = [req EXCEPT ![r].pc = "Submitted"]
    BY <1>4 DEF NotifyOne
  <2>3. \A q \in Requests : req[q].pc \in {"Inserted", "Submitted"} =>
            req'[q].pc \in {"Inserted", "Submitted"}
    BY <1>0, <2>2 DEF RequestRecord
  <2> QED BY <1>f, <1>r, <2>1, <2>2, <2>3
<1>5. ASSUME NEW r \in Requests, CancelRequest(r) PROVE PlacesInv'
  <2>1. UNCHANGED exec /\ (UNCHANGED requests \/ requests' = Without(requests, {r}))
        /\ (UNCHANGED req \/ req' = Finish({r}, "Cancel"))
    BY <1>5 DEF CancelRequest
  <2>2. \A q \in Requests : req[q].pc \in {"Inserted", "Submitted"} =>
            req'[q].pc \in {"Inserted", "Submitted"}
    BY <2>1, FinishFields
  <2> QED BY <1>f, <1>r, <1>w, <2>1, <2>2
<1>6. ASSUME NEW r \in Requests, DelayEnds(r) \/ TimeExceeded(r) PROVE PlacesInv'
  <2>1. UNCHANGED <<exec, requests>>
        /\ (req' = [req EXCEPT ![r].delayed = FALSE] \/ req' = [req EXCEPT ![r].late = TRUE])
    BY <1>6 DEF DelayEnds, TimeExceeded
  <2>2. \A q \in Requests : req'[q].pc = req[q].pc
    BY <1>0, <2>1, <1>p
  <2> QED BY <1>f, <1>r, <2>1, <2>2
<1>7. ASSUME NEW e \in Executors, WaitInQueue(e) \/ Exit(e) \/ GetConnection(e) \/ OpenFails(e)
      PROVE  PlacesInv'
  <2>1. UNCHANGED <<req, requests>> /\ \A f \in Executors : exec'[f].req = exec[f].req
    BY <1>0, <1>7 DEF WaitInQueue, Exit, GetConnection, OpenFails
  <2> QED BY <1>f, <1>r, <2>1
<1>8. ASSUME NEW e \in Executors, Dequeue(e) PROVE PlacesInv'
  <2> DEFINE r == Last(requests)
             rest == Front(requests)
  <2>1. /\ r \in Requests /\ rest \in Seq(Requests) /\ Waiting = ToSet(rest) \cup {r}
        /\ NoRepeats(rest) /\ r \notin ToSet(rest)
    BY <1>0, <1>8, <1>n, FrontProperties DEF Dequeue, Waiting
  <2>2. \A q \in Requests : req'[q].pc = req[q].pc
    <3>1. UNCHANGED req \/ req' = [req EXCEPT ![r].late = FALSE]
      BY <1>8 DEF Dequeue
    <3> QED BY <1>0, <1>p, <2>1, <3>1
  <2>3. \/ requests' = rest /\ exec' = [exec EXCEPT ![e] = [pc |-> "Taken", req |-> r]]
        \/ requests' = PutBack(r, rest) /\ UNCHANGED exec
    BY <1>8 DEF Dequeue
  <2> HIDE DEF r, rest
  <2>4. CASE requests' = PutBack(r, rest) /\ UNCHANGED exec
    <3>1. NoRepeats(requests') /\ ToSet(requests') = ToSet(rest) \cup {r}
      BY <2>1, <2>4, PutBackProperties
    <3> QED BY <1>f, <2>1, <2>2, <2>4, <3>1 DEF Waiting
  <2>5. CASE requests' = rest /\ exec' = [exec EXCEPT ![e] = [pc |-> "Taken", req |-> r]]
    <3>1. Waiting' = ToSet(rest) /\ NoRepeats(requests')
      BY <2>1, <2>5 DEF Waiting
    <3>2. exec'[e].req = r /\ \A f \in Executors \ {e} : exec'[f].req = exec[f].req
      BY <1>0, <2>5
    <3>3. r \in Waiting /\ Waiting' \subseteq Waiting /\ r \notin Waiting'
      BY <2>1, <3>1
    <3>4. \A f \in Executors : exec[f].req # r
      BY <3>3 DEF PlacesInv
    <3> QED BY <1>0, <2>1, <2>2, <3>1, <3>2, <3>3, <3>4 DEF PlacesInv
  <2> QED BY <2>3, <2>4, <2>5
<1>9. ASSUME NEW e \in Executors, Execute(e) PROVE PlacesInv'
  <2>1. UNCHANGED requests /\ (\E a : req' = Finish({exec[e].req}, a))
        /\ exec' = [exec EXCEPT ![e] = [pc |-> "Loop", req |-> NoRequest]]
    BY <1>9 DEF Execute
  <2>2. \A q \in Requests : req'[q].pc = req[q].pc
    BY <2>1, FinishFields
  <2>3. \A f \in Executors : exec'[f].req \in {exec[f].req, NoRequest}
    BY <1>0, <2>1
  <2> QED BY <1>f, <1>r, <2>1, <2>2, <2>3
<1>10. CASE RemoveTimedOut
  <2>1. UNCHANGED exec /\ (UNCHANGED requests \/ requests' = Without(requests, TimedOut))
        /\ (UNCHANGED req \/ req' = Finish(TimedOut, "Timeout"))
    BY <1>10 DEF RemoveTimedOut
  <2>2. \A q \in Requests : req[q].pc \in {"Inserted", "Submitted"} =>
            req'[q].pc \in {"Inserted", "Submitted"}
    BY <2>1, FinishFields
  <2> QED BY <1>f, <1>r, <1>w, <2>1, <2>2
<1>11. CASE StayUp \/ WakeMonitor \/ Shutdown \/ BeginStop \/ JoinMonitor
  BY <1>11, <1>f, <1>r DEF StayUp, WakeMonitor, Shutdown, BeginStop, JoinMonitor
<1>12. CASE ShutdownWhenIdle \/ StopRequests
  <2>1. UNCHANGED requests /\ NotifyAll
        /\ (UNCHANGED req \/ req' = SetResponse(Waiting, "ShuttingDown"))
    BY <1>12 DEF ShutdownWhenIdle, StopRequests
  <2>2. \A q \in Requests : req'[q].pc = req[q].pc
    BY <2>1, SetResponseFields
  <2>3. \A e \in Executors : exec'[e].req = exec[e].req
    BY <2>1, NotifyAllHolds
  <2> QED BY <1>f, <1>r, <2>1, <2>2, <2>3
<1>13. CASE JoinExecutors
  <2>1. requests' = <<>> /\ UNCHANGED <<req, exec>>
    BY <1>13 DEF JoinExecutors
  <2>2. NoRepeats(requests') /\ Waiting' = {}
    BY <2>1 DEF NoRepeats, Waiting, ToSet
  <2> QED BY <1>f, <2>1, <2>2
<1>14. CASE Ended
  BY <1>1, <1>14 DEF Ended
<1> QED BY <1>1, <1>2, <1>3, <1>4, <1>5, <1>6, <1>7, <1>8, <1>9, <1>10, <1>11, <1>12, <1>13,
           <1>14 DEF Next, Caller, Executor, Monitor, Destroy

-------------------------------------------------------------------------------
(***************************************************************************)
(* A request without an answer is in the queue or with an executor, unless *)
(* an idle manager stopped while one was about to be inserted.  What an    *)
(* executor holds has no answer; what waits has one exactly when Stop has  *)
(* gone through the queue.                                                 *)
(***************************************************************************)
Pending(r) == req[r].pc \in {"Inserted", "Submitted"} /\ Open(r)
Held(r) == \E e \in Executors : exec[e].req = r

AnswersInv ==
    /\ \A r \in Requests : Pending(r) => r \in Waiting \/ Held(r)
    /\ \A r \in Requests : Held(r) => Open(r)
    /\ \A r \in Waiting : Open(r) <=> ~Stopped
    /\ \A r \in Requests : req[r].pc \in {"Counted", "Admitted"} => Open(r)
    /\ state = "Stop" => \A r \in Requests : req[r].pc # "Admitted"
    /\ manager \notin {"Live", "Dropped"} => state = "Stop"

LEMMA AnswersInit == Init => AnswersInv
BY QueryQueueAssumption
   DEF Init, AnswersInv, Pending, Held, Waiting, ToSet, Blank, Open, Stopped

(* A step that answers no request and moves none.                          *)
LEMMA AnswersFrame ==
    ASSUME TypeInv, AnswersInv, Waiting' = Waiting,
           \A r \in Requests : req'[r].answer = req[r].answer,
           \A r \in Requests :
               /\ req'[r].pc \in {"Inserted", "Submitted"} <=> req[r].pc \in {"Inserted", "Submitted"}
               /\ req'[r].pc \in {"Counted", "Admitted"} => req[r].pc \in {"Counted", "Admitted"}
               /\ req'[r].pc = "Admitted" /\ state' = "Stop" => req[r].pc = "Admitted" /\ state = "Stop",
           \A e \in Executors : exec'[e].req = exec[e].req,
           Waiting # {} => (Stopped' <=> Stopped),
           manager' \notin {"Live", "Dropped"} => state' = "Stop"
    PROVE  AnswersInv'
<1>1. \A r \in Requests : /\ Pending(r)' <=> Pending(r)
                          /\ Held(r)' <=> Held(r)
                          /\ Open(r)' <=> Open(r)
  BY DEF Pending, Held, Open
<1>2. Waiting \subseteq Requests
  BY TypeFacts
<1> QED BY <1>1, <1>2 DEF AnswersInv

(* A step that answers some requests and takes them out of the queue or    *)
(* from an executor.                                                       *)
LEMMA AnswersRemoved ==
    ASSUME TypeInv, PlacesInv, AnswersInv, NEW rs, NEW a \in Answers \ {"None"},
           req' = Finish(rs, a), Waiting' = Waiting \ rs,
           \A e \in Executors : exec'[e].req = IF exec[e].req \in rs THEN NoRequest ELSE exec[e].req,
           \A r \in rs : r \in Waiting \/ Held(r),
           UNCHANGED <<state, manager>>
    PROVE  AnswersInv'
<1>1. /\ Waiting \subseteq Requests /\ NoRequest \notin Requests
      /\ (Stopped' <=> Stopped)
  BY TypeFacts, QueryQueueAssumption DEF Stopped
<1>2. \A r \in Requests : req'[r].pc = req[r].pc
  BY FinishFields
<1>3. ASSUME NEW r \in Requests, r \in rs
      PROVE  ~Open(r)' /\ ~Held(r)' /\ req[r].pc \notin {"Counted", "Admitted"}
  <2>1. req'[r].answer = a
    BY <1>3, FinishFields
  <2>2. ~Held(r)'
    BY <1>1, <1>3 DEF Held
  <2>3. req[r].pc \in {"Inserted", "Submitted"}
    <3>1. CASE r \in Waiting
      BY <3>1 DEF PlacesInv
    <3>2. CASE Held(r)
      BY <3>2 DEF PlacesInv, Held
    <3> QED BY <1>3, <3>1, <3>2
  <2> QED BY <2>1, <2>2, <2>3 DEF Open
<1>4. ASSUME NEW r \in Requests, r \notin rs
      PROVE  (Open(r)' <=> Open(r)) /\ (Held(r)' <=> Held(r)) /\ (r \in Waiting' <=> r \in Waiting)
  <2>1. req'[r] = req[r]
    BY <1>4, FinishFields
  <2>2. Held(r)' <=> Held(r)
    BY <1>1, <1>4 DEF Held
  <2> QED BY <1>4, <2>1, <2>2 DEF Open
<1>5. \A r \in Requests : Pending(r)' => r \in Waiting' \/ Held(r)'
  <2> SUFFICES ASSUME NEW r \in Requests, Pending(r)' PROVE r \in Waiting' \/ Held(r)'
    OBVIOUS
  <2>1. r \notin rs
    BY <1>3 DEF Pending
  <2>2. Pending(r)
    BY <1>2, <1>4, <2>1 DEF Pending
  <2> QED BY <1>4, <2>1, <2>2 DEF AnswersInv
<1>6. \A r \in Requests : Held(r)' => Open(r)'
  BY <1>3, <1>4 DEF AnswersInv
<1>7. \A r \in Waiting' : Open(r)' <=> ~Stopped'
  BY <1>1, <1>4 DEF AnswersInv
<1>8. \A r \in Requests : req'[r].pc \in {"Counted", "Admitted"} => Open(r)'
  BY <1>2, <1>3, <1>4 DEF AnswersInv
<1> QED BY <1>2, <1>5, <1>6, <1>7, <1>8 DEF AnswersInv

(* A caller's step that changes its own request, which is in no place.     *)
LEMMA AnswersOwn ==
    ASSUME TypeInv, PlacesInv, AnswersInv, NEW r \in Requests,
           req[r].pc \in {"New", "Counted"}, \A q \in Requests \ {r} : req'[q] = req[q],
           req'[r].pc \in {"Submitted", "Counted", "Admitted"},
           req'[r].pc = "Submitted" <=> req'[r].answer # "None",
           req'[r].pc = "Admitted" => state # "Stop",
           UNCHANGED <<requests, exec, state, manager>>
    PROVE  AnswersInv'
<1>1. /\ Waiting \subseteq Requests /\ Waiting' = Waiting /\ (Stopped' <=> Stopped)
      /\ req \in [Requests -> RequestRecord]
  BY TypeFacts DEF Stopped, Waiting
<1>2. r \notin Waiting /\ ~Held(r)
  BY DEF PlacesInv, Held
<1>3. \A q \in Requests : Held(q)' <=> Held(q)
  BY DEF Held
<1>4. \A q \in Requests \ {r} : (Pending(q)' <=> Pending(q)) /\ (Open(q)' <=> Open(q))
  BY DEF Pending, Open
<1>5. ~Pending(r)' /\ (req'[r].pc \in {"Counted", "Admitted"} => Open(r)')
  BY DEF Pending, Open
<1> QED BY <1>1, <1>2, <1>3, <1>4, <1>5 DEF AnswersInv

LEMMA AnswersStep ==
    "LateInsert" \notin Mishaps =>
        (TypeInv /\ TypeInv' /\ PlacesInv /\ AnswersInv /\ [Next]_vars => AnswersInv')
<1> SUFFICES ASSUME "LateInsert" \notin Mishaps, TypeInv, TypeInv', PlacesInv, AnswersInv, [Next]_vars
             PROVE  AnswersInv'
  OBVIOUS
<1>0. /\ req \in [Requests -> RequestRecord] /\ requests \in Seq(Requests)
      /\ Waiting \subseteq Requests
      /\ exec \in [Executors -> [pc : {"Loop", "Blocked", "Taken", "Running", "Exited"},
                                 req : Requests \cup {NoRequest}]]
      /\ \A e \in Executors : exec[e].req \in Requests <=> exec[e].pc \in {"Taken", "Running"}
  BY TypeFacts
<1>w. UNCHANGED requests => Waiting' = Waiting
  BY DEF Waiting
<1>s. UNCHANGED <<state, manager>> => (Stopped' <=> Stopped)
  BY DEF Stopped
<1>m. manager \notin {"Live", "Dropped"} => state = "Stop"
  BY DEF AnswersInv
<1>p. \A q \in Requests :
         /\ [req[q] EXCEPT !.delayed = FALSE].pc = req[q].pc
         /\ [req[q] EXCEPT !.late = TRUE].pc = req[q].pc
         /\ [req[q] EXCEPT !.late = FALSE].pc = req[q].pc
         /\ [req[q] EXCEPT !.pc = "Submitted"].pc = "Submitted"
         /\ [req[q] EXCEPT !.pc = "Inserted"].pc = "Inserted"
         /\ [req[q] EXCEPT !.pc = "Admitted"].pc = "Admitted"
         /\ [req[q] EXCEPT !.delayed = FALSE].answer = req[q].answer
         /\ [req[q] EXCEPT !.late = TRUE].answer = req[q].answer
         /\ [req[q] EXCEPT !.late = FALSE].answer = req[q].answer
         /\ [req[q] EXCEPT !.pc = "Submitted"].answer = req[q].answer
         /\ [req[q] EXCEPT !.pc = "Inserted"].answer = req[q].answer
         /\ [req[q] EXCEPT !.pc = "Admitted"].answer = req[q].answer
         /\ [req[q] EXCEPT !.cancelled = TRUE].answer = req[q].answer
  BY <1>0 DEF RequestRecord
<1>1. CASE UNCHANGED vars
  BY <1>1, <1>w, <1>s, <1>m, AnswersFrame DEF vars
<1>2. ASSUME NEW r \in Requests, CountQueue(r) PROVE AnswersInv'
  <2>1. PICK v : req' = [req EXCEPT ![r] = v] /\ v.pc \in {"Submitted", "Counted"}
                 /\ (v.pc = "Submitted" <=> v.answer # "None")
    <3>1. PICK p \in Priorities, t \in Tokens \cup {NoToken}, d \in Delays, full \in SeemsFull(r) :
             req' = [req EXCEPT ![r] =
                       IF full THEN Answered("QueueFull", "Submitted")
                       ELSE [Blank EXCEPT !.pc = "Counted", !.priority = p,
                                          !.token = t, !.delayed = d]]
      BY <1>2 DEF CountQueue
    <3>2. LET v == Answered("QueueFull", "Submitted") IN v.pc = "Submitted" /\ v.answer = "QueueFull"
      BY AnsweredFields
    <3>3. LET v == [Blank EXCEPT !.pc = "Counted", !.priority = p, !.token = t, !.delayed = d]
          IN  v.pc = "Counted" /\ v.answer = "None"
      BY DEF Blank
    <3>4. CASE full
      BY <3>1, <3>2, <3>4
    <3>5. CASE ~full
      BY <3>1, <3>3, <3>5
    <3> QED BY <3>4, <3>5
  <2>2. req[r].pc \in {"New", "Counted"} /\ UNCHANGED <<requests, exec, state, manager>>
    BY <1>2 DEF CountQueue
  <2>3. req'[r] = v /\ \A q \in Requests \ {r} : req'[q] = req[q]
    BY <1>0, <2>1
  <2> QED BY <2>1, <2>2, <2>3, AnswersOwn
<1>3. ASSUME NEW r \in Requests, RejectStopped(r) PROVE AnswersInv'
  <2> DEFINE v == Answered("ShuttingDown", "Submitted")
  <2>1. v.pc = "Submitted" /\ v.answer = "ShuttingDown"
    BY AnsweredFields
  <2>2. req' = [req EXCEPT ![r] = v] /\ req[r].pc = "Counted"
        /\ UNCHANGED <<requests, exec, state, manager>>
    BY <1>3 DEF RejectStopped
  <2> HIDE DEF v
  <2>3. req'[r] = v /\ \A q \in Requests \ {r} : req'[q] = req[q]
    BY <1>0, <2>2
  <2> QED BY <2>1, <2>2, <2>3, AnswersOwn
<1>4. ASSUME NEW r \in Requests, Admit(r) PROVE AnswersInv'
  <2> DEFINE v == [req[r] EXCEPT !.pc = "Admitted"]
  <2>1. v.pc = "Admitted" /\ v.answer = "None"
    BY <1>4, <1>p DEF Admit, AnswersInv, Open
  <2>2. req' = [req EXCEPT ![r] = v] /\ req[r].pc = "Counted" /\ state # "Stop"
        /\ UNCHANGED <<requests, exec, state, manager>>
    BY <1>4 DEF Admit
  <2> HIDE DEF v
  <2>3. req'[r] = v /\ \A q \in Requests \ {r} : req'[q] = req[q]
    BY <1>0, <2>2
  <2> QED BY <2>1, <2>2, <2>3, AnswersOwn
<1>5. ASSUME NEW r \in Requests, ExecuteSynchronously(r) PROVE AnswersInv'
  <2>1. PICK a \in Outcomes(r) : req' = [req EXCEPT ![r] = Answered(a, "Submitted")]
    BY <1>5 DEF ExecuteSynchronously
  <2>2. a # "None"
    BY DEF Outcomes
  <2>3. Answered(a, "Submitted").pc = "Submitted" /\ Answered(a, "Submitted").answer = a
    BY AnsweredFields
  <2>4. req[r].pc = "Counted" /\ UNCHANGED <<requests, exec, state, manager>>
    BY <1>5 DEF ExecuteSynchronously
  <2> DEFINE v == Answered(a, "Submitted")
  <2>5. req' = [req EXCEPT ![r] = v]
    BY <2>1
  <2>6. v.pc = "Submitted" /\ v.answer = a
    BY <2>3
  <2> HIDE DEF v
  <2>7. req'[r] = v /\ \A q \in Requests \ {r} : req'[q] = req[q]
    BY <1>0, <2>5
  <2> QED BY <2>2, <2>4, <2>6, <2>7, AnswersOwn
<1>6. ASSUME NEW r \in Requests, InsertSorted(r) PROVE AnswersInv'
  <2>0. req[r].pc = "Admitted" /\ state # "Stop" /\ ~Stopped /\ r \notin Waiting /\ ~Held(r) /\ Open(r)
    BY <1>6 DEF InsertSorted, AnswersInv, PlacesInv, Held, Stopped
  <2>1. FirstAnswered(r) = 0
    BY <1>0, <2>0, FirstAnsweredProperties DEF AnswersInv
  <2>2. UNCHANGED <<exec, state, manager>> /\ requests' = Sorted(r, Without(requests, ReplacedBy(r)))
    BY <1>6, <2>1 DEF InsertSorted
  <2>3. Waiting' = (Waiting \ ReplacedBy(r)) \cup {r}
    <3> DEFINE kept == Without(requests, ReplacedBy(r))
    <3>1. kept \in Seq(Requests) /\ ToSet(kept) = Waiting \ ReplacedBy(r)
      BY <1>0, WithoutProperties
    <3> HIDE DEF kept
    <3>2. ToSet(Sorted(r, kept)) = ToSet(kept) \cup {r}
      BY <3>1, SortedProperties
    <3> QED BY <2>2, <3>1, <3>2 DEF Waiting, kept
  <2>4. req'[r].pc = "Inserted" /\ req'[r].answer = "None"
    BY <1>6, <1>p, <2>0, <2>1, InsertSortedFields DEF Open
  <2>5. \A q \in Requests \ {r} : req'[q].pc = req[q].pc
    BY <1>6, InsertSortedFields
  <2>6. \A q \in ReplacedBy(r) : q \in Waiting
    BY <1>0, FirstAnsweredProperties
  <2>7. \A q \in Requests \ {r} : q \in ReplacedBy(r) => req'[q].answer = "Cancel"
    <3> SUFFICES ASSUME NEW q \in Requests \ {r}, q \in ReplacedBy(r) PROVE req'[q].answer = "Cancel"
      OBVIOUS
    <3>1. req'[q] = Answered("Cancel", req[q].pc)
      BY <1>6, InsertSortedFields
    <3> QED BY <3>1, AnsweredFields
  <2>8. \A q \in Requests \ {r} : q \notin ReplacedBy(r) => req'[q].answer = req[q].answer
    <3> SUFFICES ASSUME NEW q \in Requests \ {r}, q \notin ReplacedBy(r) PROVE req'[q].answer = req[q].answer
      OBVIOUS
    <3>1. req'[q] = req[q] \/ req'[q] = [req[q] EXCEPT !.cancelled = TRUE]
      BY <1>6, InsertSortedFields
    <3> QED BY <1>p, <3>1
  <2>9. \A q \in Requests : Held(q)' <=> Held(q)
    BY <2>2 DEF Held
  <2>10. ~Stopped'
    BY <2>0, <2>2 DEF Stopped
  <2>11. \A q \in Requests : Pending(q)' => q \in Waiting' \/ Held(q)'
    <3> SUFFICES ASSUME NEW q \in Requests \ {r}, Pending(q)' PROVE q \in Waiting' \/ Held(q)'
      BY <2>3
    <3>1. q \notin ReplacedBy(r) /\ Pending(q)
      BY <2>5, <2>7, <2>8 DEF Pending, Open
    <3> QED BY <2>3, <2>9, <3>1 DEF AnswersInv
  <2>12. \A q \in Requests : Held(q)' => Open(q)'
    <3> SUFFICES ASSUME NEW q \in Requests, Held(q) PROVE Open(q)'
      BY <2>9
    <3>1. q \notin Waiting /\ q # r
      BY <2>0 DEF Held, PlacesInv
    <3> QED BY <2>6, <2>8, <3>1 DEF AnswersInv, Open
  <2>13. \A q \in Waiting' : Open(q)'
    BY <1>0, <2>0, <2>3, <2>4, <2>8 DEF AnswersInv, Open
  <2>14. \A q \in Requests : req'[q].pc \in {"Counted", "Admitted"} => Open(q)'
    <3> SUFFICES ASSUME NEW q \in Requests, req'[q].pc \in {"Counted", "Admitted"} PROVE Open(q)'
      OBVIOUS
    <3>1. q # r /\ req[q].pc \in {"Counted", "Admitted"}
      BY <2>4, <2>5
    <3>2. q \notin ReplacedBy(r)
      BY <2>6, <3>1 DEF PlacesInv
    <3> QED BY <2>8, <3>1, <3>2 DEF AnswersInv, Open
  <2> QED BY <1>m, <2>0, <2>2, <2>10, <2>11, <2>12, <2>13, <2>14 DEF AnswersInv
<1>7. ASSUME NEW r \in Requests, NotifyOne(r) PROVE AnswersInv'
  <2>1. \A e \in Executors : exec'[e].req = exec[e].req
    BY <1>0, <1>7 DEF NotifyOne, Blocked
  <2>2. UNCHANGED <<requests, state, manager>> /\ req' = [req EXCEPT ![r].pc = "Submitted"]
        /\ req[r].pc = "Inserted"
    BY <1>7 DEF NotifyOne
  <2>3. req'[r].pc = "Submitted" /\ req'[r].answer = req[r].answer
        /\ \A q \in Requests \ {r} : req'[q] = req[q]
    BY <1>0, <1>p, <2>2
  <2> QED BY <1>w, <1>s, <1>m, <2>1, <2>2, <2>3, AnswersFrame
<1>8. ASSUME NEW r \in Requests, CancelRequest(r) PROVE AnswersInv'
  <2>1. CASE Open(r)
    <3>1. req' = Finish({r}, "Cancel") /\ requests' = Without(requests, {r}) /\ UNCHANGED <<exec, state, manager>>
          /\ r \in Waiting
      BY <1>8, <2>1 DEF CancelRequest
    <3>2. Waiting' = Waiting \ {r}
      BY <1>0, <3>1, WithoutProperties DEF Waiting
    <3>3. \A e \in Executors : exec[e].req # r
      BY <3>1 DEF PlacesInv
    <3> QED BY <3>1, <3>2, <3>3, AnswersRemoved DEF Answers
  <2>2. CASE ~Open(r)
    BY <1>8, <1>w, <1>s, <1>m, <2>2, AnswersFrame DEF CancelRequest
  <2> QED BY <2>1, <2>2
<1>9. ASSUME NEW r \in Requests, DelayEnds(r) \/ TimeExceeded(r) PROVE AnswersInv'
  <2>1. UNCHANGED <<exec, requests, state, manager>>
        /\ (req' = [req EXCEPT ![r].delayed = FALSE] \/ req' = [req EXCEPT ![r].late = TRUE])
    BY <1>9 DEF DelayEnds, TimeExceeded
  <2>2. \A q \in Requests : req'[q].pc = req[q].pc /\ req'[q].answer = req[q].answer
    BY <1>0, <1>p, <2>1
  <2> QED BY <1>w, <1>s, <1>m, <2>1, <2>2, AnswersFrame
<1>10. ASSUME NEW e \in Executors, WaitInQueue(e) \/ Exit(e) \/ GetConnection(e) \/ OpenFails(e)
       PROVE  AnswersInv'
  <2>1. UNCHANGED <<req, requests, state, manager>> /\ \A f \in Executors : exec'[f].req = exec[f].req
    BY <1>0, <1>10 DEF WaitInQueue, Exit, GetConnection, OpenFails
  <2> QED BY <1>w, <1>s, <1>m, <2>1, AnswersFrame
<1>11. ASSUME NEW e \in Executors, Dequeue(e) PROVE AnswersInv'
  <2> DEFINE r == Last(requests)
             rest == Front(requests)
  <2>0. state = "Running" /\ ~Stopped /\ UNCHANGED <<state, manager>> /\ ~Stopped'
    BY <1>11 DEF Dequeue, Stopped
  <2>1. /\ r \in Requests /\ rest \in Seq(Requests) /\ Waiting = ToSet(rest) \cup {r}
        /\ r \notin ToSet(rest)
    BY <1>0, <1>11, FrontProperties DEF Dequeue, Waiting, PlacesInv
  <2>2. \A q \in Requests : req'[q].pc = req[q].pc /\ req'[q].answer = req[q].answer
    <3>1. UNCHANGED req \/ req' = [req EXCEPT ![r].late = FALSE]
      BY <1>11 DEF Dequeue
    <3>2. r \in Requests
      BY <2>1
    <3> HIDE DEF r, rest
    <3>3. \A q \in Requests : req'[q] = req[q] \/ req'[q] = [req[q] EXCEPT !.late = FALSE]
      <4>1. CASE UNCHANGED req
        BY <4>1
      <4>2. CASE req' = [req EXCEPT ![r].late = FALSE]
        BY <1>0, <3>2, <4>2
      <4> QED BY <3>1, <4>1, <4>2
    <3> QED BY <1>p, <3>3
  <2>3. \/ requests' = rest /\ exec' = [exec EXCEPT ![e] = [pc |-> "Taken", req |-> r]]
           /\ exec[e].pc = "Loop"
        \/ requests' = PutBack(r, rest) /\ UNCHANGED exec
    BY <1>11 DEF Dequeue
  <2> HIDE DEF r, rest
  <2>4. CASE requests' = PutBack(r, rest) /\ UNCHANGED exec
    <3>1. Waiting' = Waiting
      BY <2>1, <2>4, PutBackProperties DEF Waiting
    <3> QED BY <1>m, <1>s, <2>0, <2>2, <2>4, <3>1, AnswersFrame
  <2>5. CASE requests' = rest /\ exec' = [exec EXCEPT ![e] = [pc |-> "Taken", req |-> r]]
             /\ exec[e].pc = "Loop"
    <3>1. Waiting' = Waiting \ {r} /\ r \in Waiting
      BY <2>1, <2>5 DEF Waiting
    <3>2. \A q \in Requests : Held(q)' <=> Held(q) \/ q = r
      <4>1. exec'[e].req = r /\ (\A f \in Executors \ {e} : exec'[f].req = exec[f].req)
            /\ exec[e].req \notin Requests
        BY <1>0, <2>5
      <4> QED BY <4>1 DEF Held
    <3>3. \A q \in Requests : (Pending(q)' <=> Pending(q)) /\ (Open(q)' <=> Open(q))
      BY <2>2 DEF Pending, Open
    <3>4. Open(r)
      BY <2>0, <3>1 DEF AnswersInv
    <3>5. \A q \in Requests : Pending(q)' => q \in Waiting' \/ Held(q)'
      BY <3>1, <3>2, <3>3 DEF AnswersInv
    <3>6. \A q \in Requests : Held(q)' => Open(q)'
      BY <3>2, <3>3, <3>4 DEF AnswersInv
    <3>7. \A q \in Waiting' : Open(q)' <=> ~Stopped'
      BY <1>0, <2>0, <3>1, <3>3 DEF AnswersInv
    <3> QED BY <1>m, <2>0, <2>2, <3>3, <3>5, <3>6, <3>7 DEF AnswersInv
  <2> QED BY <2>3, <2>4, <2>5
<1>12. ASSUME NEW e \in Executors, Execute(e) PROVE AnswersInv'
  <2> DEFINE r == exec[e].req
  <2>1. PICK a \in Outcomes(r) : req' = Finish({r}, a)
    BY <1>12 DEF Execute
  <2>2. a \in Answers \ {"None"}
    BY DEF Outcomes, Answers
  <2>3. r \in Requests /\ r \notin Waiting /\ Held(r)
    BY <1>0, <1>12 DEF Execute, PlacesInv, Held
  <2>4. exec' = [exec EXCEPT ![e] = [pc |-> "Loop", req |-> NoRequest]]
        /\ UNCHANGED <<requests, state, manager>>
    BY <1>12 DEF Execute
  <2>5. \A f \in Executors \ {e} : exec[f].req # r
    BY <2>3 DEF PlacesInv
  <2>6. \A f \in Executors : exec'[f].req = IF exec[f].req \in {r} THEN NoRequest ELSE exec[f].req
    BY <1>0, <2>4, <2>5
  <2>7. Waiting' = Waiting \ {r}
    BY <1>w, <2>3, <2>4
  <2> HIDE DEF r
  <2> QED BY <2>1, <2>2, <2>3, <2>4, <2>6, <2>7, AnswersRemoved
<1>13. CASE RemoveTimedOut
  <2>0. TimedOut \subseteq Waiting
    BY DEF TimedOut
  <2>1. CASE ScanThrows
    BY <1>13, <1>w, <1>s, <1>m, <2>1, AnswersFrame DEF RemoveTimedOut
  <2>2. CASE ~ScanThrows
    <3>1. req' = Finish(TimedOut, "Timeout") /\ requests' = Without(requests, TimedOut)
          /\ UNCHANGED <<exec, state, manager>>
      BY <1>13, <2>2 DEF RemoveTimedOut
    <3>2. Waiting' = Waiting \ TimedOut
      BY <1>0, <3>1, WithoutProperties DEF Waiting
    <3>3. \A e \in Executors : exec[e].req \notin TimedOut
      BY <2>0 DEF PlacesInv
    <3> QED BY <2>0, <3>1, <3>2, <3>3, AnswersRemoved DEF Answers
  <2> QED BY <2>1, <2>2
<1>14. CASE StayUp \/ WakeMonitor
  BY <1>14, <1>w, <1>s, <1>m, AnswersFrame DEF StayUp, WakeMonitor
<1>15. CASE Shutdown \/ BeginStop \/ JoinMonitor
  <2>1. UNCHANGED <<req, requests, exec>>
    BY <1>15 DEF Shutdown, BeginStop, JoinMonitor
  <2>2. (Stopped' <=> Stopped) /\ (state' = "Stop" => state = "Stop" \/ Callers = {})
        /\ (manager' \notin {"Live", "Dropped"} => state' = "Stop")
    BY <1>15, <1>m DEF Shutdown, BeginStop, JoinMonitor, Stopped
  <2>3. \A r \in Requests : Callers = {} => req[r].pc # "Admitted"
    BY DEF Callers, Inside
  <2> QED BY <1>w, <2>1, <2>2, <2>3, AnswersFrame
<1>16. CASE ShutdownWhenIdle
  <2>1. UNCHANGED <<req, requests, manager>> /\ state' = "Stop" /\ requests = <<>> /\ NotifyAll
        /\ \A r \in Requests : req[r].pc # "Admitted"
    BY <1>16 DEF ShutdownWhenIdle
  <2>2. Waiting = {}
    BY <2>1 DEF Waiting, ToSet
  <2>3. \A e \in Executors : exec'[e].req = exec[e].req
    BY <2>1, NotifyAllHolds
  <2> QED BY <1>w, <2>1, <2>2, <2>3, AnswersFrame
<1>17. CASE StopRequests
  <2>1. UNCHANGED <<requests, state>> /\ manager' = "Stopped" /\ manager = "Stopping" /\ NotifyAll
        /\ req' = SetResponse(Waiting, "ShuttingDown")
    BY <1>17 DEF StopRequests
  <2>2. \A e \in Executors : exec'[e].req = exec[e].req
    BY <2>1, NotifyAllHolds
  <2>3. \A r \in Requests : req'[r].pc = req[r].pc
    BY <2>1, SetResponseFields
  <2>4. \A r \in Waiting : req'[r].answer = "ShuttingDown"
    BY <1>0, <2>1, SetResponseFields
  <2>5. \A r \in Requests : r \notin Waiting => req'[r] = req[r]
    BY <2>1, SetResponseFields
  <2>6. Waiting' = Waiting /\ state = "Stop" /\ Stopped'
    BY <1>w, <1>m, <2>1 DEF Stopped
  <2>7. \A r \in Requests : Held(r)' <=> Held(r)
    BY <2>2 DEF Held
  <2>8. \A r \in Requests : Pending(r)' => r \in Waiting' \/ Held(r)'
    BY <2>5, <2>6, <2>7 DEF AnswersInv, Pending, Open
  <2>9. \A r \in Requests : Held(r)' => Open(r)'
    <3> SUFFICES ASSUME NEW r \in Requests, Held(r) PROVE Open(r)'
      BY <2>7
    <3>1. r \notin Waiting
      BY DEF Held, PlacesInv
    <3> QED BY <2>5, <3>1 DEF AnswersInv, Open
  <2>10. \A r \in Waiting' : Open(r)' <=> ~Stopped'
    BY <2>4, <2>6 DEF Open
  <2>11. \A r \in Requests : req'[r].pc \in {"Counted", "Admitted"} => Open(r)'
    <3> SUFFICES ASSUME NEW r \in Requests, req[r].pc \in {"Counted", "Admitted"} PROVE Open(r)'
      BY <2>3
    <3>1. r \notin Waiting
      BY DEF PlacesInv
    <3> QED BY <2>5, <3>1 DEF AnswersInv, Open
  <2> QED BY <2>1, <2>3, <2>6, <2>8, <2>9, <2>10, <2>11 DEF AnswersInv
<1>18. CASE JoinExecutors
  <2>1. requests' = <<>> /\ UNCHANGED <<req, exec, state>> /\ manager' = "Gone"
        /\ manager = "Joining" /\ \A e \in Executors : exec[e].pc = "Exited"
    BY <1>18 DEF JoinExecutors
  <2>2. Waiting' = {} /\ Stopped /\ state = "Stop"
    BY <1>m, <2>1 DEF Waiting, ToSet, Stopped
  <2>3. \A r \in Requests : ~Held(r) /\ ~Held(r)'
    <3>1. \A e \in Executors : exec[e].req \notin Requests
      BY <1>0, <2>1
    <3> QED BY <2>1, <3>1 DEF Held
  <2>4. \A r \in Requests : ~Pending(r)
    BY <2>2, <2>3 DEF AnswersInv, Pending
  <2>5. \A r \in Requests : ~Pending(r)' /\ (Open(r)' <=> Open(r))
    BY <2>1, <2>4 DEF Pending, Open
  <2> QED BY <2>1, <2>2, <2>3, <2>5 DEF AnswersInv
<1>19. CASE Ended
  BY <1>1, <1>19 DEF Ended
<1> QED BY <1>1, <1>2, <1>3, <1>4, <1>5, <1>6, <1>7, <1>8, <1>9, <1>10, <1>11, <1>12, <1>13,
           <1>14, <1>15, <1>16, <1>17, <1>18, <1>19 DEF Next, Caller, Executor, Monitor, Destroy

LEMMA PlacesGiveHeldInOnePlace == TypeInv /\ PlacesInv /\ AnswersInv => HeldInOnePlace
<1> SUFFICES ASSUME TypeInv, PlacesInv, AnswersInv, NEW r \in Requests
             PROVE  LET places == {i \in DOMAIN requests : requests[i] = r}
                                     \cup {e \in Executors : exec[e].req = r}
                    IN  /\ Pending(r) => Cardinality(places) = 1
                        /\ ~Open(r) /\ ~Stopped => places = {}
  BY DEF HeldInOnePlace, Pending
<1> DEFINE inQueue == {i \in DOMAIN requests : requests[i] = r}
           atExecutor == {e \in Executors : exec[e].req = r}
<1>1. r \in Waiting <=> inQueue # {}
  BY DEF Waiting, ToSet
<1>2. Held(r) <=> atExecutor # {}
  BY DEF Held
<1>3. ~(r \in Waiting /\ Held(r))
  BY DEF PlacesInv, Held
<1>4. \A i, j \in inQueue : i = j
  BY DEF PlacesInv, NoRepeats
<1>5. \A e, f \in atExecutor : e = f
  BY DEF PlacesInv
<1> HIDE DEF inQueue, atExecutor
<1>6. ASSUME Pending(r) PROVE Cardinality(inQueue \cup atExecutor) = 1
  <2>1. \E x : inQueue \cup atExecutor = {x}
    <3>1. CASE r \in Waiting
      <4>1. PICK i : i \in inQueue
        BY <1>1, <3>1
      <4>2. inQueue = {i} /\ atExecutor = {}
        BY <1>2, <1>3, <1>4, <3>1, <4>1
      <4> QED BY <4>2
    <3>2. CASE Held(r)
      <4>1. PICK e : e \in atExecutor
        BY <1>2, <3>2
      <4>2. atExecutor = {e} /\ inQueue = {}
        BY <1>1, <1>3, <1>5, <3>2, <4>1
      <4> QED BY <4>2
    <3> QED BY <1>6, <3>1, <3>2 DEF AnswersInv
  <2> QED BY <2>1, FS_Singleton
<1>7. ASSUME ~Open(r), ~Stopped PROVE inQueue \cup atExecutor = {}
  BY <1>1, <1>2, <1>7 DEF AnswersInv
<1> QED BY <1>6, <1>7 DEF inQueue, atExecutor

(* HeldInOnePlace is an invariant, if no idle manager stops while a caller *)
(* has been admitted: no interleaving of callers, executors, the monitor   *)
(* and the destruction of the manager loses a request without an answer,   *)
(* or keeps an answered one where it could be answered again.              *)
THEOREM RequestsInOnePlace ==
    ASSUME "LateInsert" \notin Mishaps PROVE SafetySpec => []HeldInOnePlace
<1> DEFINE Inv == TypeInv /\ PlacesInv /\ AnswersInv
<1>1. Init => Inv
  BY TypeInit, PlacesInit, AnswersInit
<1>2. Inv /\ [Next]_vars => Inv'
  BY TypeStep, PlacesStep, AnswersStep
<1>3. Inv => HeldInOnePlace
  BY PlacesGiveHeldInOnePlace
<1> QED BY <1>1, <1>2, <1>3, PTL DEF SafetySpec

-------------------------------------------------------------------------------
(***************************************************************************)
(* No second answer, however late the callers come, if no request Stop     *)
(* answers is late or cancelled: the answered requests in the queue are    *)
(* then out of the reach of the monitor, and nobody is within Enqueue.     *)
(***************************************************************************)
OnceInv ==
    /\ AnsweredOnce
    /\ \A r \in Waiting : ~Open(r) =>
          manager \in {"Stopped", "Joining", "Gone"} /\ ~req[r].late
    /\ manager \notin {"Live", "Dropped"} => Callers = {}
    /\ \A r \in Requests : req[r].pc \in {"Counted", "Admitted"} => Open(r)

LEMMA OnceInit == Init => OnceInv
BY DEF Init, OnceInv, AnsweredOnce, Waiting, ToSet, Blank, Open

(* A step that inserts no request, and does not answer one that waits.     *)
LEMMA OnceFrame ==
    ASSUME TypeInv, OnceInv, UNCHANGED thrown, Waiting' \subseteq Waiting,
           \A r \in Waiting' : (Open(r)' <=> Open(r)) /\ (~Open(r) => req'[r].late = req[r].late),
           \A r \in Requests : req'[r].pc \in Inside => req[r].pc \in Inside,
           \A r \in Requests : req'[r].pc \in {"Counted", "Admitted"} =>
               req[r].pc \in {"Counted", "Admitted"} /\ Open(r)',
           UNCHANGED manager
    PROVE  OnceInv'
<1>1. manager' \notin {"Live", "Dropped"} => Callers' = {}
  BY DEF OnceInv, Callers
<1> QED BY <1>1 DEF OnceInv, AnsweredOnce

(* The field a step changes is the only one that differs.                  *)
LEMMA OtherFields ==
    ASSUME TypeInv
    PROVE  \A q \in Requests :
              /\ LET v == [req[q] EXCEPT !.delayed = FALSE]
                 IN  v.pc = req[q].pc /\ v.answer = req[q].answer /\ v.late = req[q].late
                     /\ v.token = req[q].token /\ v.priority = req[q].priority
              /\ LET v == [req[q] EXCEPT !.late = TRUE]
                 IN  v.pc = req[q].pc /\ v.answer = req[q].answer
                     /\ v.token = req[q].token /\ v.priority = req[q].priority
              /\ LET v == [req[q] EXCEPT !.late = FALSE]
                 IN  v.pc = req[q].pc /\ v.answer = req[q].answer
                     /\ v.token = req[q].token /\ v.priority = req[q].priority
              /\ LET v == [req[q] EXCEPT !.cancelled = TRUE]
                 IN  v.pc = req[q].pc /\ v.answer = req[q].answer /\ v.late = req[q].late
                     /\ v.token = req[q].token /\ v.priority = req[q].priority
              /\ LET v == [req[q] EXCEPT !.pc = "Submitted"]
                 IN  v.pc = "Submitted" /\ v.answer = req[q].answer /\ v.late = req[q].late
                     /\ v.token = req[q].token /\ v.priority = req[q].priority
              /\ LET v == [req[q] EXCEPT !.pc = "Inserted"]
                 IN  v.pc = "Inserted" /\ v.answer = req[q].answer /\ v.late = req[q].late
                     /\ v.token = req[q].token /\ v.priority = req[q].priority
              /\ LET v == [req[q] EXCEPT !.pc = "Admitted"]
                 IN  v.pc = "Admitted" /\ v.answer = req[q].answer /\ v.late = req[q].late
                     /\ v.token = req[q].token /\ v.priority = req[q].priority
BY TypeFacts DEF RequestRecord

LEMMA OnceStep ==
    "LateAtStop" \notin Mishaps /\ "CancelAfterStop" \notin Mishaps =>
        (TypeInv /\ TypeInv' /\ PlacesInv /\ OnceInv /\ [Next]_vars => OnceInv')
<1> SUFFICES ASSUME "LateAtStop" \notin Mishaps, "CancelAfterStop" \notin Mishaps,
                    TypeInv, TypeInv', PlacesInv, OnceInv, [Next]_vars
             PROVE  OnceInv'
  OBVIOUS
<1>0. /\ req \in [Requests -> RequestRecord] /\ requests \in Seq(Requests)
      /\ Waiting \subseteq Requests
      /\ exec \in [Executors -> [pc : {"Loop", "Blocked", "Taken", "Running", "Exited"},
                                 req : Requests \cup {NoRequest}]]
      /\ \A e \in Executors : exec[e].req \in Requests <=> exec[e].pc \in {"Taken", "Running"}
  BY TypeFacts
<1>w. UNCHANGED requests => Waiting' = Waiting
  BY DEF Waiting
<1>p. \A r \in Waiting : req[r].pc \notin {"New", "Counted", "Admitted"}
  BY DEF PlacesInv
<1>o. \A r \in Requests : req[r].pc \in {"Counted", "Admitted"} => Open(r)
  BY DEF OnceInv
<1>f. ASSUME UNCHANGED <<thrown, manager>>, Waiting' \subseteq Waiting,
             \A r \in Waiting' : req'[r].answer = req[r].answer
                                 /\ (~Open(r) => req'[r].late = req[r].late),
             \A r \in Requests : req'[r].pc \in Inside => req[r].pc \in Inside,
             \A r \in Requests : req'[r].pc \in {"Counted", "Admitted"} =>
                 req[r].pc \in {"Counted", "Admitted"} /\ Open(r)'
      PROVE  OnceInv'
  BY <1>f, OnceFrame DEF Open
<1>1. CASE UNCHANGED vars
  BY <1>1, <1>0, <1>w, <1>o, <1>f DEF vars, Open
<1>2. ASSUME NEW r \in Requests, CountQueue(r) PROVE OnceInv'
  <2>1. PICK v : req' = [req EXCEPT ![r] = v] /\ (v.pc = "Counted" => v.answer = "None")
                 /\ v.pc # "Admitted"
    <3>1. PICK p \in Priorities, t \in Tokens \cup {NoToken}, d \in Delays, full \in SeemsFull(r) :
             req' = [req EXCEPT ![r] =
                       IF full THEN Answered("QueueFull", "Submitted")
                       ELSE [Blank EXCEPT !.pc = "Counted", !.priority = p,
                                          !.token = t, !.delayed = d]]
      BY <1>2 DEF CountQueue
    <3>2. LET v == Answered("QueueFull", "Submitted") IN v.pc = "Submitted"
      BY AnsweredFields
    <3>3. LET v == [Blank EXCEPT !.pc = "Counted", !.priority = p, !.token = t, !.delayed = d]
          IN  v.pc = "Counted" /\ v.answer = "None"
      BY DEF Blank
    <3>4. CASE full
      BY <3>1, <3>2, <3>4
    <3>5. CASE ~full
      BY <3>1, <3>3, <3>5
    <3> QED BY <3>4, <3>5
  <2>2. UNCHANGED <<requests, thrown, manager>> /\ manager = "Live" /\ req[r].pc = "New"
    BY <1>2 DEF CountQueue
  <2>3. req'[r] = v /\ \A q \in Requests \ {r} : req'[q] = req[q]
    BY <1>0, <2>1
  <2>4. \A q \in Requests : req'[q].pc \in {"Counted", "Admitted"} => Open(q)'
    BY <1>o, <2>1, <2>3 DEF Open
  <2>5. \A q \in Waiting' : q \in Waiting /\ req'[q] = req[q] /\ q \in Requests
    BY <1>0, <1>w, <1>p, <2>2, <2>3
  <2>6. \A q \in Waiting' : Open(q)'
    BY <2>2, <2>5 DEF OnceInv, Open
  <2> QED BY <2>2, <2>4, <2>6 DEF OnceInv, AnsweredOnce
<1>3. ASSUME NEW r \in Requests, RejectStopped(r) \/ Admit(r) \/ ExecuteSynchronously(r) PROVE OnceInv'
  <2>1. req[r].pc = "Counted" /\ UNCHANGED <<requests, thrown, manager>>
        /\ (\/ \E a : req' = [req EXCEPT ![r] = Answered(a, "Submitted")]
            \/ req' = [req EXCEPT ![r] = [req[r] EXCEPT !.pc = "Admitted"]])
    BY <1>3 DEF RejectStopped, Admit, ExecuteSynchronously
  <2>2. \A q \in Requests \ {r} : req'[q] = req[q]
    BY <1>0, <2>1
  <2>3. req'[r].pc = "Submitted" \/ (req'[r].pc = "Admitted" /\ req'[r].answer = req[r].answer)
    <3>1. ASSUME NEW a, req' = [req EXCEPT ![r] = Answered(a, "Submitted")]
          PROVE  req'[r].pc = "Submitted"
      <4>1. req'[r] = Answered(a, "Submitted")
        BY <1>0, <3>1
      <4> QED BY <4>1, AnsweredFields
    <3>2. CASE req' = [req EXCEPT ![r] = [req[r] EXCEPT !.pc = "Admitted"]]
      <4>1. req'[r] = [req[r] EXCEPT !.pc = "Admitted"]
        BY <1>0, <3>2
      <4> QED BY <4>1, OtherFields
    <3> QED BY <2>1, <3>1, <3>2
  <2>4. \A q \in Waiting' : q \in Waiting /\ req'[q] = req[q]
    BY <1>0, <1>w, <1>p, <2>1, <2>2
  <2>5. \A q \in Requests : req'[q].pc \in {"Counted", "Admitted"} =>
            req[q].pc \in {"Counted", "Admitted"} /\ Open(q)'
    BY <1>o, <2>1, <2>2, <2>3 DEF Open
  <2>6. \A q \in Requests : req'[q].pc \in Inside => req[q].pc \in Inside
    BY <2>1, <2>2, <2>3 DEF Inside
  <2> QED BY <1>f, <1>w, <2>1, <2>4, <2>5, <2>6
<1>4. ASSUME NEW r \in Requests, InsertSorted(r) PROVE OnceInv'
  <2>0. req[r].pc = "Admitted" /\ r \notin Waiting /\ Open(r) /\ manager \in {"Live", "Dropped"}
    <3>1. req[r].pc = "Admitted" /\ r \in Callers
      BY <1>4 DEF InsertSorted, Callers, Inside
    <3> QED BY <3>1, <1>p, <1>o DEF OnceInv, TypeInv, QueueTypeOK
  <2>1. FirstAnswered(r) = 0
    BY <1>0, <2>0, FirstAnsweredProperties DEF OnceInv
  <2>2. UNCHANGED <<thrown, manager>> /\ requests' = Sorted(r, Without(requests, ReplacedBy(r)))
    BY <1>4, <2>1 DEF InsertSorted
  <2>3. Waiting' = (Waiting \ ReplacedBy(r)) \cup {r}
    <3> DEFINE kept == Without(requests, ReplacedBy(r))
    <3>1. kept \in Seq(Requests) /\ ToSet(kept) = Waiting \ ReplacedBy(r)
      BY <1>0, WithoutProperties
    <3> HIDE DEF kept
    <3>2. ToSet(Sorted(r, kept)) = ToSet(kept) \cup {r}
      BY <3>1, SortedProperties
    <3> QED BY <2>2, <3>1, <3>2 DEF Waiting, kept
  <2>4. req'[r].pc = "Inserted" /\ req'[r].answer = "None"
    <3>1. req'[r] = [req[r] EXCEPT !.pc = "Inserted"]
      BY <1>4, <2>1, InsertSortedFields
    <3> QED BY <2>0, <3>1, OtherFields DEF Open
  <2>5. \A q \in Requests \ {r} : req'[q].pc = req[q].pc
    BY <1>4, InsertSortedFields
  <2>6. \A q \in Requests \ {r} : q \notin ReplacedBy(r) => req'[q].answer = req[q].answer
    <3> SUFFICES ASSUME NEW q \in Requests \ {r}, q \notin ReplacedBy(r) PROVE req'[q].answer = req[q].answer
      OBVIOUS
    <3>1. req'[q] = req[q] \/ req'[q] = [req[q] EXCEPT !.cancelled = TRUE]
      BY <1>4, InsertSortedFields
    <3> QED BY <3>1, OtherFields
  <2>7. \A q \in Waiting' : Open(q)'
    <3>1. \A q \in Waiting : Open(q)
      BY <2>0 DEF OnceInv
    <3> QED BY <1>0, <2>3, <2>4, <2>6, <3>1 DEF Open
  <2>8. \A q \in Requests : req'[q].pc \in {"Counted", "Admitted"} => Open(q)'
    <3> SUFFICES ASSUME NEW q \in Requests, req'[q].pc \in {"Counted", "Admitted"} PROVE Open(q)'
      OBVIOUS
    <3>1. q # r /\ req[q].pc \in {"Counted", "Admitted"}
      BY <2>4, <2>5
    <3>2. q \notin ReplacedBy(r)
      BY <1>0, <1>p, <3>1, FirstAnsweredProperties
    <3> QED BY <1>o, <2>6, <3>1, <3>2 DEF Open
  <2> QED BY <2>0, <2>2, <2>7, <2>8 DEF OnceInv, AnsweredOnce
<1>5. ASSUME NEW r \in Requests, NotifyOne(r) PROVE OnceInv'
  <2>1. UNCHANGED <<requests, manager, thrown>> /\ req[r].pc = "Inserted"
        /\ req' = [req EXCEPT ![r] = [req[r] EXCEPT !.pc = "Submitted"]]
    BY <1>5 DEF NotifyOne
  <2>2. \A q \in Requests \ {r} : req'[q] = req[q]
    BY <1>0, <2>1
  <2>3. req'[r].pc = "Submitted" /\ req'[r].answer = req[r].answer /\ req'[r].late = req[r].late
    <3>1. req'[r] = [req[r] EXCEPT !.pc = "Submitted"]
      BY <1>0, <2>1
    <3> QED BY <3>1, OtherFields
  <2>4. \A q \in Requests : /\ req'[q].pc \in {"Counted", "Admitted"} =>
                                req[q].pc \in {"Counted", "Admitted"} /\ Open(q)'
                            /\ req'[q].pc \in Inside => req[q].pc \in Inside
    BY <1>o, <2>1, <2>2, <2>3 DEF Inside, Open
  <2> QED BY <1>0, <1>f, <1>w, <2>1, <2>2, <2>3, <2>4
<1>6. ASSUME NEW r \in Requests, CancelRequest(r) PROVE OnceInv'
  <2>1. Open(r) /\ r \in Waiting /\ UNCHANGED <<thrown, manager>>
        /\ req' = Finish({r}, "Cancel") /\ requests' = Without(requests, {r})
    BY <1>6 DEF CancelRequest
  <2>2. Waiting' = Waiting \ {r}
    BY <1>0, <2>1, WithoutProperties DEF Waiting
  <2>3. \A q \in Requests : req'[q].pc = req[q].pc /\ (q # r => req'[q] = req[q])
    BY <2>1, FinishFields
  <2>4. \A q \in Requests : req'[q].pc \in {"Counted", "Admitted"} =>
            req[q].pc \in {"Counted", "Admitted"} /\ Open(q)'
    BY <1>o, <1>p, <2>1, <2>3 DEF Open
  <2> QED BY <1>0, <1>f, <2>1, <2>2, <2>3, <2>4
<1>7. ASSUME NEW r \in Requests, DelayEnds(r) \/ TimeExceeded(r) PROVE OnceInv'
  <2>1. UNCHANGED <<requests, manager, thrown>>
        /\ (\/ req' = [req EXCEPT ![r] = [req[r] EXCEPT !.delayed = FALSE]]
            \/ req' = [req EXCEPT ![r] = [req[r] EXCEPT !.late = TRUE]] /\ Open(r))
    BY <1>7 DEF DelayEnds, TimeExceeded
  <2>2. \A q \in Requests \ {r} : req'[q] = req[q]
    BY <1>0, <2>1
  <2>3. req'[r].pc = req[r].pc /\ req'[r].answer = req[r].answer
        /\ (~Open(r) => req'[r].late = req[r].late)
    <3>1. \/ req'[r] = [req[r] EXCEPT !.delayed = FALSE]
          \/ req'[r] = [req[r] EXCEPT !.late = TRUE] /\ Open(r)
      BY <1>0, <2>1
    <3>2. CASE req'[r] = [req[r] EXCEPT !.delayed = FALSE]
      BY <3>2, OtherFields
    <3>3. CASE req'[r] = [req[r] EXCEPT !.late = TRUE] /\ Open(r)
      BY <3>3, OtherFields
    <3> QED BY <3>1, <3>2, <3>3
  <2>4. \A q \in Requests : /\ req'[q].pc \in {"Counted", "Admitted"} =>
                                req[q].pc \in {"Counted", "Admitted"} /\ Open(q)'
                            /\ req'[q].pc \in Inside => req[q].pc \in Inside
    BY <1>o, <2>1, <2>2, <2>3 DEF Inside, Open
  <2> QED BY <1>0, <1>f, <1>w, <2>1, <2>2, <2>3, <2>4
<1>8. ASSUME NEW e \in Executors, WaitInQueue(e) \/ Exit(e) \/ GetConnection(e) \/ OpenFails(e)
      PROVE  OnceInv'
  BY <1>8, <1>0, <1>w, <1>o, <1>f DEF WaitInQueue, Exit, GetConnection, OpenFails, Open
<1>9. ASSUME NEW e \in Executors, Dequeue(e) PROVE OnceInv'
  <2> DEFINE r == Last(requests)
             rest == Front(requests)
  <2>1. r \in Requests /\ rest \in Seq(Requests) /\ Waiting = ToSet(rest) \cup {r}
        /\ r \notin ToSet(rest)
    BY <1>0, <1>9, FrontProperties DEF Dequeue, Waiting, PlacesInv
  <2>2. UNCHANGED <<thrown, manager>>
        /\ (\/ requests' = rest /\ req' = [req EXCEPT ![r] = [req[r] EXCEPT !.late = FALSE]]
            \/ requests' = PutBack(r, rest) /\ UNCHANGED req)
    BY <1>9 DEF Dequeue
  <2> HIDE DEF r, rest
  <2>3. CASE requests' = PutBack(r, rest) /\ UNCHANGED req
    <3>1. Waiting' = Waiting
      BY <2>1, <2>3, PutBackProperties DEF Waiting
    <3> QED BY <1>0, <1>f, <1>o, <2>2, <2>3, <3>1 DEF Open
  <2>4. CASE requests' = rest /\ req' = [req EXCEPT ![r] = [req[r] EXCEPT !.late = FALSE]]
    <3>1. Waiting' \subseteq Waiting /\ r \notin Waiting'
      BY <2>1, <2>4 DEF Waiting
    <3>2. (\A q \in Requests \ {r} : req'[q] = req[q]) /\ req'[r] = [req[r] EXCEPT !.late = FALSE]
      BY <1>0, <2>1, <2>4
    <3>3. req'[r].pc = req[r].pc /\ req'[r].answer = req[r].answer
      BY <2>1, <3>2, OtherFields
    <3>4. \A q \in Requests : /\ req'[q].pc \in {"Counted", "Admitted"} =>
                                  req[q].pc \in {"Counted", "Admitted"} /\ Open(q)'
                              /\ req'[q].pc \in Inside => req[q].pc \in Inside
      BY <1>o, <3>2, <3>3 DEF Open
    <3> QED BY <1>0, <1>f, <2>2, <3>1, <3>2, <3>4
  <2> QED BY <2>2, <2>3, <2>4
<1>10. ASSUME NEW e \in Executors, Execute(e) PROVE OnceInv'
  <2> DEFINE r == exec[e].req
  <2>1. PICK a : req' = Finish({r}, a) /\ UNCHANGED <<requests, thrown, manager>>
    BY <1>10 DEF Execute
  <2>2. r \in Requests /\ r \notin Waiting /\ req[r].pc \in {"Inserted", "Submitted"}
    BY <1>0, <1>10 DEF Execute, PlacesInv
  <2> HIDE DEF r
  <2>3. \A q \in Requests : req'[q].pc = req[q].pc /\ (q # r => req'[q] = req[q])
    BY <2>1, FinishFields
  <2>4. \A q \in Requests : req'[q].pc \in {"Counted", "Admitted"} =>
            req[q].pc \in {"Counted", "Admitted"} /\ Open(q)'
    BY <1>o, <2>2, <2>3 DEF Open
  <2>5. \A q \in Waiting' : q \in Waiting /\ req'[q] = req[q]
    <3>1. Waiting' = Waiting
      BY <1>w, <2>1
    <3>2. \A q \in Waiting : q \in Requests /\ q # r
      BY <1>0, <2>2
    <3> QED BY <2>3, <3>1, <3>2
  <2>6. \A q \in Requests : req'[q].pc \in Inside => req[q].pc \in Inside
    BY <2>3
  <2> QED BY <1>f, <2>1, <2>4, <2>5, <2>6
<1>11. CASE RemoveTimedOut
  <2>1. ~ScanThrows /\ TimedOut \subseteq Waiting
    BY DEF ScanThrows, TimedOut, OnceInv
  <2>2. req' = Finish(TimedOut, "Timeout") /\ requests' = Without(requests, TimedOut)
        /\ UNCHANGED <<thrown, manager>>
    BY <1>11, <2>1 DEF RemoveTimedOut
  <2>3. Waiting' = Waiting \ TimedOut
    BY <1>0, <2>2, WithoutProperties DEF Waiting
  <2>4. \A q \in Requests : req'[q].pc = req[q].pc /\ (q \notin TimedOut => req'[q] = req[q])
    BY <2>2, FinishFields
  <2>5. \A q \in Requests : req'[q].pc \in {"Counted", "Admitted"} =>
            req[q].pc \in {"Counted", "Admitted"} /\ Open(q)'
    BY <1>o, <1>p, <2>1, <2>4 DEF Open
  <2> QED BY <1>0, <1>f, <2>2, <2>3, <2>4, <2>5
<1>12. CASE StayUp \/ WakeMonitor \/ ShutdownWhenIdle
  BY <1>12, <1>0, <1>w, <1>o, <1>f DEF StayUp, WakeMonitor, ShutdownWhenIdle, Open
<1>13. CASE Shutdown \/ BeginStop \/ JoinMonitor \/ JoinExecutors
  <2>1. UNCHANGED <<req, thrown>> /\ Waiting' \subseteq Waiting
        /\ (manager \in {"Stopped", "Joining", "Gone"} => manager' \in {"Stopped", "Joining", "Gone"})
        /\ (manager' \notin {"Live", "Dropped"} => Callers = {})
    BY <1>13, <1>w DEF Shutdown, BeginStop, JoinMonitor, JoinExecutors, OnceInv, Waiting, ToSet
  <2>2. Callers' = Callers
    BY <2>1 DEF Callers
  <2> QED BY <1>0, <1>o, <2>1, <2>2 DEF OnceInv, AnsweredOnce, Open
<1>14. CASE StopRequests
  <2>1. UNCHANGED <<requests, thrown>> /\ manager' = "Stopped" /\ manager = "Stopping" /\ TimedOut = {}
        /\ req' = SetResponse(Waiting, "ShuttingDown")
    BY <1>14 DEF StopRequests
  <2>2. \A q \in Requests : req'[q].pc = req[q].pc /\ req'[q].late = req[q].late
                            /\ (q \notin Waiting => req'[q] = req[q])
    BY <2>1, SetResponseFields
  <2>3. Waiting' = Waiting /\ \A q \in Waiting : ~req[q].late
    BY <1>w, <2>1 DEF TimedOut
  <2>4. \A q \in Requests : req'[q].pc \in {"Counted", "Admitted"} => Open(q)'
    BY <1>o, <1>p, <2>2 DEF Open
  <2>5. Callers' = {}
    BY <2>1, <2>2 DEF Callers, OnceInv
  <2> QED BY <1>0, <2>1, <2>2, <2>3, <2>4, <2>5 DEF OnceInv, AnsweredOnce
<1>15. CASE Ended
  BY <1>1, <1>15 DEF Ended
<1> QED BY <1>1, <1>2, <1>3, <1>4, <1>5, <1>6, <1>7, <1>8, <1>9, <1>10, <1>11, <1>12, <1>13,
           <1>14, <1>15 DEF Next, Caller, Executor, Monitor, Destroy

(* AnsweredOnce is an invariant, if no request that Stop answers is late   *)
(* and no client cancels one: SetResponse never throws, neither in a       *)
(* caller's thread nor in the monitor's, where it would end the process.   *)
THEOREM NoSecondAnswer ==
    ASSUME "LateAtStop" \notin Mishaps, "CancelAfterStop" \notin Mishaps
    PROVE  SafetySpec => []AnsweredOnce
<1> DEFINE Inv == TypeInv /\ PlacesInv /\ OnceInv
<1>1. Init => Inv
  BY TypeInit, PlacesInit, OnceInit
<1>2. Inv /\ [Next]_vars => Inv'
  BY TypeStep, PlacesStep, OnceStep
<1>3. Inv => AnsweredOnce
  BY DEF OnceInv
<1> QED BY <1>1, <1>2, <1>3, PTL DEF SafetySpec

-------------------------------------------------------------------------------
(***************************************************************************)
(* Wake-ups.  The thread that inserts a request has yet to notify one; a   *)
(* thread that stops waiting does so because the queue is empty.           *)
(***************************************************************************)
LEMMA WakeInit == Init => NoLostWakeup
BY DEF Init, NoLostWakeup

(* A step that wakes threads or none, and neither fills the queue nor ends *)
(* a notification.                                                         *)
LEMMA WakeFrame ==
    ASSUME TypeInv, NoLostWakeup, state' = "Running" => state = "Running",
           requests' # <<>> => requests # <<>>,
           \A r \in Requests : req[r].pc = "Inserted" => req'[r].pc = "Inserted",
           \A e \in Executors : exec'[e].pc = "Blocked" => exec[e].pc = "Blocked"
    PROVE  NoLostWakeup'
BY DEF NoLostWakeup, Blocked

(* A queue that lost requests was not empty.                               *)
LEMMA WithoutOfEmpty ==
    ASSUME TypeInv, NEW rs, Without(requests, rs) # <<>> PROVE requests # <<>>
<1> SUFFICES ASSUME requests = <<>> PROVE Without(requests, rs) = <<>>
  OBVIOUS
<1>1. requests \in Seq(Requests)
  BY TypeFacts
<1>2. Len(Without(requests, rs)) <= 0 /\ Without(requests, rs) \in Seq(Requests)
  <2>1. Len(requests) = 0
    OBVIOUS
  <2> QED BY <1>1, <2>1, WithoutProperties
<1> QED BY <1>2, EmptySeq

LEMMA WakeStep == TypeInv /\ PlacesInv /\ NoLostWakeup /\ [Next]_vars => NoLostWakeup'
<1> SUFFICES ASSUME TypeInv, PlacesInv, NoLostWakeup, [Next]_vars PROVE NoLostWakeup'
  OBVIOUS
<1>0. /\ req \in [Requests -> RequestRecord] /\ requests \in Seq(Requests)
      /\ exec \in [Executors -> [pc : {"Loop", "Blocked", "Taken", "Running", "Exited"},
                                 req : Requests \cup {NoRequest}]]
      /\ \A e \in Executors : exec[e].req \in Requests <=> exec[e].pc \in {"Taken", "Running"}
  BY TypeFacts
<1>1. CASE UNCHANGED vars
  BY <1>1, WakeFrame DEF vars
<1>2. ASSUME NEW r \in Requests,
             CountQueue(r) \/ RejectStopped(r) \/ Admit(r) \/ ExecuteSynchronously(r)
      PROVE  NoLostWakeup'
  <2>1. UNCHANGED <<requests, exec, state>> /\ req[r].pc # "Inserted"
        /\ \E v : req' = [req EXCEPT ![r] = v]
    BY <1>2 DEF CountQueue, RejectStopped, Admit, ExecuteSynchronously
  <2>2. \A q \in Requests : req[q].pc = "Inserted" => req'[q].pc = "Inserted"
    BY <1>0, <2>1
  <2> QED BY <2>1, <2>2, WakeFrame
<1>3. ASSUME NEW r \in Requests, InsertSorted(r) PROVE NoLostWakeup'
  <2>1. CASE FirstAnswered(r) = 0
    <3>1. req'[r] = [req[r] EXCEPT !.pc = "Inserted"]
      BY <1>3, <2>1, InsertSortedFields
    <3>2. req'[r].pc = "Inserted"
      BY <3>1, OtherFields
    <3> QED BY <3>2 DEF NoLostWakeup
  <2>2. CASE FirstAnswered(r) # 0
    <3>1. UNCHANGED <<exec, state>> /\ requests' = Without(requests, ReplacedBy(r)) /\ req[r].pc = "Admitted"
      BY <1>3, <2>2 DEF InsertSorted
    <3>2. \A q \in Requests : req[q].pc = "Inserted" => req'[q].pc = "Inserted"
      BY <1>3, <3>1, InsertSortedFields
    <3> QED BY <3>1, <3>2, WithoutOfEmpty, WakeFrame
  <2> QED BY <2>1, <2>2
<1>4. ASSUME NEW r \in Requests, NotifyOne(r) PROVE NoLostWakeup'
  <2>1. CASE Blocked = {} /\ UNCHANGED exec
    BY <2>1, QueryQueueAssumption DEF NoLostWakeup, Blocked
  <2>2. ASSUME NEW e \in Blocked, exec' = [exec EXCEPT ![e].pc = "Loop"] PROVE NoLostWakeup'
    <3>1. e \in Executors /\ exec'[e].pc = "Loop"
      BY <1>0, <2>2 DEF Blocked
    <3> QED BY <3>1 DEF NoLostWakeup, Blocked
  <2> QED BY <1>4, <2>1, <2>2 DEF NotifyOne
<1>5. ASSUME NEW r \in Requests, CancelRequest(r) PROVE NoLostWakeup'
  <2>1. UNCHANGED <<exec, state>> /\ (UNCHANGED requests \/ requests' = Without(requests, {r}))
        /\ (UNCHANGED req \/ req' = Finish({r}, "Cancel"))
    BY <1>5 DEF CancelRequest
  <2>2. \A q \in Requests : req[q].pc = "Inserted" => req'[q].pc = "Inserted"
    BY <2>1, FinishFields
  <2>3. requests' # <<>> => requests # <<>>
    BY <2>1, WithoutOfEmpty
  <2> QED BY <2>1, <2>2, <2>3, WakeFrame
<1>6. ASSUME NEW r \in Requests, DelayEnds(r) \/ TimeExceeded(r) PROVE NoLostWakeup'
  <2>1. UNCHANGED <<requests, exec, state>>
        /\ (\/ req' = [req EXCEPT ![r] = [req[r] EXCEPT !.delayed = FALSE]]
            \/ req' = [req EXCEPT ![r] = [req[r] EXCEPT !.late = TRUE]])
    BY <1>6 DEF DelayEnds, TimeExceeded
  <2>2. \A q \in Requests \ {r} : req'[q] = req[q]
    BY <1>0, <2>1
  <2>3. req'[r].pc = req[r].pc
    <3>1. CASE req' = [req EXCEPT ![r] = [req[r] EXCEPT !.delayed = FALSE]]
      <4>1. req'[r] = [req[r] EXCEPT !.delayed = FALSE]
        BY <1>0, <3>1
      <4> QED BY <4>1, OtherFields
    <3>2. CASE req' = [req EXCEPT ![r] = [req[r] EXCEPT !.late = TRUE]]
      <4>1. req'[r] = [req[r] EXCEPT !.late = TRUE]
        BY <1>0, <3>2
      <4> QED BY <4>1, OtherFields
    <3> QED BY <2>1, <3>1, <3>2
  <2> QED BY <2>1, <2>2, <2>3, WakeFrame
<1>7. ASSUME NEW e \in Executors, WaitInQueue(e) PROVE NoLostWakeup'
  BY <1>7 DEF WaitInQueue, NoLostWakeup
<1>8. ASSUME NEW e \in Executors, Exit(e) PROVE NoLostWakeup'
  BY <1>8 DEF Exit, NoLostWakeup
<1>9. ASSUME NEW e \in Executors, Dequeue(e) PROVE NoLostWakeup'
  <2>1. exec'[e].pc # "Blocked"
    BY <1>0, <1>9 DEF Dequeue
  <2> QED BY <2>1 DEF NoLostWakeup, Blocked
<1>10. ASSUME NEW e \in Executors, GetConnection(e) \/ OpenFails(e) PROVE NoLostWakeup'
  <2>1. \A f \in Executors : exec'[f].pc = "Blocked" => exec[f].pc = "Blocked"
    BY <1>0, <1>10 DEF GetConnection, OpenFails
  <2> QED BY <1>10, <2>1, WakeFrame DEF GetConnection, OpenFails
<1>11. ASSUME NEW e \in Executors, Execute(e) PROVE NoLostWakeup'
  <2>1. exec'[e].pc # "Blocked"
    BY <1>0, <1>11 DEF Execute
  <2> QED BY <2>1 DEF NoLostWakeup, Blocked
<1>12. CASE RemoveTimedOut
  <2>1. UNCHANGED <<exec, state>> /\ (UNCHANGED requests \/ requests' = Without(requests, TimedOut))
        /\ (UNCHANGED req \/ req' = Finish(TimedOut, "Timeout"))
    BY <1>12 DEF RemoveTimedOut
  <2>2. \A q \in Requests : req[q].pc = "Inserted" => req'[q].pc = "Inserted"
    BY <2>1, FinishFields
  <2>3. requests' # <<>> => requests # <<>>
    BY <2>1, WithoutOfEmpty
  <2> QED BY <2>1, <2>2, <2>3, WakeFrame
<1>13. CASE StayUp \/ WakeMonitor \/ Shutdown \/ JoinMonitor
  BY <1>13, WakeFrame DEF StayUp, WakeMonitor, Shutdown, JoinMonitor
<1>14. CASE ShutdownWhenIdle \/ BeginStop
  BY <1>14 DEF ShutdownWhenIdle, BeginStop, NoLostWakeup
<1>15. CASE StopRequests
  <2>1. UNCHANGED <<requests, state>> /\ NotifyAll
        /\ req' = SetResponse(Waiting, "ShuttingDown")
    BY <1>15 DEF StopRequests
  <2>2. \A r \in Requests : req'[r].pc = req[r].pc
    BY <2>1, SetResponseFields
  <2>3. \A e \in Executors : exec'[e].pc = "Blocked" => exec[e].pc = "Blocked"
    BY <2>1, NotifyAllHolds
  <2> QED BY <2>1, <2>2, <2>3, WakeFrame
<1>16. CASE JoinExecutors
  BY <1>16 DEF JoinExecutors, NoLostWakeup
<1>17. CASE Ended
  BY <1>1, <1>17 DEF Ended
<1> QED BY <1>1, <1>2, <1>3, <1>4, <1>5, <1>6, <1>7, <1>8, <1>9, <1>10, <1>11, <1>12, <1>13,
           <1>14, <1>15, <1>16, <1>17 DEF Next, Caller, Executor, Monitor, Destroy

(* NoLostWakeup is an invariant: while requests wait, not all executors    *)
(* are in WaitForDequeue, or a notification is still to come.              *)
THEOREM WakeUpsAreNotLost == SafetySpec => []NoLostWakeup
<1> DEFINE Inv == TypeInv /\ PlacesInv /\ NoLostWakeup
<1>1. Init => Inv
  BY TypeInit, PlacesInit, WakeInit
<1>2. Inv /\ [Next]_vars => Inv'
  BY TypeStep, PlacesStep, WakeStep
<1>3. Inv => NoLostWakeup
  OBVIOUS
<1> QED BY <1>1, <1>2, <1>3, PTL DEF SafetySpec

-------------------------------------------------------------------------------
(***************************************************************************)
(* Steps that neither count the queue, nor insert a request, nor take one: *)
(* the queue at most loses requests, and those in it stay as they are in   *)
(* what its order and its size depend on.                                  *)
(***************************************************************************)
Entering == {r \in Requests : req[r].pc \in {"Counted", "Admitted"}}

Quiet ==
    /\ Waiting' \subseteq Waiting /\ Len(requests') <= Len(requests)
    /\ \A q : Ascending(requests, q) => Ascending(requests', q)
    /\ \A r \in Waiting' :
          req'[r].token = req[r].token /\ req'[r].priority = req[r].priority
    /\ \A r \in Requests : /\ req'[r].pc \in {"Counted", "Admitted"} =>
                                  req[r].pc \in {"Counted", "Admitted"}
                           /\ req'[r].pc \in Inside => req[r].pc \in Inside
    /\ UNCHANGED lastDelayed

LEMMA StepIsQuiet ==
    ASSUME TypeInv, PlacesInv, [Next]_vars
    PROVE  \/ \E r \in Requests : CountQueue(r) \/ InsertSorted(r)
           \/ \E e \in Executors : Dequeue(e)
           \/ Quiet
<1>0. /\ req \in [Requests -> RequestRecord] /\ requests \in Seq(Requests)
      /\ Waiting \subseteq Requests /\ Len(requests) \in Nat
      /\ \A r \in Waiting : req[r].pc \notin {"New", "Counted", "Admitted"}
  BY TypeFacts DEF PlacesInv
<1>w. UNCHANGED requests =>
         /\ Waiting' = Waiting /\ Len(requests') <= Len(requests)
         /\ \A q : Ascending(requests, q) => Ascending(requests', q)
  BY <1>0 DEF Waiting
<1>x. ASSUME NEW rs, requests' = Without(requests, rs)
      PROVE  /\ Waiting' = Waiting \ rs /\ Len(requests') <= Len(requests)
             /\ \A q : Ascending(requests, q) => Ascending(requests', q)
  BY <1>0, <1>x, WithoutProperties DEF Waiting
<1>1. ASSUME UNCHANGED <<req, requests, lastDelayed>> PROVE Quiet
  BY <1>1, <1>w DEF Quiet
<1>2. ASSUME NEW r \in Requests, RejectStopped(r) \/ Admit(r) \/ ExecuteSynchronously(r) PROVE Quiet
  <2>1. req[r].pc = "Counted" /\ UNCHANGED <<requests, lastDelayed>>
        /\ \E v : req' = [req EXCEPT ![r] = v]
    BY <1>2 DEF RejectStopped, Admit, ExecuteSynchronously
  <2>2. \A q \in Requests \ {r} : req'[q] = req[q]
    BY <1>0, <2>1
  <2>3. \A q \in Waiting' : req'[q] = req[q]
    BY <1>0, <1>w, <2>1, <2>2
  <2> QED BY <1>w, <2>1, <2>2, <2>3 DEF Quiet, Inside
<1>3. ASSUME NEW r \in Requests, NotifyOne(r) \/ DelayEnds(r) \/ TimeExceeded(r) PROVE Quiet
  <2>1. UNCHANGED <<requests, lastDelayed>>
        /\ (\/ req' = [req EXCEPT ![r] = [req[r] EXCEPT !.pc = "Submitted"]]
            \/ req' = [req EXCEPT ![r] = [req[r] EXCEPT !.delayed = FALSE]]
            \/ req' = [req EXCEPT ![r] = [req[r] EXCEPT !.late = TRUE]])
    BY <1>3 DEF NotifyOne, DelayEnds, TimeExceeded
  <2>2. \A q \in Requests \ {r} : req'[q] = req[q]
    BY <1>0, <2>1
  <2>3. req'[r].pc \in {req[r].pc, "Submitted"} /\ req'[r].token = req[r].token
        /\ req'[r].priority = req[r].priority
    <3>1. CASE req' = [req EXCEPT ![r] = [req[r] EXCEPT !.pc = "Submitted"]]
      <4>1. req'[r] = [req[r] EXCEPT !.pc = "Submitted"]
        BY <1>0, <3>1
      <4> QED BY <4>1, OtherFields
    <3>2. CASE req' = [req EXCEPT ![r] = [req[r] EXCEPT !.delayed = FALSE]]
      <4>1. req'[r] = [req[r] EXCEPT !.delayed = FALSE]
        BY <1>0, <3>2
      <4> QED BY <4>1, OtherFields
    <3>3. CASE req' = [req EXCEPT ![r] = [req[r] EXCEPT !.late = TRUE]]
      <4>1. req'[r] = [req[r] EXCEPT !.late = TRUE]
        BY <1>0, <3>3
      <4> QED BY <4>1, OtherFields
    <3> QED BY <2>1, <3>1, <3>2, <3>3
  <2> QED BY <1>0, <1>w, <2>1, <2>2, <2>3 DEF Quiet, Inside
<1>f. ASSUME NEW rs, NEW a, req' = Finish(rs, a), Waiting' = Waiting \ rs, UNCHANGED lastDelayed,
             Len(requests') <= Len(requests),
             \A q : Ascending(requests, q) => Ascending(requests', q)
      PROVE  Quiet
  <2>1. \A q \in Requests : req'[q].pc = req[q].pc /\ (q \notin rs => req'[q] = req[q])
    BY <1>f, FinishFields
  <2> QED BY <1>0, <1>f, <2>1 DEF Quiet
<1>4. ASSUME NEW r \in Requests, CancelRequest(r) PROVE Quiet
  <2>1. CASE Open(r)
    BY <1>4, <1>x, <1>f, <2>1 DEF CancelRequest
  <2>2. CASE ~Open(r)
    BY <1>1, <1>4, <2>2 DEF CancelRequest
  <2> QED BY <2>1, <2>2
<1>5. ASSUME NEW e \in Executors, WaitInQueue(e) \/ Exit(e) \/ GetConnection(e) \/ OpenFails(e)
      PROVE  Quiet
  BY <1>1, <1>5 DEF WaitInQueue, Exit, GetConnection, OpenFails
<1>6. ASSUME NEW e \in Executors, Execute(e) PROVE Quiet
  <2>1. (\E a : req' = Finish({exec[e].req}, a)) /\ UNCHANGED <<requests, lastDelayed>>
    BY <1>6 DEF Execute
  <2>2. Waiting' = Waiting \ {exec[e].req}
    BY <1>w, <2>1 DEF PlacesInv
  <2> QED BY <1>f, <1>w, <2>1, <2>2
<1>7. CASE RemoveTimedOut
  <2>1. CASE ScanThrows
    BY <1>1, <1>7, <2>1 DEF RemoveTimedOut
  <2>2. CASE ~ScanThrows
    BY <1>7, <1>x, <1>f, <2>2 DEF RemoveTimedOut
  <2> QED BY <2>1, <2>2
<1>8. CASE StayUp \/ ShutdownWhenIdle \/ WakeMonitor \/ Shutdown \/ BeginStop \/ JoinMonitor
  BY <1>1, <1>8 DEF StayUp, ShutdownWhenIdle, WakeMonitor, Shutdown, BeginStop, JoinMonitor
<1>9. CASE StopRequests
  <2>1. UNCHANGED <<requests, lastDelayed>> /\ req' = SetResponse(Waiting, "ShuttingDown")
    BY <1>9 DEF StopRequests
  <2>2. \A q \in Requests : req'[q].pc = req[q].pc /\ req'[q].token = req[q].token
                            /\ req'[q].priority = req[q].priority
    BY <2>1, SetResponseFields
  <2> QED BY <1>0, <1>w, <2>1, <2>2 DEF Quiet
<1>10. CASE JoinExecutors
  <2>1. requests' = <<>> /\ UNCHANGED <<req, lastDelayed>>
    BY <1>10 DEF JoinExecutors
  <2>2. Waiting' = {} /\ Len(requests') = 0
    BY <2>1 DEF Waiting, ToSet
  <2>3. \A q : Ascending(requests', q)
    BY <2>1 DEF Ascending
  <2> QED BY <1>0, <2>1, <2>2, <2>3 DEF Quiet
<1>11. CASE Ended \/ UNCHANGED vars
  BY <1>1, <1>11 DEF Ended, vars
<1> QED BY <1>2, <1>3, <1>4, <1>5, <1>6, <1>7, <1>8, <1>9, <1>10, <1>11
        DEF Next, Caller, Executor, Monitor, Destroy

(* What Dequeue does to the queue.                                         *)
LEMMA DequeueQueue ==
    ASSUME TypeInv, PlacesInv, NEW e \in Executors, Dequeue(e)
    PROVE  /\ Last(requests) \in Requests /\ requests # <<>>
           /\ \A q \in Requests : /\ req'[q].pc = req[q].pc /\ req'[q].token = req[q].token
                                  /\ req'[q].priority = req[q].priority
           /\ Waiting' \subseteq Waiting /\ Len(requests') <= Len(requests)
           /\ \/ lastDelayed' = Last(requests)
              \/ /\ UNCHANGED lastDelayed
                 /\ \A q : Ascending(requests, q) => Ascending(requests', q)
<1> DEFINE r == Last(requests)
           rest == Front(requests)
<1>1. requests \in Seq(Requests) /\ requests # <<>> /\ req \in [Requests -> RequestRecord]
  BY TypeFacts DEF Dequeue
<1>2. /\ r \in Requests /\ rest \in Seq(Requests) /\ Len(rest) = Len(requests) - 1
      /\ Waiting = ToSet(rest) \cup {r} /\ Len(requests) \in Nat
      /\ \A q : Ascending(requests, q) => Ascending(rest, q)
  BY <1>1, FrontProperties DEF Waiting
<1>3. \/ /\ requests' = rest /\ UNCHANGED lastDelayed
         /\ req' = [req EXCEPT ![r] = [req[r] EXCEPT !.late = FALSE]]
      \/ requests' = PutBack(r, rest) /\ lastDelayed' = r /\ UNCHANGED req
  BY DEF Dequeue
<1> HIDE DEF r, rest
<1>4. CASE /\ requests' = rest /\ UNCHANGED lastDelayed
           /\ req' = [req EXCEPT ![r] = [req[r] EXCEPT !.late = FALSE]]
  <2>1. (\A q \in Requests \ {r} : req'[q] = req[q]) /\ req'[r] = [req[r] EXCEPT !.late = FALSE]
    BY <1>1, <1>2, <1>4
  <2>2. req'[r].pc = req[r].pc /\ req'[r].token = req[r].token /\ req'[r].priority = req[r].priority
    BY <1>2, <2>1, OtherFields
  <2>3. Waiting' \subseteq Waiting
    BY <1>2, <1>4 DEF Waiting
  <2>4. \A q \in Requests : /\ req'[q].pc = req[q].pc /\ req'[q].token = req[q].token
                            /\ req'[q].priority = req[q].priority
    BY <2>1, <2>2
  <2> QED BY <1>1, <1>2, <1>4, <2>3, <2>4 DEF r
<1>5. CASE requests' = PutBack(r, rest) /\ lastDelayed' = r /\ UNCHANGED req
  <2>1. ToSet(requests') = ToSet(rest) \cup {r} /\ Len(requests') = Len(rest) + 1
    BY <1>2, <1>5, PutBackProperties
  <2>2. Waiting' = Waiting /\ Len(requests') = Len(requests)
    BY <1>2, <2>1 DEF Waiting
  <2> QED BY <1>1, <1>2, <1>5, <2>2 DEF r
<1> QED BY <1>3, <1>4, <1>5

(* What CountQueue leaves in place.                                        *)
LEMMA CountQueueKeeps ==
    ASSUME TypeInv, PlacesInv, NEW r \in Requests, CountQueue(r)
    PROVE  /\ req[r].pc = "New" /\ UNCHANGED <<requests, lastDelayed>> /\ Waiting' = Waiting
           /\ \A q \in Requests \ {r} : req'[q] = req[q]
           /\ \A q \in Waiting : q \in Requests /\ req'[q] = req[q]
           /\ Cardinality(Callers) < MaxCallers
           /\ \/ req'[r].pc = "Submitted"
              \/ req'[r].pc = "Counted" /\ Len(requests) < MaxQueueSize
<1>0. req \in [Requests -> RequestRecord] /\ Waiting \subseteq Requests
  BY TypeFacts
<1>1. PICK p \in Priorities, t \in Tokens \cup {NoToken}, d \in Delays, full \in SeemsFull(r) :
         req' = [req EXCEPT ![r] =
                   IF full THEN Answered("QueueFull", "Submitted")
                   ELSE [Blank EXCEPT !.pc = "Counted", !.priority = p,
                                      !.token = t, !.delayed = d]]
  BY DEF CountQueue
<1>2. /\ req[r].pc = "New" /\ UNCHANGED <<requests, lastDelayed>> /\ Waiting' = Waiting
      /\ Cardinality(Callers) < MaxCallers
  BY DEF CountQueue, Waiting
<1>3. \A q \in Requests \ {r} : req'[q] = req[q]
  BY <1>0, <1>1
<1>4. r \notin Waiting
  BY <1>2 DEF PlacesInv
<1>5. CASE full
  <2>1. req'[r] = Answered("QueueFull", "Submitted")
    BY <1>0, <1>1, <1>5
  <2>2. req'[r].pc = "Submitted"
    BY <2>1, AnsweredFields
  <2> QED BY <1>0, <1>2, <1>3, <1>4, <2>2
<1>6. CASE ~full
  <2>1. req'[r] = [Blank EXCEPT !.pc = "Counted", !.priority = p, !.token = t, !.delayed = d]
    BY <1>0, <1>1, <1>6
  <2>2. req'[r].pc = "Counted"
    BY <2>1 DEF Blank
  <2>3. ~(Len(requests) >= MaxQueueSize)
    BY <1>6 DEF SeemsFull
  <2>4. Len(requests) < MaxQueueSize
    BY <2>3, TypeFacts, QueryQueueAssumption
  <2> QED BY <1>0, <1>2, <1>3, <1>4, <2>2, <2>4
<1> QED BY <1>5, <1>6

-------------------------------------------------------------------------------
(***************************************************************************)
(* Restart tokens.                                                         *)
(***************************************************************************)
LEMMA TokensInit == Init => OneWaitsPerToken
BY DEF Init, OneWaitsPerToken, Waiting, ToSet

LEMMA TokensFrame ==
    ASSUME OneWaitsPerToken, Waiting' \subseteq Waiting,
           \A r \in Waiting' : req'[r].token = req[r].token
    PROVE  OneWaitsPerToken'
BY DEF OneWaitsPerToken, SameToken

LEMMA TokensStep == TypeInv /\ PlacesInv /\ OneWaitsPerToken /\ [Next]_vars => OneWaitsPerToken'
<1> SUFFICES ASSUME TypeInv, PlacesInv, OneWaitsPerToken, [Next]_vars PROVE OneWaitsPerToken'
  OBVIOUS
<1>0. requests \in Seq(Requests) /\ Waiting \subseteq Requests
  BY TypeFacts
<1>1. ASSUME NEW r \in Requests, CountQueue(r) PROVE OneWaitsPerToken'
  BY <1>1, CountQueueKeeps, TokensFrame
<1>2. ASSUME NEW e \in Executors, Dequeue(e) PROVE OneWaitsPerToken'
  BY <1>0, <1>2, DequeueQueue, TokensFrame
<1>3. CASE Quiet
  BY <1>3, TokensFrame DEF Quiet
<1>4. ASSUME NEW r \in Requests, InsertSorted(r) PROVE OneWaitsPerToken'
  <2> DEFINE kept == Without(requests, ReplacedBy(r))
  <2>0. r \notin Waiting
    BY <1>4 DEF InsertSorted, PlacesInv
  <2>1. kept \in Seq(Requests) /\ ToSet(kept) = Waiting \ ReplacedBy(r)
    BY <1>0, WithoutProperties
  <2>2. \A q \in Waiting \ ReplacedBy(r) : req'[q].token = req[q].token
    <3> SUFFICES ASSUME NEW q \in Waiting \ ReplacedBy(r) PROVE req'[q].token = req[q].token
      OBVIOUS
    <3>1. q \in Requests \ {r}
      BY <1>0, <2>0
    <3>2. req'[q] = req[q] \/ req'[q] = [req[q] EXCEPT !.cancelled = TRUE]
      BY <1>4, <3>1, InsertSortedFields
    <3>3. CASE req'[q] = req[q]
      BY <3>3
    <3>4. CASE req'[q] = [req[q] EXCEPT !.cancelled = TRUE]
      BY <3>1, <3>4, OtherFields
    <3> QED BY <3>2, <3>3, <3>4
  <2>3. CASE FirstAnswered(r) # 0
    <3>1. requests' = kept
      BY <1>4, <2>3 DEF InsertSorted
    <3>2. Waiting' = Waiting \ ReplacedBy(r)
      BY <2>1, <3>1 DEF Waiting
    <3> QED BY <2>2, <3>2, TokensFrame
  <2>4. CASE FirstAnswered(r) = 0
    <3>1. requests' = Sorted(r, kept)
      BY <1>4, <2>4 DEF InsertSorted
    <3>2. Waiting' = (Waiting \ ReplacedBy(r)) \cup {r}
      BY <2>1, <3>1, SortedProperties DEF Waiting
    <3>3. req'[r].token = req[r].token
      <4>1. req'[r] = [req[r] EXCEPT !.pc = "Inserted"]
        BY <1>4, <2>4, InsertSortedFields
      <4> QED BY <4>1, OtherFields
    <3>4. \A q \in Waiting \ ReplacedBy(r) : ~SameToken(r, q)
      BY <1>0, <2>4, FirstAnsweredProperties
    <3>5. \A q \in Waiting' : req'[q].token = req[q].token
      BY <2>2, <3>2, <3>3
    <3>6. \A q, s \in Waiting' : SameToken(q, s) => q = s
      <4> SUFFICES ASSUME NEW q \in Waiting', NEW s \in Waiting', SameToken(q, s) PROVE q = s
        OBVIOUS
      <4>1. CASE q = r \/ s = r
        BY <3>2, <3>4, <4>1 DEF SameToken
      <4>2. CASE q # r /\ s # r
        BY <3>2, <4>2 DEF OneWaitsPerToken
      <4> QED BY <4>1, <4>2
    <3> QED BY <3>5, <3>6 DEF OneWaitsPerToken, SameToken
  <2> QED BY <2>3, <2>4
<1> QED BY <1>1, <1>2, <1>3, <1>4, StepIsQuiet

(* OneWaitsPerToken is an invariant: of the requests with one restart      *)
(* token, those that wait when a newer one is inserted are replaced.       *)
THEOREM NewestOfTokenWaits == SafetySpec => []OneWaitsPerToken
<1> DEFINE Inv == TypeInv /\ PlacesInv /\ OneWaitsPerToken
<1>1. Init => Inv
  BY TypeInit, PlacesInit, TokensInit
<1>2. Inv /\ [Next]_vars => Inv'
  BY TypeStep, PlacesStep, TokensStep
<1>3. Inv => OneWaitsPerToken
  OBVIOUS
<1> QED BY <1>1, <1>2, <1>3, PTL DEF SafetySpec

-------------------------------------------------------------------------------
(***************************************************************************)
(* Priorities.  Without delays the queue ascends, and executors take its   *)
(* end.                                                                    *)
(***************************************************************************)
OrderInv == lastDelayed = NoRequest => Ascending(requests, req)

LEMMA OrderInit == Init => OrderInv
BY DEF Init, OrderInv, Ascending

LEMMA PrioritiesTyped == TypeInv => \A q \in Requests : req[q].priority \in Nat
<1> SUFFICES ASSUME TypeInv, NEW q \in Requests PROVE req[q].priority \in Nat
  OBVIOUS
<1>1. req[q].priority \in Priorities
  BY TypeFacts DEF RequestRecord
<1> QED BY <1>1, QueryQueueAssumption

(* A queue in order stays in order when its requests keep their priority.  *)
LEMMA OrderFrame ==
    ASSUME TypeInv', Ascending(requests', req),
           \A q \in Waiting' : req'[q].priority = req[q].priority
    PROVE  Ascending(requests', req')
<1>1. \A i \in DOMAIN requests' : requests'[i] \in Waiting'
  BY DEF Waiting, ToSet
<1> QED BY <1>1 DEF Ascending

LEMMA OrderStep ==
    TypeInv /\ TypeInv' /\ PlacesInv /\ OrderInv /\ [Next]_vars => OrderInv'
<1> SUFFICES ASSUME TypeInv, TypeInv', PlacesInv, OrderInv, [Next]_vars, lastDelayed' = NoRequest
             PROVE  Ascending(requests', req')
  BY DEF OrderInv
<1>0. requests \in Seq(Requests) /\ Waiting \subseteq Requests /\ NoRequest \notin Requests
  BY TypeFacts, QueryQueueAssumption
<1>1. ASSUME NEW r \in Requests, CountQueue(r) PROVE Ascending(requests', req')
  <2>1. UNCHANGED <<requests, lastDelayed>> /\ Waiting' = Waiting
        /\ \A q \in Waiting : req'[q] = req[q]
    BY <1>1, CountQueueKeeps
  <2>2. Ascending(requests', req)
    BY <2>1 DEF OrderInv
  <2> QED BY <2>1, <2>2, OrderFrame
<1>2. ASSUME NEW e \in Executors, Dequeue(e) PROVE Ascending(requests', req')
  <2>1. Waiting' \subseteq Waiting /\ \A q \in Requests : req'[q].priority = req[q].priority
    BY <1>2, DequeueQueue
  <2>2. UNCHANGED lastDelayed /\ \A q : Ascending(requests, q) => Ascending(requests', q)
    BY <1>0, <1>2, DequeueQueue
  <2>3. Ascending(requests', req)
    BY <2>2 DEF OrderInv
  <2> QED BY <1>0, <2>1, <2>3, OrderFrame
<1>3. CASE Quiet
  <2>1. UNCHANGED lastDelayed /\ \A q : Ascending(requests, q) => Ascending(requests', q)
    BY <1>3 DEF Quiet
  <2>2. Ascending(requests', req)
    BY <2>1 DEF OrderInv
  <2> QED BY <1>3, <2>2, OrderFrame DEF Quiet
<1>4. ASSUME NEW r \in Requests, InsertSorted(r) PROVE Ascending(requests', req')
  <2> DEFINE kept == Without(requests, ReplacedBy(r))
  <2>0. r \notin Waiting /\ UNCHANGED lastDelayed
    BY <1>4 DEF InsertSorted, PlacesInv
  <2>1. kept \in Seq(Requests) /\ ToSet(kept) = Waiting \ ReplacedBy(r) /\ Ascending(kept, req)
    BY <1>0, <2>0, WithoutProperties DEF OrderInv
  <2>2. \A q \in Waiting \ ReplacedBy(r) : req'[q].priority = req[q].priority
    <3> SUFFICES ASSUME NEW q \in Waiting \ ReplacedBy(r) PROVE req'[q].priority = req[q].priority
      OBVIOUS
    <3>1. q \in Requests \ {r}
      BY <1>0, <2>0
    <3>2. req'[q] = req[q] \/ req'[q] = [req[q] EXCEPT !.cancelled = TRUE]
      BY <1>4, <3>1, InsertSortedFields
    <3>3. CASE req'[q] = req[q]
      BY <3>3
    <3>4. CASE req'[q] = [req[q] EXCEPT !.cancelled = TRUE]
      BY <3>1, <3>4, OtherFields
    <3> QED BY <3>2, <3>3, <3>4
  <2>3. CASE FirstAnswered(r) # 0
    <3>1. requests' = kept
      BY <1>4, <2>3 DEF InsertSorted
    <3>2. Waiting' = Waiting \ ReplacedBy(r)
      BY <2>1, <3>1 DEF Waiting
    <3> QED BY <2>1, <2>2, <3>1, <3>2, OrderFrame
  <2>4. CASE FirstAnswered(r) = 0
    <3>1. requests' = Sorted(r, kept)
      BY <1>4, <2>4 DEF InsertSorted
    <3>2. Waiting' = (Waiting \ ReplacedBy(r)) \cup {r}
      BY <2>1, <3>1, SortedProperties DEF Waiting
    <3>3. req'[r].priority = req[r].priority
      <4>1. req'[r] = [req[r] EXCEPT !.pc = "Inserted"]
        BY <1>4, <2>4, InsertSortedFields
      <4> QED BY <4>1, OtherFields
    <3>4. Ascending(requests', req)
      BY <2>1, <3>1, SortedProperties, PrioritiesTyped
    <3> QED BY <2>2, <3>2, <3>3, <3>4, OrderFrame
  <2> QED BY <2>3, <2>4
<1> QED BY <1>1, <1>2, <1>3, <1>4, StepIsQuiet

(* Only Dequeue gives a request to an executor.                            *)
LEMMA TakenByDequeue ==
    ASSUME TypeInv, [Next]_vars, NEW e \in Executors,
           exec[e].pc = "Loop", exec'[e].pc = "Taken"
    PROVE  Dequeue(e) /\ exec'[e].req = Last(requests)
<1>0. exec \in [Executors -> [pc : {"Loop", "Blocked", "Taken", "Running", "Exited"},
                              req : Requests \cup {NoRequest}]]
  BY TypeFacts
<1>1. ASSUME NEW f \in Executors, Executor(f) PROVE Dequeue(e) /\ exec'[e].req = Last(requests)
  <2>1. CASE f = e
    <3>1. Dequeue(e)
      BY <1>0, <1>1, <2>1 DEF Executor, WaitInQueue, Exit, GetConnection, OpenFails, Execute
    <3> QED BY <1>0, <3>1 DEF Dequeue
  <2>2. CASE f # e
    BY <1>0, <1>1, <2>2 DEF Executor, WaitInQueue, Exit, Dequeue, GetConnection, OpenFails, Execute
  <2> QED BY <2>1, <2>2
<1>2. ASSUME NEW r \in Requests, NotifyOne(r) PROVE FALSE
  BY <1>0, <1>2 DEF NotifyOne, Blocked
<1>3. ASSUME NotifyAll PROVE FALSE
  BY <1>3, NotifyAllHolds
<1>4. UNCHANGED exec => FALSE
  OBVIOUS
<1>5. ASSUME NEW r \in Requests, CountQueue(r) \/ RejectStopped(r) \/ Admit(r)
             \/ ExecuteSynchronously(r) \/ InsertSorted(r) \/ CancelRequest(r)
             \/ DelayEnds(r) \/ TimeExceeded(r)
      PROVE  FALSE
  BY <1>4, <1>5 DEF CountQueue, RejectStopped, Admit, ExecuteSynchronously, InsertSorted,
                    CancelRequest, DelayEnds, TimeExceeded
<1>6. CASE Monitor \/ Shutdown \/ Destroy \/ Ended \/ UNCHANGED vars
  BY <1>3, <1>4, <1>6 DEF Monitor, Destroy, RemoveTimedOut, StayUp, ShutdownWhenIdle, WakeMonitor,
                          Shutdown, BeginStop, StopRequests, JoinMonitor, JoinExecutors, Ended, vars
<1> QED BY <1>1, <1>2, <1>5, <1>6 DEF Next, Caller

(* HighestFirst holds of every step: as long as no delay has put a request *)
(* back, the request an executor takes has the highest priority of those   *)
(* that wait.                                                              *)
THEOREM HighestPriorityFirst == SafetySpec => HighestFirst
<1> DEFINE Inv == TypeInv /\ PlacesInv /\ OrderInv
           Taken == \A e \in Executors :
              exec[e].pc = "Loop" /\ exec'[e].pc = "Taken" /\ lastDelayed = NoRequest =>
                  \A q \in Waiting : req[q].priority <= req[exec'[e].req].priority
<1>1. Init => Inv
  BY TypeInit, PlacesInit, OrderInit
<1>2. Inv /\ [Next]_vars => Inv'
  BY TypeStep, PlacesStep, OrderStep
<1>3. ASSUME Inv, [Next]_vars PROVE Taken
  <2> SUFFICES ASSUME NEW e \in Executors, exec[e].pc = "Loop", exec'[e].pc = "Taken",
                      lastDelayed = NoRequest, NEW q \in Waiting
               PROVE  req[q].priority <= req[exec'[e].req].priority
    OBVIOUS
  <2>1. Dequeue(e) /\ exec'[e].req = Last(requests)
    BY <1>3, TakenByDequeue
  <2>2. Ascending(requests, req) /\ requests \in Seq(Requests) /\ requests # <<>>
    BY <1>3, <2>1, TypeFacts DEF OrderInv, Dequeue
  <2>3. PICK i \in DOMAIN requests : q = requests[i]
    BY DEF Waiting, ToSet
  <2>4. i \in 1..Len(requests) /\ Len(requests) \in 1..Len(requests) /\ DOMAIN requests = 1..Len(requests)
    <3>1. Len(requests) \in Nat /\ Len(requests) # 0 /\ DOMAIN requests = 1..Len(requests)
      BY <2>2, EmptySeq
    <3> QED BY <2>3, <3>1
  <2>5. q \in Requests /\ Last(requests) = requests[Len(requests)] /\ Last(requests) \in Requests
    BY <2>2, <2>3, <2>4 DEF Last
  <2>6. req[q].priority \in Nat
    BY <1>3, <2>5, PrioritiesTyped
  <2>7. CASE i = Len(requests)
    BY <2>1, <2>3, <2>5, <2>6, <2>7
  <2>8. CASE i < Len(requests)
    BY <2>1, <2>2, <2>3, <2>4, <2>5, <2>8 DEF Ascending
  <2> QED BY <2>4, <2>7, <2>8
<1>4. Inv /\ [Next]_vars => [Taken]_vars
  BY <1>3
<1> QED BY <1>1, <1>2, <1>4, PTL DEF SafetySpec, HighestFirst

-------------------------------------------------------------------------------
(***************************************************************************)
(* The size of the queue.  Whoever counted it, or was admitted, and has    *)
(* not inserted its request, is within Enqueue, and takes one more place.  *)
(***************************************************************************)
BoundInv ==
    /\ IsFiniteSet(Callers) /\ Cardinality(Callers) <= MaxCallers
    /\ Len(requests) + Cardinality(Entering) <= MaxQueueSize + MaxCallers - 1

LEMMA EnteringAreCallers ==
    ASSUME IsFiniteSet(Callers)
    PROVE  /\ IsFiniteSet(Entering) /\ Cardinality(Entering) \in Nat
           /\ Cardinality(Callers) \in Nat /\ Cardinality(Entering) <= Cardinality(Callers)
<1>1. Entering \in SUBSET Callers
  BY DEF Entering, Callers, Inside
<1> QED BY <1>1, FS_Subset, FS_CardinalityType

LEMMA BoundInit == Init => BoundInv
<1> SUFFICES ASSUME Init PROVE BoundInv
  OBVIOUS
<1>1. Callers = {} /\ Entering = {} /\ Len(requests) = 0
  BY DEF Init, Callers, Entering, Inside, Blank
<1> QED BY <1>1, FS_EmptySet, QueryQueueAssumption DEF BoundInv

(* A step that leaves the queue and the callers no larger.                 *)
LEMMA BoundFrame ==
    ASSUME TypeInv, TypeInv', BoundInv, Len(requests') <= Len(requests),
           Callers' \subseteq Callers, Entering' \subseteq Entering
    PROVE  BoundInv'
<1>1. IsFiniteSet(Callers) /\ IsFiniteSet(Entering) /\ Cardinality(Entering) \in Nat
      /\ Cardinality(Callers) \in Nat
  BY EnteringAreCallers DEF BoundInv
<1>2. IsFiniteSet(Callers') /\ Cardinality(Callers') <= Cardinality(Callers) /\ Cardinality(Callers') \in Nat
  BY <1>1, FS_Subset, FS_CardinalityType
<1>3. Cardinality(Entering') <= Cardinality(Entering) /\ Cardinality(Entering') \in Nat
  BY <1>1, FS_Subset, FS_CardinalityType
<1>4. Len(requests) \in Nat /\ Len(requests') \in Nat
  BY DEF TypeInv, QueueTypeOK
<1> QED BY <1>1, <1>2, <1>3, <1>4, QueryQueueAssumption DEF BoundInv

LEMMA BoundStep ==
    TypeInv /\ TypeInv' /\ PlacesInv /\ BoundInv /\ [Next]_vars => BoundInv'
<1> SUFFICES ASSUME TypeInv, TypeInv', PlacesInv, BoundInv, [Next]_vars PROVE BoundInv'
  OBVIOUS
<1>0. /\ requests \in Seq(Requests) /\ Len(requests) \in Nat /\ Len(requests') \in Nat
      /\ MaxQueueSize \in Nat /\ MaxCallers \in Nat
  BY TypeFacts, QueryQueueAssumption DEF TypeInv, QueueTypeOK
<1>c. IsFiniteSet(Callers) /\ IsFiniteSet(Entering) /\ Cardinality(Entering) \in Nat
      /\ Cardinality(Callers) \in Nat
  BY EnteringAreCallers DEF BoundInv
<1>1. ASSUME NEW r \in Requests, CountQueue(r) PROVE BoundInv'
  <2>1. /\ req[r].pc = "New" /\ UNCHANGED requests /\ Cardinality(Callers) < MaxCallers
        /\ \A q \in Requests \ {r} : req'[q] = req[q]
        /\ \/ req'[r].pc = "Submitted"
           \/ req'[r].pc = "Counted" /\ Len(requests) < MaxQueueSize
    BY <1>1, CountQueueKeeps
  <2>2. CASE req'[r].pc = "Submitted"
    <3>1. Callers' \subseteq Callers /\ Entering' \subseteq Entering
      BY <2>1, <2>2 DEF Callers, Entering, Inside
    <3> QED BY <1>0, <2>1, <3>1, BoundFrame
  <2>3. CASE req'[r].pc = "Counted" /\ Len(requests) < MaxQueueSize
    <3>1. Callers' = Callers \cup {r} /\ r \notin Callers
      BY <2>1, <2>3 DEF Callers, Inside
    <3>2. IsFiniteSet(Callers') /\ Cardinality(Callers') = Cardinality(Callers) + 1
      BY <1>c, <3>1, FS_AddElement
    <3>3. Entering' \in SUBSET Callers'
      BY DEF Entering, Callers, Inside
    <3>4. Cardinality(Entering') \in Nat /\ Cardinality(Entering') <= Cardinality(Callers')
      BY <3>2, <3>3, FS_Subset, FS_CardinalityType
    <3>5. Cardinality(Callers') <= MaxCallers
      BY <1>0, <1>c, <2>1, <3>2
    <3>6. Len(requests') <= MaxQueueSize - 1
      BY <1>0, <2>1, <2>3
    <3>7. Len(requests') + Cardinality(Entering') <= MaxQueueSize + MaxCallers - 1
      BY <1>0, <1>c, <3>2, <3>4, <3>5, <3>6
    <3> QED BY <3>2, <3>5, <3>7 DEF BoundInv
  <2> QED BY <2>1, <2>2, <2>3
<1>2. ASSUME NEW e \in Executors, Dequeue(e) PROVE BoundInv'
  <2>1. Len(requests') <= Len(requests) /\ \A q \in Requests : req'[q].pc = req[q].pc
    BY <1>2, DequeueQueue
  <2>2. Callers' = Callers /\ Entering' = Entering
    BY <2>1 DEF Callers, Entering
  <2> QED BY <2>1, <2>2, BoundFrame
<1>3. CASE Quiet
  <2>1. Callers' \subseteq Callers /\ Entering' \subseteq Entering /\ Len(requests') <= Len(requests)
    BY <1>3 DEF Quiet, Callers, Entering
  <2> QED BY <2>1, BoundFrame
<1>4. ASSUME NEW r \in Requests, InsertSorted(r) PROVE BoundInv'
  <2> DEFINE kept == Without(requests, ReplacedBy(r))
  <2>1. kept \in Seq(Requests) /\ Len(kept) <= Len(requests) /\ Len(kept) \in Nat
    BY <1>0, WithoutProperties
  <2>2. requests' = kept \/ requests' = Sorted(r, kept)
    BY <1>4 DEF InsertSorted
  <2>3. Len(requests') <= Len(requests) + 1
    <3>1. Len(Sorted(r, kept)) = Len(kept) + 1
      BY <2>1, SortedProperties
    <3> HIDE DEF kept
    <3>2. CASE requests' = kept
      BY <1>0, <2>1, <3>2
    <3>3. CASE requests' = Sorted(r, kept)
      BY <1>0, <2>1, <3>1, <3>3
    <3> QED BY <2>2, <3>2, <3>3
  <2>4. /\ req[r].pc = "Admitted" /\ req'[r].pc \in {"Inserted", "Submitted"}
        /\ \A q \in Requests \ {r} : req'[q].pc = req[q].pc
    BY <1>4, InsertSortedFields DEF InsertSorted
  <2>5. Entering' = Entering \ {r} /\ r \in Entering /\ Callers' \subseteq Callers
    BY <2>4 DEF Entering, Callers, Inside
  <2>6. Cardinality(Entering') = Cardinality(Entering) - 1
    BY <1>c, <2>5, FS_RemoveElement
  <2>7. IsFiniteSet(Callers') /\ Cardinality(Callers') <= Cardinality(Callers) /\ Cardinality(Callers') \in Nat
    BY <1>c, <2>5, FS_Subset, FS_CardinalityType
  <2>8. Len(requests') + Cardinality(Entering') <= MaxQueueSize + MaxCallers - 1
    BY <1>0, <1>c, <2>3, <2>6 DEF BoundInv
  <2>9. Cardinality(Callers') <= MaxCallers
    BY <1>0, <1>c, <2>7 DEF BoundInv
  <2> QED BY <2>7, <2>8, <2>9 DEF BoundInv
<1> QED BY <1>1, <1>2, <1>3, <1>4, StepIsQuiet

(* QueueBounded is an invariant: callers that read the size of the queue   *)
(* at the same time exceed its limit by at most their number less one.     *)
THEOREM QueueNeverFarOverLimit == SafetySpec => []QueueBounded
<1> DEFINE Inv == TypeInv /\ PlacesInv /\ BoundInv
<1>1. Init => Inv
  BY TypeInit, PlacesInit, BoundInit
<1>2. Inv /\ [Next]_vars => Inv'
  BY TypeStep, PlacesStep, BoundStep
<1>3. ASSUME TypeInv, BoundInv PROVE QueueBounded
  <2> DEFINE admitted == {r \in Requests : req[r].pc = "Admitted"}
  <2>1. IsFiniteSet(Entering) /\ Cardinality(Entering) \in Nat
    BY <1>3, EnteringAreCallers DEF BoundInv
  <2>2. admitted \in SUBSET Entering
    BY DEF Entering
  <2>3. Cardinality(admitted) \in Nat /\ Cardinality(admitted) <= Cardinality(Entering)
    BY <2>1, <2>2, FS_Subset, FS_CardinalityType
  <2>4. Len(requests) \in Nat /\ MaxQueueSize \in Nat /\ MaxCallers \in Nat
    BY <1>3, QueryQueueAssumption DEF TypeInv, QueueTypeOK
  <2> HIDE DEF admitted
  <2>5. Len(requests) + Cardinality(admitted) <= MaxQueueSize + MaxCallers - 1
    BY <1>3, <2>1, <2>3, <2>4 DEF BoundInv
  <2> QED BY <2>5 DEF QueueBounded, admitted
<1> QED BY <1>1, <1>2, <1>3, PTL DEF SafetySpec
===============================================================================
