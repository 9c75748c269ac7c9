-------------------------- MODULE SubsequenceProofs --------------------------
(***************************************************************************)
(* What Without returns: the elements that stay, each as often as it was   *)
(* there and in the order they had.                                        *)
(***************************************************************************)
EXTENDS Subsequences, SequencesExt, TLAPS, SequenceTheorems, FiniteSetTheorems,
        NaturalsInduction

(* No element is twice in a sequence.                                      *)
NoRepeats(s) == \A i, j \in DOMAIN s : s[i] = s[j] => i = j

(* An enumeration of a set of numbers in ascending order.                  *)
Enumerates(f, S) ==
    /\ f \in [1..Cardinality(S) -> S]
    /\ \A i, j \in 1..Cardinality(S) : i < j => f[i] < f[j]
    /\ \A s \in S : \E i \in 1..Cardinality(S) : f[i] = s

(* The least-number principle, for a set of naturals.                      *)
LEMMA LeastNatural ==
    ASSUME NEW S \in SUBSET Nat, S # {}
    PROVE  \E m \in S : \A i \in S : m <= i
<1> DEFINE less == {pair \in Nat \X Nat : pair[1] < pair[2]}
<1>1. less = OpToRel(<, Nat)
  BY Zenon DEF OpToRel
<1>2. IsWellFoundedOn(less, Nat)
  BY <1>1, NatLessThanWellFounded
<1>3. \A i, m \in Nat : <<i, m>> \notin less => m <= i
  OBVIOUS
<1> HIDE DEF less
<1>4. \E m \in S : \A i \in S : <<i, m>> \notin less
  <2>1. S \subseteq Nat
    OBVIOUS
  <2> QED BY <1>2, <2>1, WFMin, Zenon
<1> QED BY <1>3, <1>4

(* A set of numbers of an interval is finite.                              *)
LEMMA SubsetOfInterval ==
    ASSUME NEW n \in Nat, NEW S \in SUBSET (1..n)
    PROVE  /\ IsFiniteSet(S) /\ Cardinality(S) \in Nat
           /\ Cardinality(S) <= n
<1>1. IsFiniteSet(1..n) /\ Cardinality(1..n) = n
  BY FS_Interval
<1> QED BY <1>1, FS_Subset, FS_CardinalityType

(* A set with an element above those of an enumerated set is enumerated.   *)
LEMMA EnumerateOneMore ==
    ASSUME NEW n \in Nat, NEW S \in SUBSET (1..n), NEW m \in Nat, n < m,
           NEW f, Enumerates(f, S)
    PROVE  \E g : Enumerates(g, S \cup {m})
<1>1. IsFiniteSet(S) /\ Cardinality(S) \in Nat /\ m \notin S
  BY SubsetOfInterval
<1> DEFINE c == Cardinality(S)
           g == [i \in 1..c + 1 |-> IF i <= c THEN f[i] ELSE m]
<1>2. Cardinality(S \cup {m}) = c + 1
  BY <1>1, FS_AddElement
<1> QED
  <2>0. c \in Nat
    BY <1>1
  <2> HIDE DEF c
  <2>f. f \in [1..c -> S] /\ (\A i, j \in 1..c : i < j => f[i] < f[j])
        /\ (\A s \in S : \E i \in 1..c : f[i] = s)
    BY DEF Enumerates, c
  <2>1. g \in [1..c + 1 -> S \cup {m}]
    <3>1. \A i \in 1..c + 1 : (IF i <= c THEN f[i] ELSE m) \in S \cup {m}
      BY <2>0, <2>f
    <3> QED BY <3>1
  <2>2. \A i, j \in 1..c + 1 : i < j => g[i] < g[j]
    <3> SUFFICES ASSUME NEW i \in 1..c + 1, NEW j \in 1..c + 1, i < j
                 PROVE  g[i] < g[j]
      OBVIOUS
    <3>1. i \in 1..c /\ g[i] = f[i] /\ f[i] \in S
      BY <2>0, <2>f
    <3>2. CASE j <= c
      BY <3>1, <3>2, <2>0, <2>f
    <3>3. CASE ~(j <= c)
      <4>1. g[j] = m
        BY <3>3
      <4>2. f[i] \in 1..n
        BY <3>1
      <4>3. f[i] < m
        BY <4>2
      <4> QED BY <3>1, <4>1, <4>3
    <3> QED BY <3>2, <3>3
  <2>3. \A s \in S \cup {m} : \E i \in 1..c + 1 : g[i] = s
    <3>1. g[c + 1] = m /\ c + 1 \in 1..c + 1
      BY <2>0
    <3>2. ASSUME NEW s \in S PROVE \E i \in 1..c + 1 : g[i] = s
      <4>1. PICK i \in 1..c : f[i] = s
        BY <2>f
      <4>2. i \in 1..c + 1 /\ i <= c
        BY <2>0
      <4>3. g[i] = f[i]
        BY <4>2
      <4> HIDE DEF g
      <4> QED BY <4>1, <4>2, <4>3
    <3> QED BY <3>1, <3>2
  <2> HIDE DEF g
  <2> QED BY <1>2, <2>1, <2>2, <2>3 DEF Enumerates, c

(* A set of numbers of an interval can be enumerated in ascending order.   *)
LEMMA EnumerationExists ==
    ASSUME NEW n \in Nat, NEW S \in SUBSET (1..n)
    PROVE  \E f : Enumerates(f, S)
<1> DEFINE Fine(k) == \A T \in SUBSET (1..k) : \E f : Enumerates(f, T)
           bad == {k \in Nat : ~Fine(k)}
<1> SUFFICES ASSUME bad # {} PROVE FALSE
  OBVIOUS
<1>1. PICK k \in bad : \A j \in bad : k <= j
  <2>1. bad \in SUBSET Nat /\ bad # {}
    OBVIOUS
  <2> HIDE DEF bad
  <2> QED BY <2>1, LeastNatural
<1>2. PICK T \in SUBSET (1..k) : ~ \E f : Enumerates(f, T)
  BY <1>1
<1>3. k \in Nat
  BY <1>1
<1>4. k # 0
  <2> SUFFICES ASSUME k = 0 PROVE FALSE
    OBVIOUS
  <2>0. T = {}
    <3>1. 1..0 = {}
      OBVIOUS
    <3> QED BY <3>1
  <2>1. Cardinality(T) = 0
    BY <2>0, FS_EmptySet
  <2>2. Enumerates([i \in {} |-> i], T)
    BY <2>0, <2>1 DEF Enumerates
  <2> QED BY <1>2, <2>2
<1>5. k - 1 \in Nat /\ Fine(k - 1)
  BY <1>1, <1>3, <1>4
<1> HIDE DEF bad
<1>6. T \ {k} \in SUBSET (1..k - 1)
  BY <1>3
<1>7. PICK f : Enumerates(f, T \ {k})
  BY <1>5, <1>6
<1>8. k \in T
  <2> SUFFICES ASSUME k \notin T PROVE FALSE
    OBVIOUS
  <2>1. T \ {k} = T
    OBVIOUS
  <2> QED BY <1>2, <1>7, <2>1
<1>9. \E g : Enumerates(g, (T \ {k}) \cup {k})
  <2>1. k - 1 < k
    BY <1>3
  <2> HIDE DEF Fine
  <2> QED BY <1>3, <1>5, <1>6, <1>7, <2>1, EnumerateOneMore
<1>10. (T \ {k}) \cup {k} = T
  BY <1>8
<1> QED BY <1>2, <1>9, <1>10

(* InOrder enumerates its set in ascending order.                          *)
LEMMA InOrderEnumerates ==
    ASSUME NEW n \in Nat, NEW S \in SUBSET (1..n)
    PROVE  Enumerates(InOrder(S), S)
<1> DEFINE f == InOrder(S)
           Increasing(g) == \A i, j \in DOMAIN g : i < j => g[i] < g[j]
<1>1. IsFiniteSet(S) /\ Cardinality(S) \in Nat
  BY SubsetOfInterval
<1>2. \E g \in [1..Cardinality(S) -> S] : Increasing(g)
  <2> PICK g : Enumerates(g, S)
    BY EnumerationExists
  <2>1. g \in [1..Cardinality(S) -> S] /\ Increasing(g)
    BY DEF Enumerates
  <2> QED BY <2>1
<1>3. f \in [1..Cardinality(S) -> S] /\ Increasing(f)
  <2>1. f = CHOOSE g \in [1..Cardinality(S) -> S] : Increasing(g)
    BY DEF InOrder
  <2> HIDE DEF f, Increasing
  <2> QED BY <1>2, <2>1
<1>4. f \in Injection(1..Cardinality(S), S)
  <2> SUFFICES ASSUME NEW i \in 1..Cardinality(S), NEW j \in 1..Cardinality(S), i # j
               PROVE  f[i] # f[j]
    BY <1>3 DEF Injection, IsInjective
  <2>1. f[i] \in 1..n /\ f[j] \in 1..n /\ (i < j => f[i] < f[j]) /\ (j < i => f[j] < f[i])
    BY <1>3
  <2> QED BY <2>1, <1>1
<1>5. f \in Surjection(1..Cardinality(S), S)
  <2>1. IsFiniteSet(1..Cardinality(S)) /\ Cardinality(1..Cardinality(S)) = Cardinality(S)
    BY <1>1, FS_Interval
  <2> HIDE DEF f
  <2> QED BY <1>1, <1>4, <2>1, FS_Injection
<1> QED BY <1>3, <1>5 DEF Enumerates, Surjection

(* Without keeps the other s, in their order.                       *)
LEMMA WithoutKeepsOrder ==
    ASSUME NEW R, NEW s \in Seq(R), NEW gone
    PROVE  /\ Without(s, gone) \in Seq(R) /\ Len(Without(s, gone)) <= Len(s)
           /\ \A n \in 1..Len(Without(s, gone)) : Without(s, gone)[n] \notin gone
           /\ \A i \in 1..Len(s) : s[i] \notin gone =>
                 \E n \in 1..Len(Without(s, gone)) : Without(s, gone)[n] = s[i]
           /\ \E f \in [1..Len(Without(s, gone)) -> 1..Len(s)] :
                 /\ \A n \in 1..Len(Without(s, gone)) : Without(s, gone)[n] = s[f[n]]
                 /\ \A m, n \in 1..Len(Without(s, gone)) : m < n => f[m] < f[n]
<1> DEFINE kept == {i \in DOMAIN s : s[i] \notin gone}
           f == InOrder(kept)
           w == Without(s, gone)
           k == Cardinality(kept)
<1>0. Len(s) \in Nat /\ DOMAIN s = 1..Len(s)
      /\ \A i \in 1..Len(s) : s[i] \in R
  OBVIOUS
<1>1. kept \in SUBSET (1..Len(s))
  BY <1>0
<1>2. w = [n \in 1..k |-> s[f[n]]]
  BY DEF Without
<1>3. \A i \in kept : i \in 1..Len(s) /\ s[i] \notin gone
  BY <1>0
<1>4. \A i \in 1..Len(s) : s[i] \notin gone => i \in kept
  BY <1>0
<1> HIDE DEF kept
<1>5. k \in Nat /\ k <= Len(s) /\ Enumerates(f, kept)
  BY <1>0, <1>1, SubsetOfInterval, InOrderEnumerates
<1> HIDE DEF w, f
<1>6. f \in [1..k -> kept] /\ (\A i, j \in 1..k : i < j => f[i] < f[j])
      /\ (\A x \in kept : \E i \in 1..k : f[i] = x)
  BY <1>5 DEF Enumerates
<1> HIDE DEF k
<1>7. \A n \in 1..k : f[n] \in kept /\ w[n] = s[f[n]]
  BY <1>2, <1>6
<1>8. w \in Seq(R) /\ Len(w) = k
  <2>1. \A n \in 1..k : s[f[n]] \in R
    BY <1>0, <1>3, <1>7
  <2>2. w \in [1..k -> R]
    BY <1>2, <2>1
  <2> QED BY <1>5, <2>2
<1>9. f \in [1..k -> 1..Len(s)]
  BY <1>3, <1>6
<1>10. \A n \in 1..k : w[n] \notin gone
  BY <1>3, <1>7
<1>11. \A i \in 1..Len(s) : s[i] \notin gone => \E n \in 1..k : w[n] = s[i]
  BY <1>4, <1>6, <1>7
<1> QED BY <1>5, <1>6, <1>7, <1>8, <1>9, <1>10, <1>11 DEF w

(* What holds of a sequence holds of it without some elements.             *)
LEMMA WithoutElements ==
    ASSUME NEW R, NEW s \in Seq(R), NEW gone
    PROVE  /\ Without(s, gone) \in Seq(R) /\ Len(Without(s, gone)) <= Len(s)
           /\ ToSet(Without(s, gone)) = ToSet(s) \ gone
           /\ NoRepeats(s) => NoRepeats(Without(s, gone))
<1> DEFINE w == Without(s, gone)
<1>1. /\ w \in Seq(R) /\ Len(w) <= Len(s)
      /\ \A n \in 1..Len(w) : w[n] \notin gone
      /\ \A i \in 1..Len(s) : s[i] \notin gone => \E n \in 1..Len(w) : w[n] = s[i]
  BY WithoutKeepsOrder
<1>2. PICK f \in [1..Len(w) -> 1..Len(s)] :
         /\ \A n \in 1..Len(w) : w[n] = s[f[n]]
         /\ \A m, n \in 1..Len(w) : m < n => f[m] < f[n]
  BY WithoutKeepsOrder
<1> HIDE DEF w
<1>3. /\ DOMAIN w = 1..Len(w) /\ DOMAIN s = 1..Len(s)
      /\ Len(w) \in Nat /\ Len(s) \in Nat
      /\ \A n \in 1..Len(w) : f[n] \in 1..Len(s)
  BY <1>1
<1>4. ToSet(w) = ToSet(s) \ gone
  <2>1. \A x : x \in ToSet(w) <=> \E n \in 1..Len(w) : x = w[n]
    BY <1>3 DEF ToSet
  <2>2. \A x : x \in ToSet(s) <=> \E i \in 1..Len(s) : x = s[i]
    BY <1>3 DEF ToSet
  <2> QED BY <1>1, <1>2, <1>3, <2>1, <2>2
<1>5. ASSUME NoRepeats(s) PROVE NoRepeats(w)
  <2> SUFFICES ASSUME NEW m \in 1..Len(w), NEW n \in 1..Len(w), w[m] = w[n], m # n
               PROVE  FALSE
    BY <1>3 DEF NoRepeats
  <2>1. f[m] = f[n]
    BY <1>2, <1>3, <1>5 DEF NoRepeats
  <2>2. (m < n => f[m] < f[n]) /\ (n < m => f[n] < f[m])
    BY <1>2
  <2> QED BY <1>3, <2>1, <2>2
<1> QED BY <1>1, <1>4, <1>5 DEF w
===============================================================================
