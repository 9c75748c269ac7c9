----------------------------- MODULE Subsequences -----------------------------
(***************************************************************************)
(* A sequence without some of its elements, as erasing them from a list or *)
(* a deque leaves it.  It is SelectSeq put without recursion, so that      *)
(* facts about it can be proved.                                           *)
(***************************************************************************)
EXTENDS Naturals, FiniteSets, Sequences

(* The numbers of S in ascending order.                                    *)
InOrder(S) ==
    CHOOSE f \in [1..Cardinality(S) -> S] : \A i, j \in DOMAIN f : i < j => f[i] < f[j]

(* What is left of s when the elements of gone are erased.                 *)
Without(s, gone) ==
    LET kept == {i \in DOMAIN s : s[i] \notin gone}
    IN  [n \in 1..Cardinality(kept) |-> s[InOrder(kept)[n]]]
===============================================================================
