----------------------------- MODULE MCQueryQueue -----------------------------
(***************************************************************************)
(* Instances of QueryQueue for TLC.  No request and no executor differs    *)
(* from another: runs without liveness properties use the symmetry.        *)
(***************************************************************************)
EXTENDS QueryQueue, TLC

CONSTANTS r1, r2, r3, r4, e1, e2, token

Symmetry == Permutations(Requests) \cup Permutations(Executors)
===============================================================================
