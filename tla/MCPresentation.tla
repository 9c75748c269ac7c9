---------------------------- MODULE MCPresentation ----------------------------
(***************************************************************************)
(* Instances of Presentation for TLC: requests for the same level of a     *)
(* hierarchy in two iModels, which keep each other from starting, and a    *)
(* change of the first iModel, which keeps its requests from starting.     *)
(***************************************************************************)
EXTENDS Presentation, TLC

CONSTANTS c1, c2, root

MCRequests ==
    {[id |-> 1, kind |-> "Nodes", conn |-> c1, parent |-> root, priority |-> 0],
     [id |-> 2, kind |-> "Nodes", conn |-> c2, parent |-> root, priority |-> 1],
     [id |-> 3, kind |-> "InstancesChanged", conn |-> c1, parent |-> root, priority |-> 1000]}

MCAllocations == (0 :> 1) @@ (1000 :> 1)
===============================================================================
