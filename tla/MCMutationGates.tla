--------------------------- MODULE MCMutationGates ---------------------------
(* Key 1 is an inbound, key 2 a group.  Editing or deleting the inbound       *)
(* needs {1}, attaching or detaching the group {2}, copying the inbound with  *)
(* the group {1, 2}.  The heap has one gate object per key: no more are       *)
(* reachable at once.                                                         *)
EXTENDS MutationGates, TLC

CONSTANTS o1, o2, o3, g1, g2

MCOps == {o1, o2, o3}
MCTwoKeys == {1, 2}
MCTwoKeyPlans == {{1}, {2}, {1, 2}}
MCPairHeap == {g1, g2}

=============================================================================
