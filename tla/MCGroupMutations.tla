---------------------------- MODULE MCGroupMutations ----------------------------
(* One server, stored as r1 and editable to r2, which leads to another panel. *)
(* New clients of groups a and b on i1 get the same name: it is equal once    *)
(* sanitized.  Group b has two records on i1 from before.                     *)
EXTENDS GroupMutations, TLC

CONSTANTS r1, r2, p1, p2, o1, o2, i1, i2, a, b

MCHostOf  == r1 :> "host" @@ r2 :> "host"
MCPanelOf == r1 :> p1 @@ r2 :> p2

MCBase == [x \in Subs \X Inbounds |-> IF x[2] = i1 THEN "n1" ELSE "n2"]

MCStored == p1 :> {Record(<<"old", 1>>, b, {i1}, 1), Record(<<"old", 2>>, b, {i1}, 2)}
            @@ p2 :> {}

MCPlan(k, gs, i) == [kind |-> k, server |-> 1, subs |-> gs, inbound |-> i]

MCPlans == {MCPlan("attach", <<a>>, i1), MCPlan("attach", <<a>>, i2),
            MCPlan("copy", <<a, b>>, i1), MCPlan("detach", <<b>>, i1)}

MCSymmetry == Permutations({o1, o2})

\* The row is stored from the start.
StoredInit == GroupInit /\ row = <<r1>>

StoredSpec == StoredInit /\ [][GroupNext]_groupVars

=============================================================================
