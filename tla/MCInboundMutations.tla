------------------------- MODULE MCInboundMutations -------------------------
(* Server 1 is copied to server 2, whose row r1 may be edited to r2, which     *)
(* leads to the same panel, or to r3, which leads to another one that has an   *)
(* inbound with the number, port and tag of the copy.  Group b has a record on *)
(* the target, group a has none.                                               *)
EXTENDS InboundMutations, TLC

CONSTANTS r1, r2, r3, p1, p2, a, b

MCHostOf  == r1 :> "host" @@ r2 :> "host" @@ r3 :> "host"
MCPanelOf == r1 :> p1 @@ r2 :> p1 @@ r3 :> p2
MCGroups  == <<a, b>>

MCStoredInbounds == p1 :> {Inbound(1, "old")} @@ p2 :> {Inbound(2, "copy")}
MCStoredRecords  == p1 :> {Record(1, b, {1})} @@ p2 :> {}

\* Both rows are stored from the start.
StoredInit == InboundInit /\ row = <<r1, r1>>

StoredSpec == StoredInit /\ [][InboundNext]_inboundVars

=============================================================================
