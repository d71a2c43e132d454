--------------------------- MODULE MCSubscription ---------------------------
(* Instances of Subscription for TLC.                                       *)
EXTENDS Subscription, TLC

CONSTANTS r1, r2, q1, q2, loop

\* r1 and r2 share a public host.
MCHostOf == r1 :> "host" @@ r2 :> "host"

MCSymmetry == Permutations({q1, q2})

\* The subscription is on the panel of r1, the row of the first server.  Only that
\* row is written; one refresh runs, and neither the ticker nor the handler that
\* wrote starts another.  A read of the table fails for a request only.
StoredInit  == SubInit /\ \A s \in Servers : row[s] = IF s = 1 THEN r1 ELSE r2
OneRefresh  ==
  /\ SubNext
  /\ \A s \in Servers \ {1} : row'[s] = row[s]
  /\ trigger' = trigger
  /\ faults' # faults => UNCHANGED <<pc, at>>
  /\ \A r \in Refreshers : pc[r] = "idle" => pc'[r] = "idle"

StoredSpec     == StoredInit /\ [][OneRefresh]_allVars
StoredFairSpec == StoredSpec /\ SubFairness

=============================================================================
