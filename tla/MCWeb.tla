-------------------------------- MODULE MCWeb --------------------------------
(***************************************************************************)
(* The accounts and server forms, the group pages and the planner, the     *)
(* limiter in front of them and the panel client behind them.  They share  *)
(* no state in the model, so that one run checks each of them alone: the   *)
(* initial state chooses whose steps are taken, and the others stay as     *)
(* they began.                                                             *)
(***************************************************************************)
EXTENDS WebUI, RateLimit, PanelClient, Planner, TLC

CONSTANTS q1, q2, root, ann, bob, k1, k2, a1, e1, u1, u2, s1, s2, x, y, n1

VARIABLE part

mcVars == <<webVars, limitVars, panelVars, plannerVars, part>>

\* Two inbounds of two users, each with a group of the same name; u1 chose groups,
\* one of them the other user's, everything, or a list.
MCOwner  == s1 :> u1 @@ s2 :> u2
MCGroups == [groups  |-> {Group(1, u1, n1), Group(2, u2, n1)},
             members |-> {Member(1, x), Member(2, y)}]
MCHeld   == s1 :> (x :> "record" @@ y :> "absent") @@ s2 :> (x :> "absent" @@ y :> "record")
MCSelections ==
  {[scope |-> "groups", groups |-> {1}, subs |-> {}],
   [scope |-> "groups", groups |-> {1, 2}, subs |-> {}],
   [scope |-> "all", groups |-> {}, subs |-> {}],
   [scope |-> "subscriptions", groups |-> {}, subs |-> {x}]}

MCSymmetry == Permutations({q1, q2}) \cup Permutations({ann, bob})

\* The parts that do not run begin in one state.
MCInit ==
  /\ Init /\ LimitInit /\ PanelInit /\ PlannerInit
  /\ part \in {"pages", "limiter", "panel", "planner"}
  /\ opened \in IF part = "limiter" THEN {0, 2, 9} ELSE {0}
  /\ part # "panel" => list = <<>> /\ habit = "pages" /\ op = "list"

\* A call of the panel client ends; nothing else does.
PanelRests == phase \notin Waiting /\ stray = 0 /\ UNCHANGED panelVars

MCNext ==
  /\ UNCHANGED part
  /\ \/ part = "pages" /\ Next /\ UNCHANGED <<limitVars, panelVars, plannerVars>>
     \/ part = "limiter" /\ LimitNext /\ UNCHANGED <<webVars, panelVars, plannerVars>>
     \/ part = "panel" /\ (PanelNext \/ PanelRests) /\ UNCHANGED <<webVars, limitVars, plannerVars>>
     \/ part = "planner" /\ PlannerNext /\ UNCHANGED <<webVars, limitVars, panelVars>>

MCSpec == MCInit /\ [][MCNext]_mcVars

=============================================================================
