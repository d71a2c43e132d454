------------------------------- MODULE Planner -------------------------------
(***************************************************************************)
(* The pages that attach many subscriptions to an inbound: the connection  *)
(* planner (internal/webui/connection_handlers.go) and the last step of    *)
(* the onboarding of a server (onboarding_handlers.go), with the group     *)
(* pages (group_handlers.go) that change what they attach meanwhile.       *)
(*                                                                         *)
(* A plan is made from the published snapshot (catalog.go) and from the    *)
(* members of the chosen groups, which are read one group at a time, row   *)
(* and members in two statements.  Then CopyGroupsToInbound attaches one   *)
(* subscription after the other.  GroupMutations models an attachment in   *)
(* detail; here it is a step that succeeds, or fails, or fails although    *)
(* the panel did it.                                                       *)
(*                                                                         *)
(* Every inbound is on a server of its own, so that it names its server.   *)
(* A statement of the database may fail in any request; what is not done   *)
(* then is a step with the answer of the page.  The limit of 500           *)
(* subscriptions, the button that only marks onboarding as complete, forms *)
(* and rendering are left out.                                             *)
(***************************************************************************)
EXTENDS ClientGroups

CONSTANTS
  Nil,
  Plans,        \* connection and onboarding requests
  Edits,        \* requests of the group pages
  Inbounds,     \* VLESS inbounds, each on a server of its own
  OwnerOf,      \* Inbounds -> the user whose server it is on
  Groups0,      \* the database at the start: [groups, members]
  Held0,        \* the panels at the start: Inbounds -> Subs -> Presence
  Selections,   \* audiences that may be chosen: [scope, groups, subs]
  Visitors,     \* users who send requests
  MaxChanges    \* bound of the model: what others do on panels and servers

Jobs == Plans \cup Edits
Scopes == {"all", "groups", "subscriptions"}

ASSUME PlannerAssumption ==
  /\ MaxChanges \in Nat /\ Plans \cap Edits = {} /\ Visitors \subseteq Users
  /\ Selections \subseteq [scope : Scopes, groups : SUBSET GroupIds, subs : SUBSET Subs]
  /\ Nil \notin Users \cup Inbounds \cup GroupIds

\* No client record of the subscription, one on no inbound, one on the inbound.
Presence == {"absent", "record", "attached"}

\* The database and the panels at the start: rows have ids that were given out, and
\* members belong to rows.
ASSUME StartAssumption ==
  /\ Groups0.groups \subseteq [id : GroupIds, user : Users, name : Names]
  /\ Groups0.members \subseteq [group : GroupIds, sub : Subs]
  /\ Cardinality(Groups0.groups) \in 0..MaxGroups
  /\ \A r \in Groups0.groups : r.id <= Cardinality(Groups0.groups)
  /\ \A r, x \in Groups0.groups : r.id = x.id => r = x
  /\ \A m \in Groups0.members : \E r \in Groups0.groups : r.id = m.group
  /\ Held0 \in [Inbounds -> [Subs -> Presence]]

VARIABLES
  rows,       \* inbounds whose server row is stored
  onboarded,  \* inbounds whose server has onboarding_completed = 1
  panel,      \* Inbounds -> Subs -> Presence: what the panels hold
  enabled,    \* inbounds that are enabled
  shown,      \* Inbounds -> what the snapshot shows, or Nil: [ok, on, enabled]
  job,        \* the requests
  was,        \* history: what was true at some moment since a request began
  changes

siteVars == <<rows, onboarded, panel, enabled, shown, changes>>
plannerVars == <<groupVars, siteVars, job, was>>

NoJob == [pc |-> "idle", kind |-> Nil, who |-> Nil, target |-> Nil, scope |-> Nil,
         groups |-> {}, left |-> {}, group |-> Nil, subs |-> {}, cards |-> {}, on |-> {},
         todo |-> {}, planned |-> {}, made |-> {}, failed |-> FALSE, answer |-> Nil]
Nothing == [in |-> {}, out |-> {}, gone |-> FALSE, cards |-> {}, on |-> {}, seen |-> {},
            mutable |-> FALSE]

PlannerInit ==
  /\ groups = Groups0.groups /\ members = Groups0.members
  /\ lastGroup = Cardinality(Groups0.groups)
  /\ accounts = Users
  /\ rows = Inbounds
  /\ onboarded = {}
  /\ panel = Held0
  /\ enabled = Inbounds
  /\ shown = [t \in Inbounds |-> [ok |-> TRUE, on |-> Held0[t], enabled |-> TRUE]]
  /\ job = [q \in Jobs |-> NoJob]
  /\ was = [q \in Jobs |-> Nothing]
  /\ changes = 0

Is(q, l) == job[q].pc = l
Set(q, r) == job' = [job EXCEPT ![q] = r]
\* What is left of a request: what it was asked, a list of subscriptions included,
\* what it did and what it answered.
Ended(q, r, a) == [r EXCEPT !.pc = "done", !.answer = a, !.left = {}, !.cards = {}, !.on = {},
                     !.todo = {}, !.failed = FALSE,
                     !.subs = IF q \in Edits \/ r.scope = "subscriptions" THEN @ ELSE {}]
Answer(q, a) == Set(q, Ended(q, job[q], a))

-----------------------------------------------------------------------------
(* buildCatalog.                                                             *)

Shows(t, u) == shown[t] # Nil /\ OwnerOf[t] = u
Cards(u)    == {s \in Subs : \E t \in Inbounds : Shows(t, u) /\ shown[t].on[s] # "absent"}
On(t)       == {s \in Subs : shown[t] # Nil /\ shown[t].on[s] = "attached"}
Mutable(t, u) == Shows(t, u) /\ shown[t].ok /\ shown[t].enabled

\* ServerByID, for the user whose server it is.
Owned(t, u) == t \in rows /\ OwnerOf[t] = u

-----------------------------------------------------------------------------
(* Panels, servers and the refresh.                                         *)

\* What a refresh publishes for a server, now.
Fresh(t, held) == IF t \in rows THEN [ok |-> TRUE, on |-> held[t], enabled |-> t \in enabled]
                                   ELSE Nil

Refresh(t) ==
  /\ shown' = [shown EXCEPT ![t] = Fresh(t, panel)]
  /\ UNCHANGED <<groupVars, rows, onboarded, panel, enabled, job, changes>>

\* The panel does not answer: what was shown is kept and marked.
RefreshFails(t) ==
  /\ changes < MaxChanges
  /\ changes' = changes + 1
  /\ t \in rows /\ shown[t] # Nil
  /\ shown' = [shown EXCEPT ![t].ok = FALSE]
  /\ UNCHANGED <<groupVars, rows, onboarded, panel, enabled, job>>

\* Others attach and detach, on the panel or through client_handlers.go.
OthersChange(t, s, p) ==
  /\ changes < MaxChanges
  /\ changes' = changes + 1
  /\ panel' = [panel EXCEPT ![t][s] = p]
  /\ UNCHANGED <<groupVars, rows, onboarded, enabled, shown, job>>

OthersToggle(t) ==
  /\ changes < MaxChanges
  /\ changes' = changes + 1
  /\ enabled' = IF t \in enabled THEN enabled \ {t} ELSE enabled \cup {t}
  /\ UNCHANGED <<groupVars, rows, onboarded, panel, shown, job>>

\* The owner removes the server, or the account is deleted with all it owns.
ServerDeleted(t) ==
  /\ changes < MaxChanges
  /\ changes' = changes + 1
  /\ rows' = rows \ {t}
  /\ UNCHANGED <<groupVars, onboarded, panel, enabled, shown, job>>

UserDeleted(u) ==
  /\ changes < MaxChanges
  /\ changes' = changes + 1
  /\ rows' = {t \in rows : OwnerOf[t] # u}
  /\ DeleteAccount(u)
  /\ UNCHANGED <<onboarded, panel, enabled, shown, job>>

-----------------------------------------------------------------------------
(* The group pages: groupCreate and groupAction.                            *)

\* ClientGroupByID comes first; a group of another user is not found.
StartGroupAction(q, u, g, kind, S) ==
  /\ Is(q, "idle") /\ u \in accounts
  /\ \E a \in {IF FoundGroup(u, g) THEN Nil ELSE "missing", "error"} :
       Set(q, [NoJob EXCEPT !.pc = IF a = Nil THEN "action" ELSE "done",
                 !.kind = kind, !.who = u, !.groups = {g}, !.subs = S, !.answer = a])
  /\ UNCHANGED <<groupVars, siteVars>>

\* Its statement.  The page has one answer for a group that is gone, a name that is
\* taken and a database that fails.
GroupAction(q) ==
  /\ Is(q, "action")
  /\ \E g \in job[q].groups :
       LET u == job[q].who
       IN  \/ /\ job[q].kind = "delete"
              /\ DeleteClientGroup(u, g)
              /\ Answer(q, "ok")
           \/ /\ job[q].kind = "rename"
              /\ \E n \in Names : RenameClientGroup(u, g, n)
              /\ Answer(q, "ok")
           \/ /\ job[q].kind = "add"
              /\ AddClientGroupMembers(u, g, job[q].subs)
              /\ Answer(q, "ok")
           \/ /\ job[q].kind = "remove"
              /\ \E s \in job[q].subs : RemoveClientGroupMember(u, g, s)
              /\ IF members' # members THEN Answer(q, "ok")
                                       ELSE Set(q, [job[q] EXCEPT !.pc = "removed"])
           \/ Answer(q, "error") /\ UNCHANGED groupVars
  /\ UNCHANGED siteVars

\* No row was deleted: RemoveClientGroupMember asks whether the group is there.
CheckRemoved(q) ==
  /\ Is(q, "removed")
  /\ \/ (\E g \in job[q].groups : FoundGroup(job[q].who, g)) /\ Answer(q, "ok")
     \/ Answer(q, "error")
  /\ UNCHANGED <<groupVars, siteVars>>

GroupCreated(u, n) ==
  /\ CreateClientGroup(u, n)
  /\ UNCHANGED <<siteVars, job>>

-----------------------------------------------------------------------------
(* connectionApply and onboardingCopyUsers: the plan.                       *)

\* Chosen groups count only in the scope of groups.
GroupsOf(a) == IF a.scope = "groups" THEN a.groups ELSE {}

StartApply(q, u, t, a) ==
  /\ Is(q, "idle") /\ u \in accounts
  /\ Set(q, [NoJob EXCEPT !.pc = "plan", !.kind = "apply", !.who = u, !.target = t,
               !.scope = a.scope, !.groups = GroupsOf(a),
               !.subs = IF a.scope = "subscriptions" THEN a.subs ELSE {}])
  /\ UNCHANGED <<groupVars, siteVars>>

\* serverOnboarding looks the server up first.
StartOnboarding(q, u, t, a) ==
  /\ Is(q, "idle")
  /\ Owned(t, u)
  /\ a.scope # "subscriptions"
  /\ Set(q, [NoJob EXCEPT !.pc = "plan", !.kind = "onboard", !.who = u, !.target = t,
               !.scope = a.scope, !.groups = GroupsOf(a)])
  /\ UNCHANGED <<groupVars, siteVars>>

\* The snapshot is read once: what the user has, and what the target has of it.  A
\* plan also reads the memberships of groups, and ends if it cannot.
ReadCatalog(q) ==
  LET r == job[q]
      cards == Cards(r.who)
  IN  /\ Is(q, "plan")
      /\ \/ r.kind = "apply" /\ Answer(q, "refused")
         \/ /\ r.kind = "apply" => Mutable(r.target, r.who)
            /\ Set(q, [r EXCEPT !.pc = "groups", !.cards = cards, !.on = On(r.target),
                         !.left = r.groups,
                         !.subs = IF r.scope = "all" THEN cards ELSE @])
      /\ UNCHANGED <<groupVars, siteVars>>

\* A group that is not found, or whose row or members cannot be read, ends a plan;
\* onboarding goes on without it.
GroupFails(q, g) ==
  LET r == job[q]
  IN  IF r.kind = "onboard"
        THEN Set(q, [r EXCEPT !.pc = "groups", !.left = @ \ {g}, !.group = Nil])
        ELSE Answer(q, "refused")

\* ClientGroupByID: the row ...
ReadGroup(q, g) ==
  LET r == job[q]
  IN  /\ Is(q, "groups") /\ g \in r.left
      /\ \/ /\ FoundGroup(r.who, g)
            /\ Set(q, [r EXCEPT !.pc = "members", !.left = @ \ {g}, !.group = g])
         \/ GroupFails(q, g)
      /\ UNCHANGED <<groupVars, siteVars>>

\* ... and the members.
ReadMembers(q) ==
  LET r == job[q]
  IN  /\ Is(q, "members")
      /\ \/ Set(q, [r EXCEPT !.pc = "groups", !.subs = @ \cup MembersOf(r.group), !.group = Nil])
         \/ GroupFails(q, r.group)
      /\ UNCHANGED <<groupVars, siteVars>>

\* The subscriptions of the audience the user can see; a plan leaves out those
\* the snapshot shows on the target, and is done if it shows them all there.
Available_Catalogue(r) == IF r.scope = "subscriptions" THEN r.cards ELSE r.subs \cap r.cards
Available(r) == r.subs \cap r.cards
ToAdd(r) == IF r.kind = "apply" THEN Available(r) \ r.on ELSE Available(r)

Partition(q) ==
  LET r == job[q]
  IN  /\ Is(q, "groups") /\ r.left = {}
      /\ IF r.subs = {} \/ (r.kind = "onboard" /\ ToAdd(r) = {}) THEN Answer(q, "refused")
         ELSE IF ToAdd(r) = {} THEN Set(q, Ended(q, [r EXCEPT !.planned = Available(r)], "ok"))
         ELSE Set(q, [r EXCEPT !.pc = "open", !.todo = ToAdd(r), !.planned = Available(r)])
      /\ UNCHANGED <<groupVars, siteVars>>

-----------------------------------------------------------------------------
(* CopyGroupsToInbound.                                                      *)

\* The target is looked up and read, which may fail.
OpenTarget(q) ==
  LET r == job[q]
  IN  /\ Is(q, "open")
      /\ \/ Owned(r.target, r.who) /\ Set(q, [r EXCEPT !.pc = "copy"])
         \/ Answer(q, "refused")
      /\ UNCHANGED <<groupVars, siteVars>>

\* AttachGroup looks the server up again; it succeeds, or fails whatever the panel
\* did, and ends with a refresh.
Counted_AsAdded(r, s) == [r EXCEPT !.todo = @ \ {s}]
Counted(r, s) == [r EXCEPT !.todo = @ \ {s}, !.failed = TRUE]

AttachOne(q, s) ==
  LET r == job[q]
      t == r.target
      attaches == panel' = [panel EXCEPT ![t][s] = "attached"]
  IN  /\ Is(q, "copy") /\ s \in r.todo
      /\ \/ /\ Owned(t, r.who)
            /\ attaches
            /\ Set(q, [r EXCEPT !.todo = @ \ {s}, !.made = @ \cup {s}])
         \/ /\ Owned(t, r.who)
            /\ attaches
            /\ Set(q, [Counted(r, s) EXCEPT !.made = @ \cup {s}])
         \/ /\ UNCHANGED panel
            /\ Set(q, Counted(r, s))
      /\ \E x \in {shown[t], Fresh(t, panel')} : shown' = [shown EXCEPT ![t] = x]
      /\ UNCHANGED <<groupVars, rows, onboarded, enabled, changes>>

\* A caller that goes away ends the loop between two subscriptions.
Cancelled(q) ==
  /\ Is(q, "copy") /\ job[q].todo # {}
  /\ Answer(q, "refused")
  /\ UNCHANGED <<groupVars, siteVars>>

\* The answer: how many were added and how many failed.  Onboarding is complete
\* when none failed, but the error of CompleteServerOnboarding is ignored: that the
\* row is gone, or that the database failed.
CopyEnds(q) ==
  LET r == job[q]
  IN  /\ Is(q, "copy") /\ r.todo = {}
      /\ Answer(q, IF r.failed THEN "partial" ELSE "ok")
      /\ \/ /\ r.kind = "onboard" /\ ~r.failed /\ Owned(r.target, r.who)
            /\ onboarded' = onboarded \cup {r.target}
         \/ UNCHANGED onboarded
      /\ UNCHANGED <<groupVars, rows, panel, enabled, shown, changes>>

-----------------------------------------------------------------------------
PlannerStep ==
  \/ \E t \in Inbounds : Refresh(t) \/ RefreshFails(t) \/ OthersToggle(t) \/ ServerDeleted(t)
  \/ \E t \in Inbounds, s \in Subs, p \in Presence : OthersChange(t, s, p)
  \/ \E u \in Users : UserDeleted(u)
  \/ \E u \in Visitors, n \in Names : GroupCreated(u, n)
  \/ \E q \in Edits, u \in Visitors, g \in GroupIds, S \in SUBSET Subs :
       \/ StartGroupAction(q, u, g, "add", S)
       \/ \E kind \in {"delete", "rename"} : S = {} /\ StartGroupAction(q, u, g, kind, S)
       \/ (\E s \in Subs : S = {s}) /\ StartGroupAction(q, u, g, "remove", S)
  \/ \E q \in Plans, u \in Visitors, t \in Inbounds, a \in Selections :
       StartApply(q, u, t, a) \/ StartOnboarding(q, u, t, a)
  \/ \E q \in Edits : GroupAction(q) \/ CheckRemoved(q)
  \/ \E q \in Plans :
       \/ ReadCatalog(q) \/ ReadMembers(q) \/ Partition(q)
       \/ OpenTarget(q) \/ Cancelled(q) \/ CopyEnds(q)
       \/ \E g \in GroupIds : ReadGroup(q, g)
       \/ \E s \in Subs : AttachOne(q, s)

\* What the answer to a request may rely on, in the present state.
InGroups(r) == {s \in Subs : \E g \in r.groups : Owns(r.who, g) /\ s \in MembersOf(g)}
Facts(q) ==
  LET r == job[q]
  IN  [in      |-> InGroups(r),
       out     |-> IF q \in Edits THEN Subs \ InGroups(r) ELSE {},
       gone    |-> q \in Edits /\ \E g \in r.groups : ~Owns(r.who, g),
       cards   |-> IF q \in Plans THEN Cards(r.who) ELSE {},
       on      |-> {s \in Subs : r.target # Nil /\ panel[r.target][s] = "attached"},
       seen    |-> IF r.target # Nil /\ Mutable(r.target, r.who) THEN On(r.target) ELSE {},
       mutable |-> r.target # Nil /\ Mutable(r.target, r.who)]

Watch ==
  was' = [q \in Jobs |->
    IF job'[q].pc = "idle" \/ job[q].pc = "done" THEN was[q]
    ELSE LET w == was[q]
             n == Facts(q)'
         IN  [in      |-> w.in \cup n.in,
              out     |-> w.out \cup n.out,
              gone    |-> w.gone \/ n.gone,
              cards   |-> w.cards \cup n.cards,
              on      |-> w.on \cup n.on,
              seen    |-> w.seen \cup n.seen,
              mutable |-> w.mutable \/ n.mutable]]

PlannerNext == PlannerStep /\ Watch
PlannerSpec == PlannerInit /\ [][PlannerNext]_plannerVars

-----------------------------------------------------------------------------
(* Properties                                                               *)

Steps == {"idle", "action", "removed", "plan", "groups", "members", "open", "copy", "done"}
JobRecords ==
  [pc : Steps, kind : {Nil, "delete", "rename", "add", "remove", "apply", "onboard"},
   who : Users \cup {Nil}, target : Inbounds \cup {Nil}, scope : Scopes \cup {Nil},
   groups : SUBSET GroupIds, left : SUBSET GroupIds, group : GroupIds \cup {Nil},
   subs : SUBSET Subs, cards : SUBSET Subs, on : SUBSET Subs, todo : SUBSET Subs,
   planned : SUBSET Subs, made : SUBSET Subs, failed : BOOLEAN,
   answer : {Nil, "ok", "partial", "refused", "error", "missing"}]
Views == [ok : BOOLEAN, on : [Subs -> Presence], enabled : BOOLEAN]

PlannerTypeOK ==
  /\ groups \subseteq [id : GroupIds, user : Users, name : Names]
  /\ members \subseteq [group : GroupIds, sub : Subs]
  /\ accounts \subseteq Users /\ lastGroup \in 0..MaxGroups
  /\ rows \subseteq Inbounds /\ onboarded \subseteq Inbounds /\ enabled \subseteq Inbounds
  /\ panel \in [Inbounds -> [Subs -> Presence]]
  /\ shown \in [Inbounds -> Views \cup {Nil}]
  /\ changes \in Nat
  /\ job \in [Jobs -> JobRecords]

\* Whatever happens to groups, servers and snapshot while a plan is made and run,
\* it attaches only subscriptions that were in one of the user's own chosen
\* groups, or are in the chosen list, and were in the user's own catalogue, to an
\* inbound the user could change (buildConnectionPreview, CopyGroupsToInbound).
AttachesOnlyChosen ==
  \A q \in Jobs : LET r == job[q] IN r.made # {} =>
    /\ r.made \subseteq was[q].cards
    /\ r.scope = "groups" => r.made \subseteq was[q].in
    /\ r.scope = "subscriptions" => r.made \subseteq r.subs
    /\ OwnerOf[r.target] = r.who
    /\ r.kind = "apply" => was[q].mutable

\* What a group page reports as done was so at some moment of the request, and what
\* it reports as not found was gone.  When a plan or an onboarding ends with success,
\* every subscription it was for was on the panel at some moment of the request, or,
\* for a plan, was shown there by the snapshot while the target was shown as
\* readable: "already connected" says no more than that.  A server is marked as
\* onboarded only by an onboarding that ended with success; such an onboarding may
\* leave it unmarked (the ignored error of CompleteServerOnboarding).
GroupAnswersTrue ==
  /\ \A q \in Jobs : LET r == job[q] IN r.pc = "done" =>
       /\ r.answer = "missing" => was[q].gone
       /\ r.answer = "ok" =>
            /\ r.kind = "add" => r.subs \subseteq was[q].in
            /\ r.kind = "remove" => r.subs \subseteq was[q].out
            /\ r.kind = "delete" => was[q].gone
            /\ r.kind = "onboard" => r.planned \subseteq was[q].on
            /\ r.kind = "apply" => r.planned \subseteq was[q].on \cup was[q].seen
  /\ \A t \in onboarded : \E q \in Plans :
       job[q].pc = "done" /\ job[q].kind = "onboard" /\ job[q].answer = "ok" /\ job[q].target = t

=============================================================================
