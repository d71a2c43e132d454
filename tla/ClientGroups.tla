----------------------------- MODULE ClientGroups ----------------------------
(***************************************************************************)
(* The client groups of internal/storage: named sets of subscription ids   *)
(* that belong to a user.  Each operator is one SQL statement, or one      *)
(* transaction; the database has a single connection, so that statements   *)
(* and transactions follow one another.  Foreign keys are on.              *)
(***************************************************************************)
EXTENDS Integers, FiniteSets

CONSTANTS
  Users,
  Names,     \* normalized group names
  Subs,      \* subscription ids
  MaxGroups  \* bound of the model: groups ever created

ASSUME GroupsAssumption == MaxGroups \in Nat

VARIABLES
  groups,    \* rows of client_groups: id, user, name
  members,   \* rows of client_group_members: group, sub
  accounts,  \* users that have a row
  lastGroup  \* sqlite_sequence of client_groups

groupVars == <<groups, members, accounts, lastGroup>>

GroupIds == 1..MaxGroups
Group(g, u, n) == [id |-> g, user |-> u, name |-> n]
Member(g, s)   == [group |-> g, sub |-> s]

Owns(u, g)   == \E r \in groups : r.id = g /\ r.user = u
MembersOf(g) == {m.sub : m \in {x \in members : x.group = g}}
Taken(u, n, others) == \E r \in groups : r.user = u /\ r.name = n /\ r.id \notin others

\* CreateClientGroup: names are UNIQUE per user, ids AUTOINCREMENT, and the user
\* must exist.
CreateClientGroup(u, n) ==
  /\ u \in accounts
  /\ ~Taken(u, n, {})
  /\ lastGroup < MaxGroups
  /\ groups' = groups \cup {Group(lastGroup + 1, u, n)}
  /\ lastGroup' = lastGroup + 1
  /\ UNCHANGED <<members, accounts>>

\* ClientGroupByID: the row and, for its owner only, the members.
FoundGroup(u, g) == Owns(u, g)

RenameClientGroup(u, g, n) ==
  /\ FoundGroup(u, g)
  /\ ~Taken(u, n, {g})
  /\ groups' = {r \in groups : r.id # g} \cup {Group(g, u, n)}
  /\ UNCHANGED <<members, accounts, lastGroup>>

\* DeleteClientGroup, and what cascades.
DeleteClientGroup(u, g) ==
  /\ FoundGroup(u, g)
  /\ groups' = {r \in groups : r.id # g}
  /\ members' = {m \in members : m.group # g}
  /\ UNCHANGED <<accounts, lastGroup>>

AddClientGroupMembers(u, g, S) ==
  /\ FoundGroup(u, g)
  /\ members' = members \cup {Member(g, s) : s \in S}
  /\ UNCHANGED <<groups, accounts, lastGroup>>

\* The DELETE of RemoveClientGroupMember.
RemoveClientGroupMember(u, g, s) ==
  /\ members' = IF FoundGroup(u, g) THEN members \ {Member(g, s)} ELSE members
  /\ UNCHANGED <<groups, accounts, lastGroup>>

\* DeleteUser, and what cascades to groups.
DeleteAccount(u) ==
  /\ accounts' = accounts \ {u}
  /\ groups' = {r \in groups : r.user # u}
  /\ members' = {m \in members : m.group \in {r.id : r \in groups'}}
  /\ UNCHANGED lastGroup

=============================================================================
