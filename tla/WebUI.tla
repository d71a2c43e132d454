-------------------------------- MODULE WebUI --------------------------------
(***************************************************************************)
(* The web interface over the database: internal/webui, internal/auth, the *)
(* users, sessions, invites and servers of internal/storage, and the       *)
(* bootstrap of the administrator in cmd/aggregator.                       *)
(*                                                                         *)
(* A request reads the session of its browser and runs its handler; every  *)
(* SQL statement is a step of its own, because the handlers open no        *)
(* transaction.  Foreign keys are on: an INSERT or UPDATE that names a     *)
(* deleted user fails, and deleting a user deletes its sessions and        *)
(* servers.  The process may be killed between any two statements.         *)
(*                                                                         *)
(* The form checks of lengths and characters, hashing, CSRF tokens and     *)
(* rendering are left out.                                                 *)
(***************************************************************************)
EXTENDS Integers, FiniteSets

CONSTANTS
  None,
  Requests,          \* requests that may run at once
  People,            \* who sends them, each with one browser
  Operator,          \* the one of them who wrote the configuration
  Logins, AdminLogin,
  Addresses, Tokens, \* what may be entered for a panel
  MaxUsers, MaxInvites, MaxServers \* bounds on what is ever created

ASSUME NoneAssumption == None \notin Nat \cup People
ASSUME OperatorAssumption == Operator \in People /\ AdminLogin \in Logins
ASSUME BoundAssumption == {MaxUsers, MaxInvites, MaxServers} \subseteq Nat

VARIABLES
  up,         \* the process is running
  users,      \* rows: id, login, admin; who knows the password; the invite, if any
  lastUser,   \* sqlite_sequence of users
  invites,    \* rows: token, used
  lastInvite, \* number of invites ever made
  session,    \* People -> the user of the session in their browser, or None
  servers,    \* rows: id, user, address, token
  lastServer, \* sqlite_sequence of servers
  req         \* the running requests

tables == <<users, lastUser, invites, lastInvite, session, servers, lastServer>>
webVars == <<up, users, lastUser, invites, lastInvite, session, servers, lastServer, req>>

User(i, l, a, p, v)   == [id |-> i, login |-> l, admin |-> a, who |-> p, invite |-> v]
ServerRow(s, u, a, t) == [id |-> s, user |-> u, address |-> a, token |-> t]
Idle == [pc |-> "idle", who |-> None, me |-> None, invite |-> 0, login |-> None, id |-> 0,
         row |-> None, blank |-> FALSE]

Init ==
  /\ up = FALSE
  /\ users = {} /\ lastUser = 0
  /\ invites = {} /\ lastInvite = 0
  /\ session = [p \in People |-> None]
  /\ servers = {} /\ lastServer = 0
  /\ req = [q \in Requests |-> Idle]

Exists(i)   == \E u \in users : u.id = i
HasLogin(l) == \E u \in users : u.login = l

At(q, l)      == req[q].pc = l
Begin(q, r)   == At(q, "idle") /\ up /\ req' = [req EXCEPT ![q] = r]
Goto(q, l)    == req' = [req EXCEPT ![q].pc = l]
Done(q)       == req' = [req EXCEPT ![q] = Idle]

-----------------------------------------------------------------------------
(* Store.                                                                    *)

\* CreateUser.  Ids are AUTOINCREMENT; the administrator's sub_prefix '' is UNIQUE.
NextUserId_Reused == Cardinality(users) + 1
NextUserId == lastUser + 1

Inserts(l, admin, p, v) ==
  /\ lastUser < MaxUsers
  /\ ~HasLogin(l)
  /\ admin => ~\E u \in users : u.admin
  /\ users' = users \cup {User(NextUserId, l, admin, p, v)}
  /\ lastUser' = lastUser + 1

\* CreateSession, which a foreign key refuses for a deleted user.
MayStart(i) == Exists(i)

\* DeleteUser, with what cascades.
DeletesUser(i) ==
  /\ users' = {u \in users : u.id # i}
  /\ session' = [p \in People |-> IF session[p] = i THEN None ELSE session[p]]
  /\ servers' = {s \in servers : s.user # i}

-----------------------------------------------------------------------------
(* cmd/aggregator.                                                           *)

\* ensureAdmin: an account under that login is left as it is.
Boot ==
  /\ ~up
  /\ up' = TRUE
  /\ \/ HasLogin(AdminLogin) /\ UNCHANGED <<users, lastUser>>
     \/ Inserts(AdminLogin, TRUE, Operator, None)
  /\ UNCHANGED <<invites, lastInvite, session, servers, lastServer, req>>

Kill ==
  /\ up
  /\ up' = FALSE
  /\ req' = [q \in Requests |-> Idle]
  /\ UNCHANGED tables

-----------------------------------------------------------------------------
(* login, logout and register.                                               *)

\* Authenticate.
Login(q, p) ==
  /\ session[p] = None
  /\ \E u \in users :
       /\ u.who = p
       /\ Begin(q, [Idle EXCEPT !.pc = "session", !.who = p, !.id = u.id])
  /\ UNCHANGED <<up, tables>>

Logout(q, p) ==
  /\ Begin(q, Idle)
  /\ session[p] # None
  /\ session' = [session EXCEPT ![p] = None]
  /\ UNCHANGED <<up, users, lastUser, invites, lastInvite, servers, lastServer>>

SessionExpires(p) ==
  /\ session[p] # None
  /\ session' = [session EXCEPT ![p] = None]
  /\ UNCHANGED <<up, users, lastUser, invites, lastInvite, servers, lastServer, req>>

\* ValidateInvite.
Register(q, p) ==
  /\ session[p] = None
  /\ \E v \in invites :
       /\ ~v.used
       /\ Begin(q, [Idle EXCEPT !.pc = "register", !.who = p, !.invite = v.token])
  /\ UNCHANGED <<up, tables>>

CheckLogin(q) ==
  /\ At(q, "register")
  /\ \E l \in Logins :
       IF HasLogin(l) THEN Done(q)
       ELSE req' = [req EXCEPT ![q].pc = "create", ![q].login = l]
  /\ UNCHANGED <<up, tables>>

CreateUser(q) ==
  /\ At(q, "create")
  /\ \/ /\ Inserts(req[q].login, FALSE, req[q].who, req[q].invite)
        /\ req' = [req EXCEPT ![q].pc = "mark", ![q].id = NextUserId]
     \/ HasLogin(req[q].login) /\ Done(q) /\ UNCHANGED <<users, lastUser>>
  /\ UNCHANGED <<up, invites, lastInvite, session, servers, lastServer>>

\* Its error is ignored: that the user is gone, or that the invite is.
MarkInviteUsed(q) ==
  /\ At(q, "mark")
  /\ invites' = IF Exists(req[q].id)
                  THEN {IF v.token = req[q].invite THEN [v EXCEPT !.used = TRUE] ELSE v :
                          v \in invites}
                  ELSE invites
  /\ Goto(q, "session")
  /\ UNCHANGED <<up, users, lastUser, lastInvite, session, servers, lastServer>>

StartSession(q) ==
  /\ At(q, "session")
  /\ session' = IF MayStart(req[q].id) THEN [session EXCEPT ![req[q].who] = req[q].id]
                                       ELSE session
  /\ Done(q)
  /\ UNCHANGED <<up, users, lastUser, invites, lastInvite, servers, lastServer>>

-----------------------------------------------------------------------------
(* Handlers that need a session.                                             *)

\* Middleware, RequireUser: the account as it is when the request comes in.
Enter(q, p) ==
  /\ \E u \in users : u.id = session[p] /\ Begin(q, [Idle EXCEPT !.pc = "in", !.who = p, !.me = u])
  /\ UNCHANGED <<up, tables>>

Me(q)      == req[q].me
IsAdmin(q) == At(q, "in") /\ Me(q).admin

\* An answer without effect.
Refuse(q) == At(q, "in") /\ Done(q) /\ UNCHANGED <<up, tables>>

InviteCreate(q) ==
  /\ IsAdmin(q)
  /\ lastInvite < MaxInvites
  /\ Exists(Me(q).id)
  /\ invites' = invites \cup {[token |-> lastInvite + 1, used |-> FALSE]}
  /\ lastInvite' = lastInvite + 1
  /\ Done(q)
  /\ UNCHANGED <<up, users, lastUser, session, servers, lastServer>>

\* Deleted or, which is the same to a registration, expired.
InviteDelete(q) ==
  /\ IsAdmin(q)
  /\ \E v \in invites : invites' = invites \ {v}
  /\ Done(q)
  /\ UNCHANGED <<up, users, lastUser, lastInvite, session, servers, lastServer>>

\* userDelete: not oneself, and no administrator.
MayDelete_Anyone(q, u) == TRUE
MayDelete(q, u) == u.id # Me(q).id /\ ~u.admin

UserDelete(q) ==
  /\ IsAdmin(q)
  /\ \E u \in users : MayDelete(q, u) /\ req' = [req EXCEPT ![q].pc = "delete", ![q].id = u.id]
  /\ UNCHANGED <<up, tables>>

DeleteUser(q) ==
  /\ At(q, "delete")
  /\ DeletesUser(req[q].id)
  /\ Done(q)
  /\ UNCHANGED <<up, lastUser, invites, lastInvite, lastServer>>

-----------------------------------------------------------------------------
(* serverNew and serverEdit.                                                 *)

\* The panel has accepted the token at the address.
ServerNew(q) ==
  /\ At(q, "in")
  /\ \E a \in Addresses, t \in Tokens :
       req' = [req EXCEPT ![q].pc = "insert", ![q].row = ServerRow(0, Me(q).id, a, t)]
  /\ UNCHANGED <<up, tables>>

CreateServer(q) ==
  /\ At(q, "insert")
  /\ \/ /\ lastServer < MaxServers
        /\ Exists(req[q].row.user)
        /\ servers' = servers \cup {[req[q].row EXCEPT !.id = lastServer + 1]}
        /\ lastServer' = lastServer + 1
     \/ UNCHANGED <<servers, lastServer>>
  /\ Done(q)
  /\ UNCHANGED <<up, users, lastUser, invites, lastInvite, session>>

\* ServerByID: only servers of the caller are found.
Finds(q, s) == s.user = Me(q).id

ServerEdit(q) ==
  /\ At(q, "in")
  /\ \E s \in servers : Finds(q, s) /\ req' = [req EXCEPT ![q].pc = "form", ![q].row = s]
  /\ UNCHANGED <<up, tables>>

\* The row is the one read, with what was entered; a new token has been checked, and
\* so has the one read if the address is new.
SubmitForm(q) ==
  /\ At(q, "form")
  /\ \E a \in Addresses, t \in Tokens \cup {None} :
       req' = [req EXCEPT
         ![q].pc = "select",
         ![q].blank = t = None,
         ![q].row = ServerRow(@.id, @.user, a, IF t = None THEN @.token ELSE t)]
  /\ UNCHANGED <<up, tables>>

\* UpdateServer looks whether the token is the stored one, to keep its ciphertext.
Stored(q) == {s \in servers : s.id = req[q].row.id /\ s.user = req[q].row.user}

SelectToken(q) ==
  /\ At(q, "select")
  /\ IF Stored(q) = {} THEN Done(q)
     ELSE Goto(q, IF \E s \in Stored(q) : s.token = req[q].row.token THEN "metadata" ELSE "all")
  /\ UNCHANGED <<up, tables>>

Written(q, s) == IF At(q, "metadata") THEN [s EXCEPT !.address = req[q].row.address] ELSE req[q].row

UpdateServer(q) ==
  /\ At(q, "metadata") \/ At(q, "all")
  /\ servers' = (servers \ Stored(q)) \cup {Written(q, s) : s \in Stored(q)}
  /\ Done(q)
  /\ UNCHANGED <<up, users, lastUser, invites, lastInvite, session, lastServer>>

DeleteServer(q) ==
  /\ At(q, "form")
  /\ servers' = servers \ Stored(q)
  /\ Done(q)
  /\ UNCHANGED <<up, users, lastUser, invites, lastInvite, session, lastServer>>

-----------------------------------------------------------------------------
Handle(q) ==
  \/ CheckLogin(q) \/ CreateUser(q) \/ MarkInviteUsed(q) \/ StartSession(q)
  \/ Refuse(q) \/ InviteCreate(q) \/ InviteDelete(q) \/ UserDelete(q) \/ DeleteUser(q)
  \/ ServerNew(q) \/ CreateServer(q) \/ ServerEdit(q) \/ SubmitForm(q) \/ SelectToken(q)
  \/ UpdateServer(q) \/ DeleteServer(q)

Next ==
  \/ Boot \/ Kill
  \/ \E p \in People : SessionExpires(p)
  \/ \E q \in Requests, p \in People : Login(q, p) \/ Logout(q, p) \/ Register(q, p) \/ Enter(q, p)
  \/ \E q \in Requests : Handle(q)

Spec == Init /\ [][Next]_webVars

-----------------------------------------------------------------------------
(* Properties.                                                              *)

UserRecords == [id : Nat, login : Logins, admin : BOOLEAN, who : People, invite : Nat \cup {None}]
ServerRows  == [id : Nat, user : Nat, address : Addresses, token : Tokens]
Places == {"idle", "register", "create", "mark", "session", "in", "delete", "insert", "form",
           "select", "metadata", "all"}
RequestRecords ==
  [pc : Places, who : People \cup {None}, me : UserRecords \cup {None}, invite : Nat,
   login : Logins \cup {None}, id : Nat, row : ServerRows \cup {None}, blank : BOOLEAN]

\* The types of the tables and of what a request remembers.
TypeOK ==
  /\ up \in BOOLEAN
  /\ users \subseteq UserRecords /\ lastUser \in Nat
  /\ invites \subseteq [token : Nat, used : BOOLEAN] /\ lastInvite \in Nat
  /\ session \in [People -> Nat \cup {None}]
  /\ servers \subseteq ServerRows /\ lastServer \in Nat
  /\ req \in [Requests -> RequestRecords]

\* A browser is only ever logged in to an account whose password its owner gave, even
\* if that account was deleted, and another made, before the session was stored.
SessionIsOwn ==
  \A p \in People : \A u \in users : session[p] = u.id => u.who = p

\* Sessions and servers never outlive, or miss, their account.
NoOrphans ==
  /\ \A p \in People : session[p] # None => Exists(session[p])
  /\ \A s \in servers : Exists(s.user)

\* Once there are accounts, the configured administrator is one of them and the only
\* administrator: nothing locks the operator out, and a restart always comes up.
AdminStays ==
  /\ users # {} => HasLogin(AdminLogin)
  /\ \A u \in users : u.admin <=> u.login = AdminLogin

\* A server changes only in a request of the person who owns it, or by the deletion
\* of the owner's account.
OnlyOwnServers ==
  [][\A s \in servers \ servers' :
       \/ ~\E u \in users' : u.id = s.user
       \/ \E q \in Requests : \E u \in users :
            u.id = s.user /\ u.who = req[q].who /\ req'[q] # req[q]]_webVars

\* storage.go calls an invite a one-time token of registration.
InviteOnce ==
  \A u, v \in users : u.invite = v.invite /\ u.invite # None => u = v

\* The design keeps the stored token when the token field of the form is empty.
BlankKeepsToken ==
  [][\A q \in Requests : \A s \in servers, t \in servers' :
       /\ req[q].pc \in {"metadata", "all"} /\ req[q].blank /\ req'[q] # req[q] /\ up'
       /\ s.id = t.id /\ s.id = req[q].row.id
       => t.token = s.token]_webVars

=============================================================================
