--------------------------- MODULE GroupMutations ---------------------------
(***************************************************************************)
(* internal/aggregator/mutations.go and bulk_copy.go: attaching the client *)
(* records of a subscription group to an inbound of a panel, detaching     *)
(* them, and attaching many groups in one request.                         *)
(*                                                                         *)
(* A mutation takes the gate of its group, opens a connection, reads the   *)
(* clients of the panel, decides from them and posts the change over the   *)
(* same connection, checking before and after every call that the          *)
(* connection is still the one of the stored row.  It ends with a refresh  *)
(* and gives the gate back.  A panel may answer, refuse or lose a call, or *)
(* execute it only after the mutation has given up.                        *)
(*                                                                         *)
(* The gate of a group keeps other mutations of that group away, not those *)
(* of inbounds: DeleteInbound holds the gate of its inbound only, and may  *)
(* take away what a mutation has just attached.  A copy of an inbound that *)
(* fails takes back the records it made; it holds the gates of its groups. *)
(*                                                                         *)
(* Connections are those of Connections, the gates those of Gates; the     *)
(* refresh is that of Refresh, reduced to the panel the mutation changed.  *)
(***************************************************************************)
EXTENDS Connections, Sequences, FiniteSetsExt

CONSTANTS
  Ops,      \* mutation requests
  Subs,     \* subscription groups
  Inbounds, \* inbound ids
  VLESS,    \* the inbounds that take new clients
  Panels,   \* the databases of 3x-ui
  PanelOf,  \* Revs -> Panels: where the address of a row leads
  Base,     \* [Subs \X Inbounds -> names]: the sanitized name of a new client
  Stored,   \* Panels -> the clients a panel has at the start
  Plans,    \* the requests that may be made
  MaxStarts, \* bound on the requests
  MaxUpsets \* bound on the posts executed after their caller gave up, the inbounds
            \* deleted and the records taken back, together

ASSUME VLESSAssumption == VLESS \subseteq Inbounds
ASSUME BoundAssumption == MaxStarts \in Nat /\ MaxUpsets \in Nat
ASSUME OpsAssumption == None \notin Ops
ASSUME PanelOfAssumption == PanelOf \in [Revs -> Panels]

PlanRecords == [kind : {"attach", "detach", "copy"}, server : Servers,
                subs : Seq(Subs) \ {<<>>}, inbound : Inbounds]

ASSUME PlansAssumption == Plans \subseteq PlanRecords

VARIABLES
  panel,     \* Panels -> set of client records
  owned,     \* the gates that are taken
  late,      \* set of <<mutation, post>>: given up by the caller, not yet executed
  delays,    \* number of posts whose caller gave up before they were executed
  removals,  \* number of inbounds deleted and of records taken back in time
  orphaned,  \* the mutations whose inbound was deleted since they connected
  freed,     \* <<panel, name>>: a record of that name was taken back
  starts,    \* number of requests so far
  opc,       \* where each mutation is
  plan,      \* what it was asked to do
  conn,      \* the connection it holds
  inventory, \* the clients it read and still has to decide from, or {}
  emails,    \* the clients it still has to detach
  sent,      \* the post the panel has not answered, or None
  result,    \* "none", "ok", "noop", "error": what it returns for its group
  mu,        \* the holder of refreshMu, or None
  view,      \* what the refresh of a mutation read, or None
  fresh,     \* its refresh published what it read over the same connection
  shown      \* Servers -> the attachments in the snapshot

undoVars  == <<removals, orphaned, freed>>
panelVars == <<panel, late, delays, undoVars>>
opVars    == <<starts, opc, plan, conn, inventory, emails, sent, result>>
snapVars  == <<mu, view, fresh, shown>>
groupVars == <<aggVars, panelVars, owned, opVars, snapVars>>

Gate == INSTANCE Gates WITH GateKeys <- Servers \X Subs, Operations <- Ops

\* A client record of a panel.
Record(e, g, on, n) == [email |-> e, sub |-> g, on |-> on, id |-> n]

IsRecord(c) ==
  /\ c = Record(c.email, c.sub, c.on, c.id)
  /\ c.sub \in Subs /\ c.on \subseteq Inbounds /\ c.id \in Nat

\* A panel has one client of an email.
ASSUME StoredAssumption ==
  /\ DOMAIN Stored = Panels
  /\ \A p \in Panels :
       /\ IsFiniteSet(Stored[p])
       /\ \A c \in Stored[p] : IsRecord(c)
       /\ \A c, d \in Stored[p] : c.email = d.email => c = d

\* The three posts that change one.
Post(kind, p, e, g, i) == [kind |-> kind, panel |-> p, email |-> e, sub |-> g, inbound |-> i]

GroupInit ==
  /\ ConnInit
  /\ panel = Stored
  /\ owned = {} /\ late = {} /\ delays = 0
  /\ removals = 0 /\ orphaned = {} /\ freed = {}
  /\ starts = 0
  /\ opc = [o \in Ops |-> "idle"]
  /\ plan = [o \in Ops |-> None]
  /\ conn = [o \in Ops |-> None]
  /\ inventory = [o \in Ops |-> {}]
  /\ emails = [o \in Ops |-> {}]
  /\ sent = [o \in Ops |-> None]
  /\ result = [o \in Ops |-> "none"]
  /\ mu = None
  /\ view = [o \in Ops |-> None]
  /\ fresh = [o \in Ops |-> FALSE]
  /\ shown = [s \in Servers |-> {}]

Is(o, l) == opc[o] = l
To(o, l) == opc' = [opc EXCEPT ![o] = l] /\ UNCHANGED starts

ServerOf(o) == plan[o].server
Target(o)   == plan[o].inbound
Group(o)    == Head(plan[o].subs)
GateOf(o)   == <<ServerOf(o), Group(o)>>

\* The mutation is over for this group: what it returns, and where it goes on.
Ends(o, r, l) == To(o, l) /\ result' = [result EXCEPT ![o] = r]

-----------------------------------------------------------------------------
(* ensureMutationGeneration.                                                 *)

\* The connection is open and its row is the stored one.
Fenced_AnyTime(o) == TRUE
Fenced(o) == Current(conn[o]) /\ row[ServerOf(o)] = conn[o].rev

\* It is not, or the row cannot be read; a changed row is observed.
Unfenced(o) ==
  \/ ~Fenced(o) /\ IF Current(conn[o]) THEN Lookup({ServerOf(o)}) ELSE UNCHANGED aggVars
  \/ UNCHANGED aggVars

-----------------------------------------------------------------------------
(* Up to the decision.                                                      *)

Start(o) ==
  /\ Is(o, "idle")
  /\ starts < MaxStarts
  /\ starts' = starts + 1
  /\ \E p \in Plans :
       /\ plan' = [plan EXCEPT ![o] = p]
       /\ opc' = [opc EXCEPT ![o] = IF p.kind = "copy" THEN "open" ELSE "gate"]
  /\ UNCHANGED <<aggVars, panelVars, owned, conn, inventory, emails, sent, result,
                 snapVars>>

\* CopyGroupsToInbound looks at the target once, before the first group, and
\* gives up if that fails.
OpenCopy(o) ==
  /\ Is(o, "open")
  /\ \/ Connect(ServerOf(o)) /\ Target(o) \in VLESS /\ To(o, "gate") /\ UNCHANGED plan
     \/ UNCHANGED aggVars /\ To(o, "idle") /\ plan' = [plan EXCEPT ![o] = None]
  /\ UNCHANGED <<panelVars, owned, conn, inventory, emails, sent, result, snapVars>>

\* acquireMutationGate, which the request may leave by hanging up.
TakeGate_NoWait(o) ==
  /\ Is(o, "gate")
  /\ owned' = owned \cup {<<o, GateOf(o)>>}
  /\ To(o, "connect")
  /\ UNCHANGED <<aggVars, panelVars, plan, conn, inventory, emails, sent, result,
                 snapVars>>

TakeGate(o) ==
  /\ Is(o, "gate")
  /\ Gate!Acquire(o, GateOf(o))
  /\ To(o, "connect")
  /\ UNCHANGED <<aggVars, panelVars, plan, conn, inventory, emails, sent, result,
                 snapVars>>

LeaveGate(o) ==
  /\ Is(o, "gate")
  /\ Ends(o, "error", "next")
  /\ UNCHANGED <<aggVars, panelVars, owned, plan, conn, inventory, emails, sent,
                 snapVars>>

\* ownedMutationClient.
OpenConnection(o) ==
  /\ Is(o, "connect")
  /\ \/ /\ Connect(ServerOf(o))
        /\ conn' = [conn EXCEPT ![o] = Connected(ServerOf(o))]
        /\ To(o, "list")
        /\ UNCHANGED result
     \/ /\ UNCHANGED aggVars \/ Lookup({ServerOf(o)})
        /\ Ends(o, "error", "release")
        /\ UNCHANGED conn
  /\ UNCHANGED <<panelVars, owned, plan, inventory, emails, sent, snapVars>>

\* ListClients; its answer counts once the connection has been checked.
ListClients(o) ==
  /\ Is(o, "list")
  /\ inventory' = [inventory EXCEPT ![o] = panel[PanelOf[conn[o].rev]]]
  /\ To(o, "decide")
  /\ UNCHANGED <<aggVars, panelVars, owned, plan, conn, emails, sent, result, snapVars>>

\* A call on the way to the decision fails, or the connection is not current.
ReadFails(o) ==
  /\ Is(o, "list") \/ Is(o, "decide")
  /\ Unfenced(o)
  /\ inventory' = [inventory EXCEPT ![o] = {}]
  /\ Ends(o, "error", "release")
  /\ UNCHANGED <<panelVars, owned, plan, conn, emails, sent, snapVars>>

-----------------------------------------------------------------------------
(* The decision.                                                            *)

\* exactClientSummaries, and those of them on the target.
Exact(o)    == {c \in inventory[o] : c.sub = Group(o)}
Attached(o) == {c \in Exact(o) : Target(o) \in c.on}

\* canonicalAttachClient, once freshClientDetail has filled in the record ids.
Canonical(C) == CHOOSE c \in C : \A d \in C : c.id <= d.id

\* uniqueClientEmail: the first name that no client in the inventory has.
Taken(o, n) == \E c \in inventory[o] : c.email = <<Base[<<Group(o), Target(o)>>], n>>
FreeEmail_Any(o) == <<Base[<<Group(o), Target(o)>>], o>>
FreeEmail(o) ==
  <<Base[<<Group(o), Target(o)>>], Min({n \in 1..(Cardinality(inventory[o]) + 1) : ~Taken(o, n)})>>

\* What AttachGroup posts: an attachment of a record the group has, or a new one.
Attachment(o) ==
  IF Exact(o) = {}
    THEN Post("add", PanelOf[conn[o].rev], FreeEmail(o), Group(o), Target(o))
    ELSE Post("attach", PanelOf[conn[o].rev], Canonical(Exact(o)).email, Group(o), Target(o))

\* The target is only looked at to create a client on it (createGroupClient).
Attachable(o) == Exact(o) # {} \/ Target(o) \in VLESS

\* The decision, on a connection that is still current.
Decides(o) == Is(o, "decide") /\ Fenced(o)

DecideNoop(o) ==
  /\ Decides(o)
  /\ (plan[o].kind = "detach") <=> (Attached(o) = {})
  /\ Ends(o, "noop", "refresh")
  /\ inventory' = [inventory EXCEPT ![o] = {}]
  /\ UNCHANGED <<aggVars, panelVars, owned, plan, conn, emails, sent, snapVars>>

DecideAttach(o) ==
  /\ Decides(o)
  /\ plan[o].kind # "detach" /\ Attached(o) = {}
  /\ IF Attachable(o)
       THEN sent' = [sent EXCEPT ![o] = Attachment(o)] /\ Ends(o, "ok", "post")
       ELSE UNCHANGED sent /\ Ends(o, "error", "release")
  /\ inventory' = [inventory EXCEPT ![o] = {}]
  /\ UNCHANGED <<aggVars, panelVars, owned, plan, conn, emails, snapVars>>

DecideDetach(o) ==
  /\ Decides(o)
  /\ plan[o].kind = "detach" /\ Attached(o) # {}
  /\ emails' = [emails EXCEPT ![o] = {c.email : c \in Attached(o)}]
  /\ inventory' = [inventory EXCEPT ![o] = {}]
  /\ Ends(o, "ok", "detach")
  /\ UNCHANGED <<aggVars, panelVars, owned, plan, conn, sent, snapVars>>

-----------------------------------------------------------------------------
(* runMutationPOSTOutcome, and the panel.                                    *)

SendAttachment(o) ==
  /\ Is(o, "post")
  /\ \/ Fenced(o) /\ To(o, "await") /\ UNCHANGED <<aggVars, sent, result>>
     \/ Unfenced(o) /\ Ends(o, "error", "refresh") /\ sent' = [sent EXCEPT ![o] = None]
  /\ UNCHANGED <<panelVars, owned, plan, conn, inventory, emails, snapVars>>

\* The loop of DetachGroup, one post per client; a failure does not end it.
SendDetachment(o) ==
  /\ Is(o, "detach")
  /\ \E e \in emails[o] :
       /\ emails' = [emails EXCEPT ![o] = @ \ {e}]
       /\ \/ /\ Fenced(o)
             /\ sent' = [sent EXCEPT
                  ![o] = Post("detach", PanelOf[conn[o].rev], e, Group(o), Target(o))]
             /\ To(o, "await")
             /\ UNCHANGED <<aggVars, result>>
          \/ Unfenced(o) /\ Ends(o, "error", "detach") /\ UNCHANGED sent
  /\ UNCHANGED <<panelVars, owned, plan, conn, inventory, snapVars>>

DetachEnds(o) ==
  /\ Is(o, "detach") /\ emails[o] = {}
  /\ To(o, "refresh")
  /\ UNCHANGED <<aggVars, panelVars, owned, plan, conn, inventory, emails, sent, result,
                 snapVars>>

\* A panel knows a client by its email.
Named(m) == {c \in panel[m.panel] : c.email = m.email}

\* It takes a new client only under a new email, and changes only one it has.
Accepts(m) == (m.kind = "add") <=> (Named(m) = {})

NextId(p) == 1 + Max({0} \cup {c.id : c \in panel[p]})

On(m, c) == IF m.kind = "detach" THEN c.on \ {m.inbound} ELSE c.on \cup {m.inbound}

Changes(m) ==
  IF m.kind = "add"
    THEN panel[m.panel] \cup {Record(m.email, m.sub, {m.inbound}, NextId(m.panel))}
    ELSE (panel[m.panel] \ Named(m)) \cup {[c EXCEPT !.on = On(m, c)] : c \in Named(m)}

Executes(m) == panel' = IF Accepts(m) THEN [panel EXCEPT ![m.panel] = Changes(m)] ELSE panel

\* The post comes back; without a good answer the mutation has failed.
Returns(o, good) ==
  /\ Is(o, "await")
  /\ sent' = [sent EXCEPT ![o] = None]
  /\ Ends(o, IF good THEN result[o] ELSE "error", "confirm")
  /\ UNCHANGED <<aggVars, owned, plan, conn, inventory, emails, snapVars>>

PanelAnswers(o) ==
  /\ Is(o, "await")
  /\ Executes(sent[o])
  /\ Returns(o, Accepts(sent[o])) \/ Returns(o, FALSE)
  /\ UNCHANGED <<late, delays, undoVars>>

PostFails(o) == Returns(o, FALSE) /\ UNCHANGED panelVars

PostDelayed(o) ==
  /\ delays + removals < MaxUpsets
  /\ late' = late \cup {<<o, sent[o]>>}
  /\ delays' = delays + 1
  /\ Returns(o, FALSE)
  /\ UNCHANGED <<panel, undoVars>>

PostArrives(x) ==
  /\ late' = late \ {x}
  /\ Executes(x[2])
  /\ UNCHANGED <<aggVars, delays, undoVars, owned, opVars, snapVars>>

\* The check after the post.
Confirm(o) ==
  /\ Is(o, "confirm")
  /\ \/ Fenced(o) /\ UNCHANGED <<aggVars, result>>
     \/ Unfenced(o) /\ result' = [result EXCEPT ![o] = "error"]
  /\ To(o, IF plan[o].kind = "detach" THEN "detach" ELSE "refresh")
  /\ UNCHANGED <<panelVars, owned, plan, conn, inventory, emails, sent, snapVars>>

-----------------------------------------------------------------------------
(* The refresh at the end, and the return.                                   *)

Attachments(p) == UNION {{c.sub} \X c.on : c \in panel[p]}

\* refreshMu.
MuFree_Ignored == TRUE
MuFree == mu = None

Refresh(o) ==
  /\ Is(o, "refresh")
  /\ MuFree
  /\ Connect(ServerOf(o))
  /\ mu' = o
  /\ view' = [view EXCEPT ![o] = [from |-> Connected(ServerOf(o)), links |-> {}]]
  /\ To(o, "read")
  /\ UNCHANGED <<panelVars, owned, plan, conn, inventory, emails, sent, result, fresh, shown>>

RefreshReads(o) ==
  /\ Is(o, "read")
  /\ view' = [view EXCEPT ![o].links = Attachments(PanelOf[view[o].from.rev])]
  /\ To(o, "publish")
  /\ UNCHANGED <<aggVars, panelVars, owned, plan, conn, inventory, emails, sent, result,
                 mu, fresh, shown>>

\* Only what was read over the connection that is still open is published.
Publishes(o) ==
  LET v == view[o] IN
  /\ Current(v.from)
  /\ row[ServerOf(o)] = v.from.rev
  /\ shown' = [shown EXCEPT ![ServerOf(o)] = v.links]
  /\ fresh' = [fresh EXCEPT ![o] = v.from = conn[o]]
  /\ UNCHANGED aggVars

RefreshEnds(o) ==
  /\ Is(o, "publish")
  /\ Publishes(o) \/ (Lookup({ServerOf(o)}) /\ UNCHANGED <<shown, fresh>>)
  /\ mu' = None
  /\ view' = [view EXCEPT ![o] = None]
  /\ To(o, "release")
  /\ UNCHANGED <<panelVars, owned, plan, conn, inventory, emails, sent, result>>

\* The list of servers, the connection or the panel cannot be read.
RefreshFails(o) ==
  /\ Is(o, "refresh") \/ Is(o, "read")
  /\ mu' = IF mu = o THEN None ELSE mu
  /\ view' = [view EXCEPT ![o] = None]
  /\ To(o, "release")
  /\ UNCHANGED <<aggVars, panelVars, owned, plan, conn, inventory, emails, sent, result, fresh,
                 shown>>

Release(o) ==
  /\ Is(o, "release")
  /\ Gate!Release(o, GateOf(o))
  /\ To(o, "next")
  /\ UNCHANGED <<aggVars, panelVars, plan, conn, inventory, emails, sent, result, snapVars>>

\* A bulk copy goes on with its next group, unless its request was cancelled.
Return(o) ==
  /\ Is(o, "next")
  /\ \/ /\ Len(plan[o].subs) > 1
        /\ plan' = [plan EXCEPT ![o].subs = Tail(@)]
        /\ To(o, "gate")
     \/ plan' = [plan EXCEPT ![o] = None] /\ To(o, "idle")
  /\ conn' = [conn EXCEPT ![o] = None]
  /\ result' = [result EXCEPT ![o] = "none"]
  /\ fresh' = [fresh EXCEPT ![o] = FALSE]
  /\ orphaned' = orphaned \ {o}
  /\ UNCHANGED <<aggVars, panel, late, delays, removals, freed, owned, inventory, emails, sent,
                 mu, view, shown>>

-----------------------------------------------------------------------------
\* The storage is written, and others look rows up.
Elsewhere ==
  /\ \E s \in Servers : Write(s) \/ Lookup({s}) \/ Connect(s)
  /\ UNCHANGED <<panelVars, owned, opVars, snapVars>>

\* DeleteInbound of aggregator and panel, by another request or by a copy that is
\* undone: it holds no gate of a group, and every record loses the inbound.
\* A new inbound may get its number, so later posts for it may be accepted.
DeleteInbound(p, i) ==
  /\ delays + removals < MaxUpsets
  /\ i \in VLESS /\ \E c \in panel[p] : i \in c.on
  /\ panel' = [panel EXCEPT ![p] = {[c EXCEPT !.on = @ \ {i}] : c \in @}]
  /\ orphaned' = orphaned \cup
       {o \in Ops : conn[o] # None /\ PanelOf[conn[o].rev] = p /\ Target(o) = i}
  /\ removals' = removals + 1
  /\ UNCHANGED <<aggVars, late, delays, freed, owned, opVars, snapVars>>

\* compensateInboundCopy: a copy removes a record that was made, on one inbound at
\* most.  It holds the gate of the group, unless its post is executed late.
HeldByCopy(p, g) ==
  \E s \in Servers :
    /\ row[s] # None /\ PanelOf[row[s]] = p
    /\ \A o \in Ops : <<o, <<s, g>>>> \notin owned

CopyTakesBack(p, c) ==
  /\ delays + removals < MaxUpsets
  /\ \A y \in Stored[p] : y.email # c.email
  /\ \E i \in Inbounds : c.on \subseteq {i}
  /\ \/ HeldByCopy(p, c.sub) /\ removals' = removals + 1 /\ UNCHANGED delays
     \/ delays' = delays + 1 /\ UNCHANGED removals
  /\ panel' = [panel EXCEPT ![p] = @ \ {c}]
  /\ freed' = freed \cup {<<p, c.email[1]>>}
  /\ UNCHANGED <<aggVars, late, orphaned, owned, opVars, snapVars>>

InboundMutation ==
  \E p \in Panels :
    \/ \E i \in Inbounds : DeleteInbound(p, i)
    \/ \E c \in panel[p] : CopyTakesBack(p, c)

Proceeds(o) ==
  \/ OpenCopy(o) \/ OpenConnection(o) \/ ListClients(o) \/ ReadFails(o)
  \/ DecideNoop(o) \/ DecideAttach(o) \/ DecideDetach(o)
  \/ SendAttachment(o) \/ SendDetachment(o) \/ DetachEnds(o)
  \/ PanelAnswers(o) \/ PostFails(o) \/ Confirm(o)
  \/ RefreshReads(o) \/ RefreshEnds(o) \/ RefreshFails(o) \/ Release(o) \/ Return(o)

Mutate(o) ==
  \/ Start(o) \/ TakeGate(o) \/ LeaveGate(o)
  \/ PostDelayed(o) \/ Refresh(o) \/ Proceeds(o)

GroupNext ==
  \/ Elsewhere
  \/ InboundMutation
  \/ \E o \in Ops : Mutate(o)
  \/ \E x \in late : PostArrives(x)

GroupSpec == GroupInit /\ [][GroupNext]_groupVars

-----------------------------------------------------------------------------
(* Properties.                                                              *)

Has(p, g, i) == <<g, i>> \in Attachments(p)

\* A mutation that reports success has made it so, and no mutation of its group
\* undoes it before it returns: on the panel it talked to the group is off the
\* inbound, or on it unless the inbound itself was deleted since the mutation
\* connected, which the gate does not prevent.  A post executed late voids this.
SuccessHolds ==
  \A o \in Ops :
    opc[o] \in {"refresh", "read", "publish", "release"} /\ result[o] # "error" /\ delays = 0
      => IF plan[o].kind = "detach"
           THEN ~Has(PanelOf[conn[o].rev], Group(o), Target(o))
           ELSE Has(PanelOf[conn[o].rev], Group(o), Target(o)) \/ o \in orphaned

\* What is confirmed is true of the panel the stored row leads to at that moment,
\* although the row may have been edited while the post was on its way, unless
\* the inbound was deleted since the mutation connected.
ConfirmedIsCurrent ==
  [][\A o \in Ops :
       Is(o, "confirm") /\ opc'[o] = "refresh" /\ result'[o] = "ok" /\ delays = 0 =>
         /\ row[ServerOf(o)] # None
         /\ Has(PanelOf[row[ServerOf(o)]], Group(o), Target(o)) \/ o \in orphaned]_groupVars

\* Repeating an attachment whose answer was lost never makes a second record of
\* the group under the name of the inbound, although the first may still be
\* executed after the repetition: both ask for the same email, unless a copy took
\* back a record of that name, whose number is then given a second time.
RetryCreatesOnce ==
  \A p \in Panels : \A c, d \in panel[p] :
    c.sub = d.sub /\ c.email[1] = d.email[1] /\ c # d
      => \/ \A x \in {c, d} : \E y \in Stored[p] : y.email = x.email
         \/ <<p, c.email[1]>> \in freed

\* When a mutation returns, the snapshot shows what it did, unless its refresh
\* failed, the server changed or its inbound was deleted: RefreshNow never
\* publishes an older reading.
SnapshotShowsSuccess ==
  \A o \in Ops :
    /\ Is(o, "release") /\ result[o] # "error" /\ delays = 0
    /\ fresh[o] /\ Current(conn[o])
    => IF plan[o].kind = "detach"
         THEN <<Group(o), Target(o)>> \notin shown[ServerOf(o)]
         ELSE <<Group(o), Target(o)>> \in shown[ServerOf(o)] \/ o \in orphaned

=============================================================================
