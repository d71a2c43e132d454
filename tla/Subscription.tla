---------------------------- MODULE Subscription ----------------------------
(***************************************************************************)
(* internal/aggregator/subscription.go: answering a subscription request   *)
(* while the refresher runs and the servers change.                        *)
(*                                                                         *)
(* A request lists its user's servers, loads the snapshot and visits the   *)
(* servers in the order of their ids.  Each visit looks the row up, reads  *)
(* two epochs, decides from the loaded inventory, and then takes links     *)
(* from the cache, or from a panel call shared with whoever needs the same *)
(* (a link flight, and before it a discovery flight if there is no         *)
(* inventory to decide from).                                              *)
(*                                                                         *)
(* Links are the revision they were fetched over.  What the panels have    *)
(* changes while a request runs, and the code trusts an inventory of any   *)
(* age that carries the current epoch; lacked is the history to judge the  *)
(* answers by.                                                             *)
(***************************************************************************)
EXTENDS Refresh, FiniteSetsExt

CONSTANT Resolvers   \* subscription requests

ASSUME ResolversAssumption == Resolvers \subseteq Requests /\ None \notin Resolvers
ASSUME ServerIdsAssumption == Servers \subseteq Nat

VARIABLES
  qpc,         \* where each request is
  qlist,       \* the rows it listed
  qsnap,       \* the snapshot it loaded
  todo,        \* the servers it has not answered for
  qepoch,      \* the epoch of the server it visits
  qclient,     \* the connection whose key or client it uses, or None
  discovering, \* it visits a server without a current inventory
  links,       \* the links it has of each server, or None
  failed,      \* some server could not be asked
  outcome,     \* "none", "links", "partial", "notfound", "unavailable"
  discoveries, \* set of [client, flight]: Aggregator.discoveries
  joined,      \* the discovery flight a request waits for, or None
  found,       \* the answer of that flight: "none", "present", "absent", "failed"
  lacked       \* history: connections whose panel had no links while they were open

visitVars == <<qepoch, qclient, discovering>>
flyVars   == <<discoveries, joined, found>>
subVars   == <<qpc, qlist, qsnap, todo, visitVars, links, failed, outcome, flyVars>>
allVars   == <<vars, subVars, lacked>>

Places == {"list", "load", "visit", "epoch", "cached", "get", "connect", "discover",
           "dfetch", "dwait", "join", "fetch", "wait", "answered"}

SubInit ==
  /\ Init
  /\ qpc = [q \in Resolvers |-> "list"]
  /\ qlist = [q \in Resolvers |-> Nothing]
  /\ qsnap = [q \in Resolvers |-> Nothing]
  /\ todo = [q \in Resolvers |-> {}]
  /\ qepoch = [q \in Resolvers |-> 0]
  /\ qclient = [q \in Resolvers |-> None]
  /\ discovering = [q \in Resolvers |-> FALSE]
  /\ links = [q \in Resolvers |-> Nothing]
  /\ failed = [q \in Resolvers |-> FALSE]
  /\ outcome = [q \in Resolvers |-> "none"]
  /\ discoveries = {}
  /\ joined = [q \in Resolvers |-> None]
  /\ found = [q \in Resolvers |-> "none"]
  /\ lacked = {}

-----------------------------------------------------------------------------
(* The shape of a request.                                                   *)

Is(q, l) == qpc[q] = l
To(q, l) == qpc' = [qpc EXCEPT ![q] = l]

\* The server a request visits.
Server(q) == Min(todo[q])

\* The visit ends with links v (None: no links), and with a failure or not.
Visited(q, v, fails) ==
  /\ To(q, "visit")
  /\ links' = [links EXCEPT ![q][Server(q)] = v]
  /\ failed' = [failed EXCEPT ![q] = @ \/ fails]
  /\ todo' = [todo EXCEPT ![q] = @ \ {Server(q)}]
  /\ qepoch' = [qepoch EXCEPT ![q] = 0]
  /\ qclient' = [qclient EXCEPT ![q] = None]
  /\ discovering' = [discovering EXCEPT ![q] = FALSE]

\* The visit goes on.
GoesOn(q, l) == To(q, l) /\ UNCHANGED <<links, failed, todo>>

Fixed == <<qlist, qsnap, outcome>>

\* ListServersByUser.
ListServers(q) ==
  /\ Is(q, "list")
  /\ \/ /\ qlist' = [qlist EXCEPT ![q] = row]
        /\ todo' = [todo EXCEPT ![q] = {s \in Servers : row[s] # None}]
        /\ To(q, "load")
        /\ UNCHANGED <<faults, outcome>>
     \/ /\ Fault(1)
        /\ outcome' = [outcome EXCEPT ![q] = "unavailable"]
        /\ To(q, "answered")
        /\ UNCHANGED <<qlist, todo>>
  /\ UNCHANGED <<aggVars, panelVars, owed, trigger, pc, listed, alive, refreshMu, workVars, snap,
                 qsnap, visitVars, links, failed, flyVars>>

LoadSnapshot(q) ==
  /\ Is(q, "load")
  /\ qsnap' = [qsnap EXCEPT ![q] = snap]
  /\ To(q, "visit")
  /\ UNCHANGED <<vars, qlist, todo, visitVars, links, failed, outcome, flyVars>>

\* authoritativeServer: the row must be readable and still the one listed.
LookupOK(q) ==
  /\ Is(q, "visit") /\ todo[q] # {}
  /\ row[Server(q)] = qlist[q][Server(q)]
  /\ Lookup({Server(q)})
  /\ GoesOn(q, "epoch")
  /\ UNCHANGED <<refreshVars, Fixed, visitVars, flyVars>>

LookupFails(q) ==
  /\ Is(q, "visit") /\ todo[q] # {}
  /\ \/ /\ row[Server(q)] # qlist[q][Server(q)]
        /\ Lookup({Server(q)})
        /\ UNCHANGED faults
     \/ Fault(1) /\ UNCHANGED aggVars
  /\ Visited(q, None, TRUE)
  /\ UNCHANGED <<panelVars, owed, trigger, pc, listed, alive, refreshMu, workVars, snap, Fixed, flyVars>>

\* serverEpoch.
ReadEpoch(q) ==
  /\ Is(q, "epoch")
  /\ qepoch' = [qepoch EXCEPT ![q] = epochs[Server(q)]]
  /\ GoesOn(q, "cached")
  /\ UNCHANGED <<vars, Fixed, qclient, discovering, flyVars>>

-----------------------------------------------------------------------------
(* Deciding from the inventory.                                              *)

\* completedCurrentInventory.
Completed_AnyEpoch(q) == LET e == qsnap[q][Server(q)] IN e # None /\ e.inv # None
Completed(q) ==
  LET e == qsnap[q][Server(q)] IN
  e # None /\ e.inv # None /\ e.epoch \in {0, qepoch[q]}

SnapshotOK(q) == qsnap[q][Server(q)] # None /\ qsnap[q][Server(q)].state = "ok"

\* A completed inventory without the subscription settles the server.
Absent(q) == Completed(q) /\ ~qsnap[q][Server(q)].has

\* Whether the answer counts as partial whatever the links say.
Doubtful(q) ==
  IF Completed(q) THEN ~SnapshotOK(q)
  ELSE qsnap[q][Server(q)] # None /\ ~SnapshotOK(q)

\* cachedEpoch: the open connection, if it was made from this row.
CachedClient_AnyRow(q) == clients[Server(q)]
CachedClient(q) ==
  LET c == clients[Server(q)] IN
  IF c # None /\ c.rev = qlist[q][Server(q)] THEN c ELSE None

Decide(q) ==
  /\ Is(q, "cached")
  /\ IF Absent(q)
       THEN Visited(q, None, FALSE)
       ELSE /\ GoesOn(q, "get")
            /\ qclient' = [qclient EXCEPT ![q] = CachedClient(q)]
            /\ discovering' = [discovering EXCEPT ![q] = ~Completed(q)]
            /\ UNCHANGED qepoch
  /\ UNCHANGED <<vars, Fixed, flyVars>>

\* The links cached under the key of a request's connection; epoch 0 has none.
CachedLinks(q) == IF qclient[q] = None THEN {} ELSE ValuesAt(KeyOf(qclient[q]))

\* What a request makes of links v: the list is empty if it was fetched while the
\* panel had none.
Listing(q, v) ==
  {v} \cup {x \in {None} : \E c \in lacked : c.server = Server(q) /\ c.rev = v
                                            /\ c.epoch = qclient[q].epoch}

\* linkCache.Get: a hit proves an earlier discovery.
GetHits(q) ==
  /\ Is(q, "get")
  /\ \E v \in CachedLinks(q) : \E x \in Listing(q, v) : Visited(q, x, Doubtful(q))
  /\ UNCHANGED <<vars, Fixed, flyVars>>

\* On a miss the state of a completed inventory counts now, that of a missing
\* one no more.
GetMisses(q) ==
  /\ Is(q, "get")
  /\ CachedLinks(q) = {}
  /\ failed' = [failed EXCEPT ![q] = @ \/ (Completed(q) /\ Doubtful(q))]
  /\ To(q, "connect")
  /\ UNCHANGED <<vars, Fixed, todo, links, visitVars, flyVars>>

-----------------------------------------------------------------------------
(* Asking the panel.                                                         *)

SubConnectOK(q) ==
  /\ Is(q, "connect")
  /\ row[Server(q)] = qlist[q][Server(q)]
  /\ Connect(Server(q))
  /\ qclient' = [qclient EXCEPT ![q] = Connected(Server(q))]
  /\ GoesOn(q, IF discovering[q] THEN "discover" ELSE "join")
  /\ UNCHANGED <<refreshVars, Fixed, qepoch, discovering, flyVars>>

SubConnectFails(q) ==
  /\ Is(q, "connect")
  /\ \/ /\ row[Server(q)] # qlist[q][Server(q)] \/ ~Connectable(Server(q))
        /\ Lookup({Server(q)})
        /\ UNCHANGED faults
     \/ Fault(1) /\ UNCHANGED aggVars
  /\ Visited(q, None, TRUE)
  /\ UNCHANGED <<panelVars, owed, trigger, pc, listed, alive, refreshMu, workVars, snap, Fixed, flyVars>>

\* discoverSubscription: one flight per server, epoch and subscription id.  (It
\* looks at the connection first; whoever registers a flight looks again.)
DiscoveryOf(c) == {d \in discoveries : d.client.server = c.server /\ d.client.epoch = c.epoch}

Discover(q) ==
  /\ Is(q, "discover")
  /\ Current(qclient[q])
  /\ IF DiscoveryOf(qclient[q]) = {}
       THEN /\ discoveries' = discoveries \cup {[client |-> qclient[q], flight |-> q]}
            /\ GoesOn(q, "dfetch")
            /\ UNCHANGED joined
       ELSE /\ \E d \in DiscoveryOf(qclient[q]) : joined' = [joined EXCEPT ![q] = d.flight]
            /\ GoesOn(q, "dwait")
            /\ UNCHANGED discoveries
  /\ UNCHANGED <<vars, Fixed, visitVars, found>>

DiscoverStale(q) ==
  /\ Is(q, "discover")
  /\ ~Current(qclient[q])
  /\ Visited(q, None, TRUE)
  /\ UNCHANGED <<vars, Fixed, flyVars>>

\* What a panel call over connection c can find: a failure (an error, a panic,
\* the end of the connection or of the leader's own request) or what the panel
\* lists.
Discovered(c) ==
  {"failed"} \cup
  {v \in {"present", "absent"} : Current(c) /\ (v = "present") \in Lists(c.rev)}

\* runDiscoveryFlight up to its deferred function.
DiscoveryReturns(q) ==
  /\ Is(q, "dfetch")
  /\ found[q] = "none"
  /\ \E v \in Discovered(qclient[q]) : found' = [found EXCEPT ![q] = v]
  /\ UNCHANGED <<vars, qpc, Fixed, todo, links, failed, visitVars, discoveries, joined>>

\* A request goes on with what the discovery found.
Continue(q, v) ==
  IF v = "present" THEN GoesOn(q, "join") /\ UNCHANGED visitVars
                   ELSE Visited(q, None, v = "failed")

\* The waiters that close(flight.done) wakes; one that was woken keeps the answer
\* of its flight when the leader goes on to lead another.
Woken_LeaderOnly(q) == {}
Woken(q) == {x \in Resolvers : joined[x] = q /\ found[x] = "none"}

\* The deferred function: the flight is forgotten and its waiters get its answer.
DiscoveryEnds(q) ==
  /\ Is(q, "dfetch")
  /\ found[q] # "none"
  /\ Continue(q, found[q])
  /\ found' = [x \in Resolvers |-> IF x = q THEN "none"
                                   ELSE IF x \in Woken(q) THEN found[q] ELSE found[x]]
  /\ discoveries' = {d \in discoveries : d.flight # q}
  /\ UNCHANGED <<vars, Fixed, joined>>

\* waitDiscoveryFlight: the answer, or the end of the connection.
DiscoveryArrives(q) ==
  /\ Is(q, "dwait")
  /\ \E v \in {found[q]} \cup {x \in {"failed"} : ~Current(qclient[q])} :
       v # "none" /\ Continue(q, v)
  /\ joined' = [joined EXCEPT ![q] = None]
  /\ found' = [found EXCEPT ![q] = "none"]
  /\ UNCHANGED <<vars, Fixed, discoveries>>

\* ... or the end of the request's own context: the client hangs up.  Calls of
\* this request fail from then on, as calls may; its flight goes on without it.
HangsUp(q) ==
  /\ Is(q, "dwait")
  /\ Continue(q, "failed")
  /\ joined' = [joined EXCEPT ![q] = None]
  /\ found' = [found EXCEPT ![q] = "none"]
  /\ UNCHANGED <<vars, Fixed, discoveries>>

\* GetOrFetch (and the second Get of resolveServerLinks, which it repeats).
FetchHits(q) ==
  /\ Is(q, "join")
  /\ \E v \in CachedLinks(q) : \E x \in Listing(q, v) : Visited(q, x, FALSE)
  /\ UNCHANGED <<vars, Fixed, flyVars>>

FetchOrJoin(q) ==
  /\ Is(q, "join")
  /\ CachedLinks(q) = {}
  /\ \/ Lead(q, qclient[q]) /\ GoesOn(q, "fetch")
     \/ Join(q, qclient[q]) /\ GoesOn(q, "wait")
  /\ UNCHANGED <<refreshVars, Fixed, visitVars, flyVars>>

PanelAnswers(q) ==
  /\ Is(q, "fetch")
  /\ FetchLinks(q)
  /\ UNCHANGED <<refreshVars, subVars>>

FetchEnds(q) ==
  /\ Is(q, "fetch")
  /\ FinishFlight(q)
  /\ \E x \in Listing(q, calls[q].answer) : Visited(q, x, calls[q].answer = None)
  /\ UNCHANGED <<refreshVars, Fixed, flyVars>>

\* waitLinkFlight: the answer, the end of the connection, or the timeout of the call.
FetchArrives(q) ==
  /\ Is(q, "wait")
  /\ \E v \in {None} \cup {a.val : a \in {x \in landed : x.who = q}} :
       \E x \in Listing(q, v) : Visited(q, x, v = None)
  /\ Leave(q)
  /\ UNCHANGED <<refreshVars, Fixed, flyVars>>

-----------------------------------------------------------------------------
\* resolveSubscriptionServers returns.
HasLinks(q) == \E s \in Servers : links[q][s] # None

Outcome_IgnoreFailed(q) == IF HasLinks(q) THEN "links" ELSE "notfound"
Outcome(q) ==
  IF HasLinks(q) THEN IF failed[q] THEN "partial" ELSE "links"
  ELSE IF failed[q] THEN "unavailable" ELSE "notfound"

AnswerRequest(q) ==
  /\ Is(q, "visit")
  /\ todo[q] = {}
  /\ outcome' = [outcome EXCEPT ![q] = Outcome(q)]
  /\ To(q, "answered")
  /\ UNCHANGED <<vars, qlist, qsnap, todo, visitVars, links, failed, flyVars>>

Resolve(q) ==
  \/ ListServers(q) \/ LoadSnapshot(q)
  \/ LookupOK(q) \/ LookupFails(q) \/ ReadEpoch(q) \/ Decide(q)
  \/ GetHits(q) \/ GetMisses(q)
  \/ SubConnectOK(q) \/ SubConnectFails(q)
  \/ Discover(q) \/ DiscoverStale(q) \/ DiscoveryReturns(q) \/ DiscoveryEnds(q) \/ DiscoveryArrives(q)
  \/ FetchHits(q) \/ FetchOrJoin(q) \/ PanelAnswers(q) \/ FetchEnds(q) \/ FetchArrives(q)
  \/ AnswerRequest(q)

\* The history grows with every step.
Lacking == {clients[s] : s \in {x \in Servers : clients[x] # None /\ clients[x].rev \notin holders}}
Watch == lacked' = lacked \cup Lacking'

SubNext ==
  /\ \/ Refreshing /\ UNCHANGED subVars
     \/ \E q \in Resolvers : Resolve(q) \/ HangsUp(q)
  /\ Watch

SubSpec == SubInit /\ [][SubNext]_allVars

\* A request that can go on does; a panel call ends, for the goroutine of a
\* refresh too.  Nothing forces a refresh, a write, a fault or a client to hang up.
SubFairness ==
  /\ \A q \in Resolvers : WF_allVars(Resolve(q) /\ Watch)
  /\ \A s \in Servers : WF_allVars(WorkOn(s) /\ UNCHANGED subVars /\ Watch)

-----------------------------------------------------------------------------
(* Properties.                                                              *)

SubTypeOK ==
  /\ qpc \in [Resolvers -> Places]
  /\ qlist \in [Resolvers -> [Servers -> Revs \cup {None}]]
  /\ qsnap \in [Resolvers -> [Servers -> Entries \cup {None}]]
  /\ todo \in [Resolvers -> SUBSET Servers]
  /\ qepoch \in [Resolvers -> Nat]
  /\ qclient \in [Resolvers -> ClientRecords \cup {None}]
  /\ discovering \in [Resolvers -> BOOLEAN]
  /\ links \in [Resolvers -> [Servers -> Revs \cup {None}]]
  /\ failed \in [Resolvers -> BOOLEAN]
  /\ outcome \in [Resolvers -> {"none", "links", "partial", "notfound", "unavailable"}]
  /\ joined \in [Resolvers -> Resolvers \cup {None}]
  /\ \A q \in Resolvers : found[q] # "none" => Is(q, "dfetch") \/ Is(q, "dwait")
  /\ found \in [Resolvers -> {"none", "present", "absent", "failed"}]
  /\ lacked \subseteq ClientRecords

\* The links a request returns for a server were fetched over a connection to
\* the row the request listed, though the row may have changed, and changed
\* back, while the request looked at snapshot, epochs, cache and panel in turn.
LinksOfListedRow ==
  \A q \in Resolvers, s \in Servers : links[q][s] \in {None, qlist[q][s]}

\* A visit that ends without links and without a failure rests on what the panel
\* of the listed row really was: at some moment it had no links for the
\* subscription, while a connection to that row was open, in the epoch the request
\* read or a later one.  Nothing sharper holds: a client added to the panel since an
\* inventory was read is missed without a flag until a newer one is published, also
\* while reads fail and the old inventory is kept.
AbsenceJustified ==
  [][\A q \in Resolvers, s \in Servers :
       /\ s \in todo[q] /\ s \notin todo'[q]
       /\ links'[q][s] = None /\ ~failed'[q]
       => \E c \in lacked : c.server = s /\ c.rev = qlist[q][s] /\ c.epoch >= qepoch[q]]_allVars

\* An answer that is not flagged as partial, and "not found", leave a listed server
\* out only if its panel had no links at some moment while a connection to the
\* listed row was open: a subscription that was there all the time is never missing,
\* however many calls failed.
FailureIsFlagged ==
  \A q \in Resolvers :
    outcome[q] \in {"links", "notfound"} =>
      \A s \in Servers :
        qlist[q][s] = None \/ links[q][s] = qlist[q][s]
          \/ \E c \in lacked : c.server = s /\ c.rev = qlist[q][s]

\* Every request is answered, whatever its flights and connections run into, and
\* whoever hangs up among those that share a flight, its leader included.
EveryRequestAnswered == \A q \in Resolvers : <>Is(q, "answered")

=============================================================================
