------------------------------- MODULE Refresh -------------------------------
(***************************************************************************)
(* internal/aggregator/aggregator.go and fetch.go: building the snapshot.  *)
(*                                                                         *)
(* The background loop (Run) and the mutations (refreshAfter..., RefreshNow)*)
(* call refresh() concurrently with the handlers that write the servers    *)
(* table and with the requests that look rows up and open connections.     *)
(* refresh() lists the servers and reconciles, takes refreshMu, lists and  *)
(* reconciles again, lets one goroutine per server fetch, and publishes.   *)
(*                                                                         *)
(* The goroutine of server s is the caller s of Connections.  An inventory *)
(* is named after the revision of the connection it was read over.  One    *)
(* subscription id stands for all.  The panels of the revisions in holders *)
(* have links for it; clients are added to panels and removed from them    *)
(* all the time, so an inventory tells what a panel had when it was read.  *)
(***************************************************************************)
EXTENDS Connections

CONSTANTS
  Refreshers, \* goroutines that call refresh()
  Loop,       \* the one that is Run
  Holders,    \* revisions whose panel has the subscription at the start
  MaxFaults,  \* bound on failing reads of the servers table
  Changing,   \* revisions whose panel others change
  MaxMoves    \* bound on the changes of panels

ASSUME RefreshersAssumption == Loop \in Refreshers /\ None \notin Refreshers
ASSUME WorkersAssumption == Servers \subseteq Callers
ASSUME HoldersAssumption == Holders \subseteq Revs
ASSUME MaxFaultsAssumption == MaxFaults \in Nat
ASSUME MovesAssumption == MaxMoves \in Nat /\ Changing \subseteq Revs

VARIABLES
  holders,   \* revisions whose panel has links for the subscription now
  moves,     \* number of changes of panels
  faults,    \* number of failed reads of the servers table
  owed,      \* handlers that wrote the table and have not called Trigger yet
  trigger,   \* the trigger channel holds its one token
  pc,        \* where each refresher is
  listed,    \* Refreshers -> Servers -> the revision it listed, or None
  alive,     \* Refreshers -> the servers its reconciliation found alive
  refreshMu, \* the refresher that holds refreshMu, or None
  at,        \* where the goroutine of each server is
  sc,        \* its connection, or None
  fetched,   \* what it fetched: "none", "ok", "degraded"
  has,       \* the inventory it fetched lists the subscription
  result,    \* the entry it produced, or None
  snap       \* Servers -> the published entry, or None

panelVars   == <<holders, moves>>
workVars    == <<at, sc, fetched, has, result>>
refreshVars == <<panelVars, faults, owed, trigger, pc, listed, alive, refreshMu, workVars, snap>>
vars        == <<aggVars, refreshVars>>

\* A ServerSnapshot: the revision whose name and host it shows, the inventory
\* it carries (None before the first) and whether it lists the subscription, the
\* epoch of that inventory, its state.
Shown(r, inv, b, e, state) ==
  [shown |-> r, inv |-> inv, has |-> b, epoch |-> e, state |-> state]

States  == {"ok", "degraded", "failed"}
Entries ==
  [shown : Revs, inv : Revs \cup {None}, has : BOOLEAN, epoch : Nat, state : States]

ASSUME EntriesAssumption == None \notin Entries

Steps  == {"done", "connect", "inventory", "keep", "links", "fetch", "wait", "judge"}
PCs    == {"idle", "list", "reconcile", "prune", "lock", "relisted", "reprune", "work"}

Nothing == [s \in Servers |-> None]

Init ==
  /\ ConnInit
  /\ holders = Holders
  /\ moves = 0
  /\ faults = 0
  /\ owed = 0
  /\ trigger = FALSE
  /\ pc = [r \in Refreshers |-> IF r = Loop THEN "list" ELSE "idle"]
  /\ listed = [r \in Refreshers |-> Nothing]
  /\ alive = [r \in Refreshers |-> {}]
  /\ refreshMu = None
  /\ at = [s \in Servers |-> "done"]
  /\ sc = Nothing
  /\ fetched = [s \in Servers |-> "none"]
  /\ has = [s \in Servers |-> FALSE]
  /\ result = Nothing
  /\ snap = Nothing

Goto(r, l) == pc' = [pc EXCEPT ![r] = l]

\* A failing read of the table uses up the bound on faults.
Fault(n) == faults + n <= MaxFaults /\ faults' = faults + n

-----------------------------------------------------------------------------
(* Others, and the mutations of this program, add the clients of the         *)
(* subscription to a panel or remove them.                                   *)

PanelChanges(r) ==
  /\ moves < MaxMoves
  /\ moves' = moves + 1
  /\ holders' = IF r \in holders THEN holders \ {r} ELSE holders \cup {r}
  /\ UNCHANGED <<aggVars, faults, owed, trigger, pc, listed, alive, refreshMu, workVars, snap>>

\* What ListClients of the panel of revision r says of the subscription.  Clients
\* that are disabled have no links, and are listed.
Lists(r) == {TRUE} \cup {b \in {FALSE} : r \notin holders}

-----------------------------------------------------------------------------
(* The handlers that write the servers table, and the trigger channel.       *)

HandlerWrites(s) ==
  /\ Write(s)
  /\ owed' = owed + 1
  /\ UNCHANGED <<panelVars, faults, trigger, pc, listed, alive, refreshMu, workVars, snap>>

\* Trigger: a send that does not block when the token is there.
HandlerTriggers ==
  /\ owed > 0
  /\ owed' = owed - 1
  /\ trigger' = TRUE
  /\ UNCHANGED <<aggVars, panelVars, faults, pc, listed, alive, refreshMu, workVars, snap>>

\* A subscription request or a mutation looks a row up, or opens a connection.
Elsewhere(s) ==
  /\ Lookup({s}) \/ Connect(s)
  /\ UNCHANGED refreshVars

\* Such a request fetches links over the open connection of a server.
Requests == Callers \ Servers

RequestLinks(w) ==
  /\ \E s \in Servers : clients[s] # None /\ (Lead(w, clients[s]) \/ Join(w, clients[s]))
  /\ UNCHANGED refreshVars

RequestReturns(w) ==
  /\ FetchLinks(w) \/ FinishFlight(w) \/ (~Free(w) /\ calls[w] = None /\ Leave(w))
  /\ UNCHANGED refreshVars

-----------------------------------------------------------------------------
(* refresh() up to the goroutines.                                           *)

StartTriggered ==
  /\ pc[Loop] = "idle"
  /\ trigger
  /\ trigger' = FALSE
  /\ Goto(Loop, "list")
  /\ UNCHANGED <<aggVars, panelVars, faults, owed, listed, alive, refreshMu, workVars, snap>>

\* The ticker of Run, or the end of a mutation.
Start(r) ==
  /\ pc[r] = "idle"
  /\ Goto(r, "list")
  /\ UNCHANGED <<aggVars, panelVars, faults, owed, trigger, listed, alive, refreshMu, workVars, snap>>

List(r) ==
  /\ pc[r] = "list"
  /\ \/ listed' = [listed EXCEPT ![r] = row] /\ Goto(r, "reconcile") /\ UNCHANGED faults
     \/ Fault(1) /\ Goto(r, "idle") /\ UNCHANGED listed
  /\ UNCHANGED <<aggVars, panelVars, owed, trigger, alive, refreshMu, workVars, snap>>

ListedBy(r) == {s \in Servers : listed[r][s] # None}

\* reconcileConnections, one critical section: every server that was listed or
\* is believed to exist is looked up; a failed look-up is no proof of deletion.
AliveAfter(S, failing) == {s \in S : s \in failing \/ row[s] # None}

ReconcileAs(r) ==
  LET S == ListedBy(r) \cup {s \in Servers : observed[s] \in Revs} IN
  \E failing \in SUBSET S :
    /\ IF failing = {} THEN UNCHANGED faults ELSE Fault(1)
    /\ Lookup(S \ failing)
    /\ alive' = [alive EXCEPT ![r] = AliveAfter(S, failing)]
    /\ UNCHANGED <<panelVars, owed, trigger, listed, refreshMu, workVars, snap>>

Reconcile(r) ==
  \/ pc[r] = "reconcile" /\ ReconcileAs(r) /\ Goto(r, "prune")
  \/ pc[r] = "relisted" /\ ReconcileAs(r) /\ Goto(r, "reprune")

\* PruneDeletedServers, after Aggregator.mu was released.
PruneDeletedAs(r) ==
  /\ Prune({k \in KeysInUse : k.server \notin alive[r]})
  /\ alive' = [alive EXCEPT ![r] = {}]
  /\ UNCHANGED <<panelVars, faults, owed, trigger, listed, refreshMu, snap>>

PruneDeleted(r) ==
  /\ pc[r] = "prune"
  /\ PruneDeletedAs(r)
  /\ Goto(r, "lock")
  /\ UNCHANGED workVars

\* What a refresher works on once it holds refreshMu.
Relisted_FirstList(r) == listed[r]
Relisted(r) == row

\* The deferred Unlock runs when the second list fails, too.
MuAfterFault_Kept(r) == r
MuAfterFault(r) == None

Lock(r) ==
  /\ pc[r] = "lock"
  /\ refreshMu = None
  /\ \/ /\ listed' = [listed EXCEPT ![r] = Relisted(r)]
        /\ refreshMu' = r
        /\ Goto(r, "relisted")
        /\ UNCHANGED faults
     \/ /\ Fault(1)
        /\ listed' = [listed EXCEPT ![r] = Nothing]
        /\ refreshMu' = MuAfterFault(r)
        /\ Goto(r, "idle")
  /\ UNCHANGED <<aggVars, panelVars, owed, trigger, alive, workVars, snap>>

StartWork(r) ==
  /\ pc[r] = "reprune"
  /\ PruneDeletedAs(r)
  /\ Goto(r, "work")
  /\ at' = [s \in Servers |-> IF s \in ListedBy(r) THEN "connect" ELSE "done"]
  /\ sc' = Nothing
  /\ fetched' = [s \in Servers |-> "none"]
  /\ has' = [s \in Servers |-> FALSE]
  /\ result' = Nothing

-----------------------------------------------------------------------------
(* The goroutine of one server.  It works for the holder of refreshMu.       *)

At(s, l)     == at[s] = l
Moves(s, l)  == at' = [at EXCEPT ![s] = l]
RestOfWork   == <<panelVars, faults, owed, trigger, pc, listed, alive, refreshMu, snap>>

\* failedServerSnapshot: the last entry of the server lives on, with its
\* inventory and the epoch of that inventory.
Retained(s, r, e) ==
  IF snap[s] = None THEN Shown(r, None, FALSE, e, "failed")
  ELSE Shown(r, snap[s].inv, snap[s].has, snap[s].epoch, "failed")

\* clientFor fails if the row changed since it was listed or has no token (it
\* then still observed the row), or if the row cannot be read.
ConnectOK(s) ==
  /\ At(s, "connect")
  /\ row[s] = listed[refreshMu][s]
  /\ Connect(s)
  /\ sc' = [sc EXCEPT ![s] = Connected(s)]
  /\ Moves(s, "inventory")
  /\ UNCHANGED <<fetched, has, result, RestOfWork>>

ConnectFails(s) ==
  /\ At(s, "connect")
  /\ \/ /\ row[s] # listed[refreshMu][s] \/ ~Connectable(s)
        /\ Lookup({s})
        /\ UNCHANGED faults
     \/ Fault(1) /\ UNCHANGED aggVars
  /\ result' = [result EXCEPT ![s] = Retained(s, listed[refreshMu][s], 0)]
  /\ Moves(s, "done")
  /\ UNCHANGED <<panelVars, sc, fetched, has, owed, trigger, pc, listed, alive, refreshMu, snap>>

\* Validate, ListClients and ListSlimInbounds: the panel may refuse any of them,
\* and an answer counts only while the connection is current.  Then the keys of
\* this epoch that are not active are pruned.
InventoryFails(s) ==
  /\ At(s, "inventory")
  /\ Moves(s, "judge")
  /\ UNCHANGED <<aggVars, sc, fetched, has, result, RestOfWork>>

Keep(s, active) == IF active THEN {KeyOf(sc[s])} ELSE {}

InventoryRead(s) ==
  /\ At(s, "inventory")
  /\ Current(sc[s])
  /\ Moves(s, "keep")
  /\ fetched' = [fetched EXCEPT ![s] = "ok"]
  /\ \E b \in Lists(sc[s].rev) : has' = [has EXCEPT ![s] = b]
  /\ UNCHANGED <<aggVars, sc, result, RestOfWork>>

PruneInactive(s) ==
  /\ At(s, "keep")
  /\ \E active \in {FALSE, has[s]} :
       /\ Prune({k \in KeysInUse \ Keep(s, active) :
                   k.server = s /\ k.epoch = sc[s].epoch})
       /\ Moves(s, IF active THEN "links" ELSE "judge")
  /\ UNCHANGED <<sc, fetched, has, result, RestOfWork>>

\* linkCache.Refresh: lead a flight, or wait for the one that is registered.
\* The connection whose key a refresh uses.
WorkerClient_EpochReread(s) == Client(s, sc[s].rev, epochs[s])
WorkerClient(s) == sc[s]

RefreshLinks(s) ==
  /\ At(s, "links")
  /\ \/ Lead(s, WorkerClient(s)) /\ Moves(s, "fetch")
     \/ Join(s, WorkerClient(s)) /\ Moves(s, "wait")
  /\ UNCHANGED <<sc, fetched, has, result, RestOfWork>>

LinksReturn(s) ==
  /\ At(s, "fetch")
  /\ FetchLinks(s)
  /\ UNCHANGED <<workVars, RestOfWork>>

\* The links came, or the inventory counts as degraded.
LinksSynced(s, v) == fetched' = [fetched EXCEPT ![s] = IF v = None THEN "degraded" ELSE "ok"]

LinksFinish(s) ==
  /\ At(s, "fetch")
  /\ FinishFlight(s)
  /\ LinksSynced(s, calls[s].answer)
  /\ Moves(s, "judge")
  /\ UNCHANGED <<sc, has, result, RestOfWork>>

\* A waiter takes the leader's answer, or leaves when its connection is cancelled.
LinksArrive(s) ==
  /\ At(s, "wait")
  /\ \/ \E a \in landed : a.who = s /\ LinksSynced(s, a.val)
     \/ ~Current(sc[s]) /\ LinksSynced(s, None)
  /\ Leave(s)
  /\ Moves(s, "judge")
  /\ UNCHANGED <<sc, has, result, RestOfWork>>

\* The goroutine's own last look at its connection.
Judge(s) ==
  /\ At(s, "judge")
  /\ result' = [result EXCEPT ![s] =
       IF fetched[s] # "none" /\ Current(sc[s])
         THEN Shown(sc[s].rev, sc[s].rev, has[s], sc[s].epoch, fetched[s])
         ELSE Retained(s, sc[s].rev, sc[s].epoch)]
  /\ Moves(s, "done")
  /\ UNCHANGED <<aggVars, sc, fetched, has, RestOfWork>>

WorkOn(s) ==
  \/ ConnectOK(s) \/ ConnectFails(s)
  \/ InventoryFails(s) \/ InventoryRead(s) \/ PruneInactive(s)
  \/ RefreshLinks(s) \/ LinksReturn(s) \/ LinksFinish(s) \/ LinksArrive(s)
  \/ Judge(s)

-----------------------------------------------------------------------------
(* The publication: one critical section of Aggregator.mu.                   *)

\* The connection a goroutine used is still the open one after the look-up.
StillOpen(s) == sc[s] = None \/ clients'[s] = sc[s]

\* What is published for a listed server: after a look-up that failed, after
\* one that found the row, and nothing after one that found none.
Publishable_NoRecheck(r, s, failing) ==
  IF s \in failing \/ row[s] = listed[r][s] THEN result[s]
  ELSE IF row[s] = None THEN None
  ELSE Retained(s, row[s], epochs'[s])
Publishable(r, s, failing) ==
  CASE s \in failing ->
         IF StillOpen(s) THEN result[s] ELSE Retained(s, listed[r][s], epochs[s])
    [] s \notin failing /\ row[s] = None -> None
    [] OTHER ->
         IF row[s] = listed[r][s] /\ StillOpen(s) THEN result[s]
         ELSE Retained(s, row[s], epochs'[s])

Publish(r) ==
  /\ pc[r] = "work"
  /\ \A s \in Servers : At(s, "done")
  /\ \E failing \in SUBSET ListedBy(r) :
       /\ IF failing = {} THEN UNCHANGED faults ELSE Fault(1)
       /\ Lookup(ListedBy(r) \ failing)
       /\ snap' = [s \in Servers |->
                     IF s \in ListedBy(r) THEN Publishable(r, s, failing) ELSE None]
  /\ refreshMu' = None
  /\ Goto(r, "idle")
  /\ listed' = [listed EXCEPT ![r] = Nothing]
  /\ sc' = Nothing
  /\ fetched' = [s \in Servers |-> "none"]
  /\ has' = [s \in Servers |-> FALSE]
  /\ result' = Nothing
  /\ UNCHANGED <<panelVars, owed, trigger, alive, at>>

-----------------------------------------------------------------------------
RefreshStep(r) ==
  List(r) \/ Reconcile(r) \/ PruneDeleted(r) \/ Lock(r) \/ StartWork(r) \/ Publish(r)

\* The refreshers, and the panels and handlers that keep them busy.
Refreshing ==
  \/ \E r \in Changing : PanelChanges(r)
  \/ \E s \in Servers : HandlerWrites(s) \/ WorkOn(s)
  \/ HandlerTriggers
  \/ StartTriggered
  \/ \E r \in Refreshers : Start(r) \/ RefreshStep(r)

Next ==
  \/ Refreshing
  \/ \E s \in Servers : Elsewhere(s)
  \/ \E w \in Requests : RequestLinks(w) \/ RequestReturns(w)

Spec == Init /\ [][Next]_vars

(* A goroutine that can run does run, a panel call ends, refreshMu is served *)
(* in order, a handler that wrote reaches its Trigger, the loop takes the    *)
(* token and the ticker ticks.  Nothing forces a mutation, a write, a fault. *)
Fairness ==
  /\ WF_vars(Start(Loop))
  /\ WF_vars(HandlerTriggers)
  /\ WF_vars(StartTriggered)
  /\ \A s \in Servers : WF_vars(WorkOn(s))
  /\ \A w \in Requests : WF_vars(RequestReturns(w))
  /\ \A r \in Refreshers : WF_vars(List(r) \/ Reconcile(r) \/ PruneDeleted(r)
                                     \/ StartWork(r) \/ Publish(r))
                            /\ SF_vars(Lock(r))

FairSpec == Spec /\ Fairness

-----------------------------------------------------------------------------
(* Properties.                                                              *)

TypeOK ==
  /\ ConnTypeOK
  /\ holders \subseteq Revs /\ moves \in 0..MaxMoves
  /\ faults \in 0..MaxFaults
  /\ owed \in 0..MaxWrites
  /\ trigger \in BOOLEAN
  /\ pc \in [Refreshers -> PCs]
  /\ listed \in [Refreshers -> [Servers -> Revs \cup {None}]]
  /\ alive \in [Refreshers -> SUBSET Servers]
  /\ refreshMu \in Refreshers \cup {None}
  /\ at \in [Servers -> Steps]
  /\ sc \in [Servers -> ClientRecords \cup {None}]
  /\ fetched \in [Servers -> {"none", "ok", "degraded"}]
  /\ has \in [Servers -> BOOLEAN]
  /\ result \in [Servers -> Entries \cup {None}]
  /\ snap \in [Servers -> Entries \cup {None}]

\* An inventory that carries the current epoch of its server was read over a
\* connection to the row last observed, so the answer "this subscription is not
\* on that server" is never given from the inventory of another row
\* (completedCurrentInventory relies on it).
InventoryMatchesEpoch ==
  \A s \in Servers :
    LET e == snap[s] IN
    e # None /\ e.inv # None /\ e.epoch = epochs[s] => e.inv = observed[s]

\* What is published as fetched comes from the connection that is open at the
\* moment of publication, to the row the entry shows.
PublishedIsCurrent ==
  [][\A s \in Servers :
       LET e == snap'[s] IN
       snap' # snap /\ e # None /\ e.state # "failed"
         => clients'[s] = Client(s, e.shown, e.epoch)]_vars

\* A published server disappears only once its row is gone, however the
\* refreshes overlap.
ServersStayPublished ==
  [][\A s \in Servers : snap[s] # None /\ snap'[s] = None => row[s] = None]_vars

\* The snapshot shows exactly the stored servers, each with its stored row.
Converged ==
  \A s \in Servers : IF row[s] = None THEN snap[s] = None
                     ELSE snap[s] # None /\ snap[s].shown = row[s]

\* The trigger of a handler is enough: unless a read of the table has failed, the
\* snapshot shows what is stored whenever no refresh is running or asked for, with
\* no tick in between, although triggers coalesce and refreshes wait in line.
Quiet == trigger = FALSE /\ owed = 0 /\ \A r \in Refreshers : pc[r] = "idle"

TriggersSettle == Quiet /\ faults = 0 => Converged

\* Once the writes have ended the snapshot comes to show what is stored, also when
\* the refresh that consumed the trigger failed: a later tick repairs it.
Converges == <>[]Converged

\* Reconciling drops no links that were fetched over the stored row of a server.
\* It does not hold: PruneDeletedServers uses what was alive before
\* Aggregator.mu was released.
LinksOutliveReconcile ==
  [][\A r \in Refreshers :
       pc[r] \in {"prune", "reprune"} /\ pc'[r] # pc[r] =>
         \A e \in store : e.val = row[e.key.server] => e \in store']_vars

\* The links in the cache obey Connections however refreshes interleave.
ImplementsConnections == ConnSpec

=============================================================================
