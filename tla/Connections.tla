----------------------------- MODULE Connections -----------------------------
(***************************************************************************)
(* internal/aggregator/aggregator.go: the panel connections the aggregator *)
(* shares between its refresher, the subscription requests and the         *)
(* mutations, and what they may put into the link cache.                   *)
(*                                                                         *)
(* A server row is abstracted to its revision: what sameServerRevision     *)
(* compares.  Whoever reads a row under Aggregator.mu observes it; a       *)
(* changed revision cancels the connection, starts a new epoch and prunes  *)
(* the server's links.  The links fetched over a connection are named      *)
(* after its revision, so a stale link is a value of an old revision.      *)
(*                                                                         *)
(* The module lets any caller hold any connection that was ever made and   *)
(* call at any time; Refresh adds the code that does.                      *)
(***************************************************************************)
EXTENDS Integers, LinkStore

CONSTANTS
  Servers,   \* server ids
  Revs,      \* revisions of a server row
  Unusable,  \* revisions without a token a connection can be made from
  HostOf,    \* Revs -> publicHost
  Callers,   \* goroutines that fetch links
  Unseen,    \* a server nobody observed yet
  Pending,   \* a panel call that has not returned
  MaxWrites  \* bound on the writes to the servers table

ASSUME RevsAssumption ==
  /\ Unusable \subseteq Revs
  /\ None \notin Revs /\ Unseen \notin Revs /\ Pending \notin Revs
  /\ None # Unseen /\ None # Pending
ClientRecords == [server : Servers, rev : Revs \ Unusable, epoch : Nat \ {0}]
CallRecords   == [client : ClientRecords, answer : Revs \cup {None, Pending}]

ASSUME RecordsAssumption == None \notin ClientRecords \cup CallRecords
ASSUME MaxWritesAssumption == MaxWrites \in Nat

VARIABLES
  row,      \* Servers -> the stored revision, or None
  created,  \* servers that were ever stored: an id is never used again
  writes,   \* number of writes to the servers table
  epochs,   \* Servers -> Nat
  observed, \* Servers -> the revision last observed, None (not found) or Unseen
  clients,  \* Servers -> the open connection, or None
  calls     \* Callers -> the flight a caller leads, or None

storageVars == <<row, created, writes>>
connVars    == <<epochs, observed, clients>>
aggVars        == <<storageVars, connVars, calls, linkVars>>

Client(s, r, e) == [server |-> s, rev |-> r, epoch |-> e]
KeyOf(c)        == [server |-> c.server, epoch |-> c.epoch, host |-> HostOf[c.rev]]
Call(c, v)      == [client |-> c, answer |-> v]

ConnInit ==
  /\ row \in [Servers -> Revs \cup {None}]
  /\ created = {s \in Servers : row[s] # None}
  /\ writes = 0
  /\ epochs = [s \in Servers |-> 0]
  /\ observed = [s \in Servers |-> Unseen]
  /\ clients = [s \in Servers |-> None]
  /\ calls = [w \in Callers |-> None]
  /\ LinkInit

-----------------------------------------------------------------------------
(* storage: CreateServer, UpdateServer and DeleteServer.                    *)

Write(s) ==
  /\ writes < MaxWrites
  /\ \E r \in (Revs \cup {None}) \ {row[s]} :
       /\ row[s] = None => s \notin created
       /\ row' = [row EXCEPT ![s] = r]
  /\ created' = created \cup {s}
  /\ writes' = writes + 1
  /\ UNCHANGED <<connVars, calls, linkVars>>

-----------------------------------------------------------------------------
(* observeServerLocked and invalidateServerLocked, for the servers of seen:  *)
(* a function from the servers looked up to what was found.                  *)

\* The servers whose connection a look-up invalidates.
Changed(seen) == {s \in DOMAIN seen : observed[s] \notin {Unseen, seen[s]}}

EpochsAfter_NoBump(seen, stale) ==
  [s \in Servers |-> IF s \in DOMAIN seen /\ epochs[s] = 0 THEN 1 ELSE epochs[s]]
EpochsAfter(seen, stale) ==
  [s \in Servers |->
     IF s \in stale THEN epochs[s] + 1
     ELSE IF s \in DOMAIN seen /\ epochs[s] = 0 THEN 1
     ELSE epochs[s]]

\* The keys invalidateServerLocked prunes.
Pruned_OnlyDeleted(stale) == {k \in KeysInUse : k.server \in stale /\ row[k.server] = None}
Pruned(stale) == {k \in KeysInUse : k.server \in stale}

ObserveAs(seen, stale) ==
  /\ observed' = [s \in Servers |-> IF s \in DOMAIN seen THEN seen[s] ELSE observed[s]]
  /\ epochs' = EpochsAfter(seen, stale)
  /\ Drop(Pruned(stale))

\* The open connections, once those of stale servers are cancelled.
ClientsAfter_KeepDeleted(stale) ==
  [s \in Servers |-> IF s \in stale /\ row[s] # None THEN None ELSE clients[s]]
ClientsAfter(stale) == [s \in Servers |-> IF s \in stale THEN None ELSE clients[s]]

Observe(seen) ==
  /\ ObserveAs(seen, Changed(seen))
  /\ clients' = ClientsAfter(Changed(seen))

\* What the owned look-up of the servers in S finds.
Found(S) == [s \in S |-> row[s]]

\* authoritativeServer, and the look-ups of reconcileConnections.
Lookup(S) == Observe(Found(S)) /\ UNCHANGED <<storageVars, calls>>

-----------------------------------------------------------------------------
(* clientFor: look the row up, then reuse or make its connection.            *)

\* The row is stored and has a token.
Connectable(s) == row[s] \in Revs \ Unusable

\* The open connection is reused only for the row just read (sameConnection).
Reusable(s) ==
  /\ clients[s] # None
  /\ clients[s].rev = row[s]
  /\ Changed(Found({s})) = {}

\* The servers whose epoch ends when s is connected: its row changed, or its open
\* connection cannot be reused.
Replaced(s) == Changed(Found({s})) \cup {x \in {s} : clients[x] # None /\ ~Reusable(x)}

NewClient(s) == Client(s, row[s], EpochsAfter(Found({s}), Replaced(s))[s])

Connect(s) ==
  /\ Connectable(s)
  /\ IF Reusable(s)
       THEN UNCHANGED <<connVars, linkVars>>
       ELSE /\ ObserveAs(Found({s}), Replaced(s))
            /\ clients' = [clients EXCEPT ![s] = NewClient(s)]
  /\ UNCHANGED <<storageVars, calls>>

\* The connection a caller holds after Connect(s).
Connected(s) == IF Reusable(s) THEN clients[s] ELSE NewClient(s)

-----------------------------------------------------------------------------
(* Fetching links over a connection, which may be cancelled meanwhile.       *)

\* currentClient.
Current(c) == clients[c.server] = c

\* A caller leads or waits for one flight at a time.
Free(w) ==
  /\ calls[w] = None
  /\ \A x \in waits \cup landed : x.who # w

Lead(w, c) ==
  /\ Free(w)
  /\ BeginFlight(w, KeyOf(c))
  /\ calls' = [calls EXCEPT ![w] = Call(c, Pending)]
  /\ UNCHANGED <<storageVars, connVars>>

Join(w, c) ==
  /\ Free(w)
  /\ JoinFlight(w, KeyOf(c))
  /\ UNCHANGED <<storageVars, connVars, calls>>

\* SubLinks between its two checks: an answer counts only if the connection is
\* current after the panel returned.
FetchLinks(w) ==
  /\ calls[w] # None
  /\ calls[w].answer = Pending
  /\ \E v \in {None} \cup {r \in {calls[w].client.rev} : Current(calls[w].client)} :
       calls' = [calls EXCEPT ![w].answer = v]
  /\ UNCHANGED <<storageVars, connVars, linkVars>>

\* finishLinkFlight.
FinishFlight(w) ==
  /\ calls[w] # None
  /\ calls[w].answer # Pending
  /\ EndFlight(w, KeyOf(calls[w].client), calls[w].answer)
  /\ calls' = [calls EXCEPT ![w] = None]
  /\ UNCHANGED <<storageVars, connVars>>

Leave(w) ==
  /\ LeaveFlight(w)
  /\ UNCHANGED <<storageVars, connVars, calls>>

\* PruneServerEpoch and PruneDeletedServers drop keys whatever the connections.
Prune(keys) ==
  /\ Drop(keys)
  /\ UNCHANGED <<storageVars, connVars, calls>>

-----------------------------------------------------------------------------
\* The connections a caller may hold: an open one, or one of an earlier epoch.
Held(c) == Current(c) \/ c.epoch < epochs[c.server]

CallerStep(w) ==
  \/ \E s \in Servers, r \in Revs \ Unusable : \E e \in 1..epochs[s] :
       LET c == Client(s, r, e) IN Held(c) /\ (Lead(w, c) \/ Join(w, c))
  \/ FetchLinks(w)
  \/ FinishFlight(w)
  \/ Leave(w)

ConnNext ==
  \/ \E s \in Servers : Write(s) \/ Connect(s)
  \/ \E S \in SUBSET Servers : Lookup(S)
  \/ \E w \in Callers : CallerStep(w)
  \/ \E keys \in SUBSET KeysInUse : Prune(keys)

ConnSpec == ConnInit /\ [][ConnNext]_aggVars

-----------------------------------------------------------------------------
(* Properties.                                                              *)

ConnTypeOK ==
  /\ row \in [Servers -> Revs \cup {None}]
  /\ created \subseteq Servers
  /\ writes \in 0..MaxWrites
  /\ epochs \in [Servers -> Nat]
  /\ observed \in [Servers -> Revs \cup {None, Unseen}]
  /\ clients \in [Servers -> ClientRecords \cup {None}]
  /\ \A s \in Servers : clients[s] # None => clients[s].server = s
  /\ calls \in [Callers -> CallRecords \cup {None}]

\* The open connection was made from the row last observed, in the epoch that
\* observation began (clientFor, observeServerLocked).
ClientMatchesRow ==
  \A s \in Servers :
    clients[s] # None => clients[s].rev = observed[s] /\ clients[s].epoch = epochs[s]

\* A connection that a caller still uses in the current epoch is the open one:
\* comparing epochs is as good as comparing connections (currentClient).
EpochNamesClient ==
  \A w \in Callers :
    calls[w] # None /\ calls[w].client.epoch = epochs[calls[w].client.server]
      => Current(calls[w].client)

\* The cache holds only links fetched over a connection to the row last
\* observed, under its epoch and its host: the links of a server whose address
\* or token was changed, or that was deleted, are out of reach as soon as
\* anyone has seen the change, whatever panel calls were in flight then.
CacheFenced ==
  \A e \in store :
    LET s == e.key.server IN
    /\ e.key.epoch = epochs[s]
    /\ e.val = observed[s]
    /\ e.key.host = HostOf[e.val]

\* An epoch never ends while its connection stays open, and none comes back.
EpochsGrow ==
  [][\A s \in Servers :
       /\ epochs'[s] >= epochs[s]
       /\ clients[s] # None /\ clients'[s] # clients[s] => epochs'[s] > epochs[s]]_aggVars

=============================================================================
