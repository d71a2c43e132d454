# TLA+ models of the 3x-ui subscription aggregator

The program stores, per user, the 3x-ui panels they own; keeps one connection per panel;
reads every panel in a refresh loop and publishes a snapshot; answers subscription requests by
merging the links of all panels of a user; and changes panels on request (attach and detach
groups of clients, copy, edit and delete inbounds). This directory holds models of that
behaviour, the configurations that check them with TLC, and proofs checked with TLAPS. Paths
below are relative to `src/`.

## 1. Inventory

| Component (code) | State | Operations | What is hard | What makes it correct | Model |
|---|---|---|---|---|---|
| Link cache (`internal/aggregator/link_cache.go`) | values, stale values, registered flights, fetch slots | GetOrFetch, Refresh, PruneEpochs, PruneDeletedServers | callers that share a fetch, prunes and cancellation during a fetch, panics, the slot limit | nothing pruned comes back, one fetch per key, a refresh returns something new, slots are given back, waiters are served | LinkStore, LinkCache |
| Connections (`aggregator.go`: clientFor, observe, invalidate, currentClient, fetchLinks) | observed rows, clients, epochs | connect, invalidate, delete, fenced panel calls | rows edited between a read and its use, calls that end after an edit | a current client belongs to the observed row, an epoch names one client, cached links were fetched over the client of their key | Connections |
| Refresh loop (`aggregator.go`, `fetch.go`) | snapshot, trigger channel, refresh mutex | refresh, triggers, ticker | two lists around a mutex, one worker per server, storage and panel faults, coalesced triggers | published servers are current, inventories match their epoch, no trigger is lost, a quiet system converges | Refresh |
| Subscription resolution (`subscription.go`, `httpapi/http.go`) | discovery flights | Subscription | rows, epochs, snapshot and cache read one after the other; shared discovery | links are of rows the user had, absence rests on a reading of the listed row, failure of a panel is not hidden, every request is answered | Subscription |
| Mutation gates (`mutations.go`, `inbound_mutations.go`) | map of reference-counted gates | acquire, release, cancel | entries dropped while others wait, several gates at once | one lock per key, no deadlock, no leak | Gates, MutationGates |
| Group mutations (`mutations.go`, `bulk_copy.go`) | none of its own; the panel's clients | AttachGroup, DetachGroup, CopyGroupsToInbound | overlapping requests, lost answers, late posts, edits between read and post, inbounds deleted under another gate, refresh | success is true and shown, repeating creates once | GroupMutations |
| Inbound mutations (`inbound_mutations.go`) | none of its own; the panel's inbounds and clients | CopyInbound, EditInbound, DeleteInbound | undoing half a copy while rows are edited and others attach | complete, or undone, or reported; nothing foreign removed | InboundMutations |
| Users, invites, sessions (`auth`, `webui/webui.go`, `cmd/aggregator/main.go`) | tables users, sessions, invites | login, logout, register, invites, user deletion, bootstrap | statements of overlapping requests without transactions, kills | sessions belong to who logged in, nothing outlives its account, the administrator stays | WebUI |
| Server forms (`webui/server_handlers.go`) | table servers | new, edit, delete | a row saved as it was read before | only owners change servers, an empty field keeps the token | WebUI |
| Storage (`storage/storage.go`) | SQLite | statements, migration | foreign keys, unique columns, AUTOINCREMENT | as above | WebUI, Connections, ClientGroups; the migration is not modelled |
| Panel client (`xui/api_*.go`) | none | doAPI, ListClients, posts | lost requests and answers, a list read page by page while it changes, panels that ignore paging | a change is made once, a list is whole, reading fails only for a reason | PanelClient |
| Rate limiter (`ratelimit/ratelimit.go`) | buckets per address, time of the last collection | Allow | a bucket collected while its address waits, bursts across windows | collection cannot be noticed, no window brings more than a burst and the rate | TokenBucket, RateLimit |
| Planner, group pages, last step of onboarding (`webui/connection_handlers.go`, `group_handlers.go`, `onboarding_handlers.go`, `catalog.go`) | tables client_groups, client_group_members | plan and apply, create, rename, delete, add and remove members | the plan is made from a snapshot and from groups read one by one, and run after both changed | only what was chosen is attached, to an own inbound; answers are true | ClientGroups, Planner |
| Secrets, CSRF tokens, configuration, other pages | none | pure functions, one call and rendering | — | — | not modelled |

Interactions. A mutation or a form changes a row or a panel and calls `refresh` or
`TriggerRefresh`; a refresh lists the rows, reconciles the connections, prunes the link cache,
reads every panel and publishes; a subscription request reads rows, snapshot and connections and
goes through discovery flights and the link cache. A mutation opens its connection under the gates
of the resources it changes and checks, before and after every panel call, that the connection is
still that of the stored row.

Hazards are listed in `PROJECT.json`, each at its line, with the properties that would notice
it going wrong or the reason there is none.

## 2. Modules

Modules that compose components extend or instantiate one another:

    LinkStore  <--refines--  LinkCache
    Gates      <--refines--  MutationGates
    Gates  ----used by---->  GroupMutations, InboundMutations
    Connections <-refines--  Refresh <-extends- Subscription
    Connections <-extends--  GroupMutations, InboundMutations
    TokenBucket <-refines--  RateLimit
    ClientGroups <-extends-- Planner
    WebUI, RateLimit, PanelClient, Planner  <-extends--  MCWeb, WebProofs
    ConnectionsProofs <-extends- RefreshProofs <-extends- SubscriptionProofs
    ConnectionsProofs <-extends- GroupMutationsProofs, InboundMutationsProofs

**LinkStore / LinkCache.** LinkStore is the promise: per key at most one running fetch, which
callers begin, join or leave; pruned keys forget everything; a value stored is the value fetched.
LinkCache is the code: `pc` is where a call is in `GetOrFetch`/`Refresh`, `flights` the flight
objects (registered or not), `values` and `stale` the two maps, `inUse` the semaphore. One
action per critical section of `c.mu`, one for taking a slot, one for each outcome of the
fetch (value, error, panic, cancellation of the leader). A value is the number of the fetch
that made it, so that "newer" can be said. Links themselves are not modelled.

**Gates / MutationGates.** Gates is one lock per key. MutationGates has the map, the gate
objects of a heap whose members are reused after collection, the token channel of each gate and
its reference count; `acquireMutationGate` is the actions Lookup, Take, Confirm (or CancelTaken),
and the release is GiveBack and DropRef. A plan is the set of keys one mutation needs, taken in
the order `acquireCopyGroupGates` sorts them in.

**Connections.** `row` is the storage (a revision per server or None; a revision is the content
of a row: address, token, flags), `observed`, `clients`, `epoch` are the maps under
`Aggregator.mu`, `cache` the links stored under a key and the client they came from. Observe,
Invalidate, Connect (client built outside the mutex, installed if the row is still the observed
one), and calls with a fence before and after are separate steps. Writers may create, edit and
delete rows at any point, MaxWrites times.

**Refresh** extends Connections with the refreshers (the loop and callers of Refresh), the
refresh mutex, the list read before and the list read after it was taken, one worker per
server, the snapshot and the trigger channel of capacity one. Storage reads and panel calls
may fail, MaxFaults times. `holders` is what the panels have for the subscription; others add and
remove it on the panels of Changing (PanelChanges, MaxMoves times), so that what was read (`has`) goes out of date. A disabled
client is listed and has no links, so a panel without links may list the subscription (Lists).

**Subscription** extends Refresh with requests: ListServers and LoadSnapshot, then for each server
the row again (LookupOK, LookupFails), ReadEpoch, Decide, and then the cache or a panel call.
Discovery is a flight of its own; requests that wait for one may hang up (HangsUp). Links are named
by the revision they were fetched over. A completed inventory of the current epoch settles a server
however old it is (`subscription.go:80-87`), while the panel may have changed since. `lacked` is a
history for the properties: the connections whose panel had no links at some moment while they were
open. Whether cached links are the empty list is not kept with the cache: Listing allows it whenever
the history does, which is more than the code can do.

**GroupMutations** extends Connections with panels (sets of client records), mutations and their
gates. A panel may execute and answer, refuse, lose the answer, or execute a post after
its caller gave up. Two actors of `inbound_mutations.go` interfere. DeleteInbound holds the gate of
its inbound, which no group mutation takes, so it may undo an attachment before it is answered;
`orphaned` are the mutations it happened to. A copy that is undone takes back records it made
(CopyTakesBack) under the gates of its groups, or late, and then the name is free again (`freed`). Both
do more here than in the code: any record that was not there at the start may stand for one a copy
made, and a deleted inbound's number may be in use again, so later posts for it may be accepted.
The refresh is reduced to the panel that was changed. Detaching visits the
records in any order; the code sorts them by email (`mutations.go:137`). The counts a bulk
copy reports are not kept, the result of each group is.

**InboundMutations** extends Connections with one copy of an inbound between two servers, one
edit or deletion, and the group mutations of other requests as atomic steps that need the group
gate. The baseline, the post, the proof that the created inbound is new, the group copies and the
compensation are one action per panel call. A new inbound gets the number after the largest the panel
has, so the number of a deleted one may come back; the panel may answer with another number, or
lose the answer. The source is read once: its gate keeps edits and deletions of that inbound away, not
groups attached to it later, which the copy does not look for. `ours` and `lost` record what
happened, for the properties; the code does not have them.

**WebUI** has the tables, with their unique columns, foreign keys and AUTOINCREMENT, and
requests whose every SQL statement is a step; the process may be killed between any two. A person
has one browser. `who` and `invite` of an account record who typed the password and the invite
used, for the properties; the code stores neither.

**TokenBucket / RateLimit.** TokenBucket is the promise: every address has a bucket that always
exists and fills all the time. RateLimit is the code: `buckets` made at first sight, filled when
the address asks (Allow), collected by whoever asks once four periods have passed since the last
collection. Arguments of `New` that are not positive are replaced as the code does. Tokens are
scaled by the period to be whole numbers. `opened` and `granted` count what an address got since
an arbitrary moment.

**PanelClient** is one call: doAPI's attempts (two for a GET, one for a POST), a request or answer
that is lost, a POST that the panel executes after its caller gave up (`stray`), and the loop of
`ListClients` over pages of a list which others change between the pages. A panel honours
pages, answers every page with the whole list, or overstates its count.

**ClientGroups / Planner.** ClientGroups has the SQL statements on client groups. Planner has the
requests: a plan (or the last onboarding step) reads the snapshot, then each chosen group in two
statements, row and members, then opens the target and attaches one subscription after the other;
group pages, refreshes, other users of the panel, deletions of servers and accounts come in
between. An attachment is one step here (GroupMutations has its inside): it succeeds, fails, or
fails although the panel did it. The database may fail in any statement: a plan and a group page end
with an error, onboarding goes on without the group, and the last statement of onboarding, which
marks the server, is ignored when it fails (`onboarding_handlers.go:184`). `was` records what was true
at some moment since a request began; its part `seen`, what the snapshot showed on the target.

**MCWeb** puts WebUI, RateLimit, PanelClient and Planner into one run. They share no state, so the
initial state chooses the one whose steps are taken (`part`) and the others stay as they began;
that is four searches in one run, not a product.

## 3. Checks

MC modules give the constants values; every run finishes within five minutes with two workers.

| Run | Instance | Shows |
|---|---|---|
| LinkCache | 3 calls, 2 servers, 1 slot | a pruned value never comes back (PrunedNeverCached); slots in use are running fetches; Refresh is fresh; an error without a stale value carries no links; a newer value is never replaced by an older one; no waiter outlives its flight; refinement of LinkStore |
| MutationGates | 3 mutations, keys 1 and 2, gate objects g1 and g2 | exact reference counts, refinement of Gates, and that every mutation ends although one needs both keys |
| Refresh | 1 server, 3 revisions (one without token), 2 writes, 1 fault | clients match observed rows, cached links match their key, inventories match epochs, publication is current, refinement of Connections |
| RefreshHeals | 1 server, 2 refreshers, 1 write, 1 fault, 1 change of a panel's clients, fair | whenever nothing is triggered or running the snapshot shows what is stored (TriggersSettle), a published server disappears only with its row, and after the writes and faults the snapshot converges to the stored rows |
| Subscription | 2 servers, 1 request, 1 write, 1 change of a panel's clients, 1 fault, 1 refresh | links were fetched over the row the request listed (LinksOfListedRow); a server is passed over without a failure only if its panel had no links at some moment while a connection to the listed row was open, in the epoch read or a later one (AbsenceJustified); an unflagged answer or "not found" leaves out no server that had them all the time (FailureIsFlagged) |
| SubscriptionLive | 1 server, 2 requests sharing flights, fair | every request is answered, though clients of others that share its flight hang up |
| GroupMutations | 2 requests out of attach, attach elsewhere, bulk copy, detach; 2 panels, 1 write, 1 upset: a late post, a deleted inbound or a record taken back | a success is true of the panel when it is answered (SuccessHolds) and the snapshot shows it (SnapshotShowsSuccess); what is confirmed is true of the panel the stored row leads to (ConfirmedIsCurrent); each unless the inbound was deleted meanwhile or a post was executed late; overlapping or repeated attachments make one record under a name that no copy took back (RetryCreatesOnce) |
| InboundCopy | 2 groups, 3 revisions of the rows over 2 panels, 1 write, 1 edit or delete | a successful copy is complete; a failed one that says nothing leaves nothing; neither compensation nor repetition removes an inbound or record the copy did not make |
| WebUI, part pages | 3 people, 2 requests, 3 logins, 3 accounts, 1 invite, 1 server | sessions belong to who logged in (SessionIsOwn); the administrator stays the only one (AdminStays) |
| WebUI, part limiter | 2 addresses, max 1 and burst 2 in 2 units, 10 units of time, windows opening at 0, 2 or 9 | no window brings an address more than a burst and its rate (WindowBound); refinement of TokenBucket (CollectionInvisible) |
| WebUI, part panel | pages of 2, at most 3 pages, 0 to 7 clients, 2 changes by others, 3 ways to page | a quiet listing is exact (QuietListIsExact), a listing under change misses at most one client per removal (MissesOnlyByRemoval), a change is handled at most once (PostedOnce), reading fails only for a reason (FailsForAReason) |
| WebUI, part planner | 2 users, each with an inbound and a group of the same name, 2 subscriptions, 3 groups, 1 plan, 1 group request, 1 change by others; audiences: all, one group or two, a list of one of the subscriptions | only what was in a chosen group or is in the chosen list, and was in the user's catalogue, is attached, to an own inbound (AttachesOnlyChosen); a group page answers what was so at some moment of the request; after a success every planned subscription was on the panel at some moment, or, for a plan, in the snapshot; only such an onboarding marks its server (GroupAnswersTrue) |

Three runs expect a violation: TLC shows the code doing what a text of the repository excludes.

* **RefreshNewServer** (LinksOutliveReconcile): `reconcileConnections` computes the live servers
  under `Aggregator.mu` and applies them with `PruneDeletedServers` after releasing it. A server
  that is stored, connected and fetched in between loses its last successful links although no
  row changed.
* **InviteOnce**: two overlapping registrations validate one invite before either marks it used;
  both get an account.
* **TokenKept** (BlankKeepsToken): an edit form submitted with an empty token field writes back
  the token it read before another edit replaced it.

**Why the bounds suffice.** Each hazard needs few actors: a pair of callers sharing a flight and
a third that leaves or joins; two refreshers and one writer; two mutations of the same group. One
write separates "before" and "after"; the Refresh run takes two so that a row can be edited and
edited back between two reads. Model values that play the same role
(calls, revisions with the same host, requests, people other than the operator) are symmetric in
the runs that check safety only. LinkCache and RefreshHeals do not use more servers
because keys, connections and epochs of different servers meet only in the slots, which the
LinkCache run with one slot and two servers covers. Bounds that cut behaviour, and not only
instances, are named: MaxWrites, MaxFaults, MaxMoves, MaxStarts, MaxUpsets, MaxUsers, MaxInvites, MaxServers,
MaxTime, MaxTurns, MaxClients, MaxGroups, MaxChanges.
In the limiter, an idle bucket is collected after 9 units, so ten units hold a collection and a
return after it, and the last window opens there. One change of a panel's clients lies between the
inventory and the request that trusts it, or between the inventory and the fetch of links. One upset
is enough to undo a success; a run with a late post and a deletion or removal besides (9.3 million
states) found nothing more and is left out for its length. RefreshHeals lets
one of its two revisions change, which stands for either, since both begin alike; the other runs with
refreshes leave the panels alone, because their properties are not about what panels have. Seven clients exceed the limit of three pages
of two by one, so that lists below, at and over every boundary occur. Two groups of two users with
one name, and a third id to give out, are what a mistake about owners or ids needs.
The Subscription, GroupMutations and InboundCopy runs begin with stored rows, and the Subscription
runs have one refresh. These runs stop once their requests are answered, so they do not check for
deadlock. The WebUI run does: a call of the panel that has ended rests (PanelRests), the clock's
end leaves addresses that may ask.

**Fairness.** A goroutine that can run, runs: weak fairness for each step of a worker, refresher,
mutation or request. The refresh mutex and the gates get strong fairness: a Go mutex (starvation
mode) and a channel receive (FIFO of waiters) hand over to who waits longest. The ticker is weakly
fair, as `time.Ticker` is; TriggersSettle does not need it. Panel calls end because they run
under a timeout. Nothing is assumed about users, writers, faults or cancellation.

**Mutants.** Every property of a passing run has a definition, next to the one it replaces, with a
plausible mistake in it (a fence not checked, a flight not compared, a gate not waited for, an id
reused); `PROJECT.json` pairs them and TLC finds the property violated with each.

## 4. Proofs

Every safety invariant and every action property that a passing run checks is also a theorem, for
all values of the constants: any numbers of calls, servers, panels, groups, people, writes and
faults. Only liveness is left to TLC.

**Assumptions.** They are named in the modules. Most say that None is not a datum, that bounds are
numbers, that each server has a worker, or that a constant is a function of the shape its
comment gives. These say more:

* PageAssumption: a page and the number of pages are positive. BurstAssumption: burst at most four
  times max; `New` does not demand it, both limiters of the program have burst = max (`main.go:67`,
  `webui.go:62`).
* StartAssumption (Planner): the group rows at the start have different ids that were given out, and
  members belong to rows: what AUTOINCREMENT and the foreign keys keep.
* StoredAssumption: a panel starts with finitely many records, one of an email (GroupMutations), one of
  a UUID (InboundMutations).
* GroupsAssumption (InboundMutations): the groups of a source inbound are a finite sequence.

One hypothesis is not an assumption on constants but on behaviours. SuccessStands, ConfirmsCurrent
and SnapshotStands are stated under `[]OneServer(Site)`: at any time, a panel is reached by one stored
server only. The code needs it, because gates are per stored server and nothing in storage keeps a
user from storing one panel twice; two requests for one group would then not exclude each other.
It restricts which rows are written, not when. The properties themselves except two things others
may do: a post that is executed after its caller gave up (`delays`), and the deletion of the inbound
since the mutation connected (`orphaned`), which no gate of the code prevents.

**Arguments.**

* **LinkCacheProofs.** SlotsAreFetches needs only where a call is. PrunedNeverCached,
  SingleFlight and NewerReplacesOlder come from `FlightInv`: the registered flight of a key is its
  one running flight that was not pruned, cached values come from ended flights that were not
  pruned, and nobody writes a key under its running flight. The properties alone are not
  inductive: they do not say which running fetch may still store what. FreshAfterRefresh and
  ErrorHasNoLinks add what a call remembers from its start. WaitersAreServed is inductive next to
  these: a leader leaves only by Finish, which closes its own flight even if a prune has disowned it
  and another flight has its key. The refinement of LinkStore goes action by action.
* **MutationGatesProofs.** `GatesInv`: an object in use is the one registered for its key and serves
  no other key, its count is the number of mutations that hold or want it, and its token is away
  while one of them, and only one, owns it. Exclusion, counting and the refinement of Gates follow.
* **ConnectionsProofs.** `CacheInv` relates clients, epochs and cached links, and says of every
  running call that its connection is the open one or of an earlier epoch, and that a live flight
  that has its answer has the open one. Without the calls it is not inductive: a stale call would
  be free to store anything. Every module that extends Connections reuses it, through
  `StillHeld` (a connection somebody got stays the open one or is of an earlier epoch). Also here:
  the least and the greatest number of a finite set, which stand in for induction elsewhere.
* **RefreshProofs.** Refresh implements Connections, which gives CacheFenced for it. `RefreshInv` says
  that what a worker or the snapshot holds names the client of its epoch. `WorkInv` adds who
  holds refreshMu, that workers work on what the holder listed, and that every result carries that
  list's row and the epoch of its worker's client: from it PublishedIsCurrent, since publication
  looks at the rows once more. `KnownInv` says the holder has listed every stored server that is
  shown, so publication can only drop a server whose row is gone (ServersStayPublished). TriggersSettle
  needs `Settling`: unless a trigger is owed or in the channel, or a refresh has still to list, the last
  list is that of the refresh at work and shows what is stored, or is published.
* **SubscriptionProofs.** `SubInv` puts the invariants of Refresh next to these about requests: a
  request visits listed servers over connections still held (VisitsHold), all connections of one
  server and epoch are one (OneConnection), an inventory whose epoch is the one it has read is of the
  listed row (SnapshotsCurrent), and a flight and its waiters share a connection (FlightsShared). The
  history enters with four: it knows every open connection whose panel has no links (Watched); an
  inventory without the subscription, read, published or loaded, was read over a connection it knows
  (ReadJustified, EntriesJustified); so was an absence a discovery found (DiscoveriesTrue). From the
  epoch it read on, a request uses connections of that epoch or later ones (EpochsHold), which dates
  the absence. Last, a listed server is still to visit, or has given links, or is noted as failed, or
  had none (AnswersHold). None is inductive alone: a waiter trusts its leader, a leader its
  connection, a connection the epoch.
* **GroupMutationsProofs.** `RecordsInv`: a panel has one record of an email, a record of the start
  keeps its email and group, what a mutation has listed is still there but for its inbounds and for
  names a copy took back, and every record made since, and every post under way or late, has the first
  name of its inbound that no record of another group has, unless that name was taken back. Two
  posts for one group thus ask for one email; this needs no gate and gives RetryCreatesOnce.
  `MutationsInv` (with OneServer) says that gates exclude mutations of a group on a panel
  (GatesExclude), that a connection leads to the panel of its server (Leads), that a mutation posts
  changes of its own group and inbound (AsksOwn) to records of that group (Concerns), and what is
  settled on the panel at each place of a mutation (Settles). The last two hold while no post is
  late. Attaching is settled when the group has the inbound or the mutation is orphaned: a deletion
  takes only the inbound away, so it can disturb nothing else, and it helps a detachment. A copy
  takes a record away only under the gate of its group, so never from a mutation that has it.
  `SnapshotInv` says that what any refresh has read over the same connection, or has published, agrees
  with the successes that have not yet returned.
* **InboundMutationsProofs.** `CopyInv` has six parts: where a copy may be with what (Shape); the new
  inbound was not in the baseline, and a connection used for it leads to its panel, whatever the row
  says now (OwnsInbound); the gates of the groups are held until it returns (HoldsGates); each
  group is on the new inbound or still to do (LoopInv); what it decides from is still on the panel
  (SeenInv); and every record it made is in `made`, or gone, or reported (LedgerInv).
  `RecordsOK` says that UUIDs tell records apart. What others do meanwhile enters through one lemma,
  OthersStep: they add no inbound, remove no record, and while the gates are held they take no record
  of a group off an inbound that stays. The four properties follow from these, without OneServer:
  but edits and group mutations by others go through the target's row in the model too.
* **WebProofs** has the four parts of MCWeb, each proved on its own.
  * WebUI: `WebInv` adds to the properties that ids are those given out and unique, and what
    each step of a request may rely on: an account id it remembers, if it still exists, is the
    account of the same person (this is where AUTOINCREMENT is needed); an account about to be
    deleted is no administrator. One lemma shows that the other requests are not disturbed.
  * RateLimit: the refinement of TokenBucket maps the level of a bucket to what it would hold
    if filled now. It needs that a bucket idle for more than four periods is full, which is where
    BurstAssumption comes in, and nonlinear arithmetic that is taken apart into lemmas. WindowBound
    is not inductive: `Budget` says for each address that what it got in the window and what its
    bucket still holds are together at most a burst and what the rate brought.
  * PanelClient: PostedOnce needs `PostInv`: where the one request is. QuietListIsExact needs
    `QuietInv`: while nobody changes the panel, the clients read are the list's prefix of the pages
    before this one, and an answer on its way is that page. FailsForAReason adds that
    a second attempt follows a temporary fault, and that a list that fits never meets a limit.
    MissesOnlyByRemoval needs `MissInv`, which counts: of the part of the list before the next page,
    at most as many clients that were there from the start are unread as clients were removed; each
    removal moves at most one client from a page not yet read to one already read.
    Cardinalities are compared with injections, so no sum over a list is needed.
  * Planner: `PlanInv`: ids of groups are given out once (RowsOK), so a group whose row was
    found to be the user's can only be that user's, or gone, when its members are read; what a plan
    has read was seen while it ran, and a list stays the one it was asked for (PlansOK). AttachesOnlyChosen
    follows. GroupAnswersTrue adds what each request has witnessed at each of its places, what the
    snapshot showed included (AnswersOK).

Sequences and sets of any size would ask for induction; where it was needed, the proofs take the least
(or greatest) index at which a claim could fail and show that there is none.

Proved and not run: the types of every component that has them, and SingleFlight,
StaleStaysCurrent, LiveGateRegistered, MutualExclusion, EpochNamesClient, EpochsGrow, NoOrphans
(sessions and servers have their account), OnlyOwnServers (a server changes only by its owner or
with the account); that requests, group mutations and copies of inbounds use connections as
Connections says, and group mutations the gates as Gates says, so that what is proved there holds
of them. A copy gives all its gates back in one step, which Gates does not have, so for it
the second is not claimed.

**Only model-checked**: liveness. EveryMutationEnds of MutationGates, Converges of Refresh and
EveryRequestAnswered of Subscription are under fairness, which is beyond the prover, as is ENABLED.

**What the proofs found.** Four places where the model did not say what the code does, or
said less than it meant:

* A discovery that ends wakes the callers that wait for it, and one that was woken keeps its answer even
  if the leader goes on to lead another flight before the waiter runs (`Woken` of Subscription).
* `CopyGroupsToInbound` opens the target once before its first group and may fail there
  (`OpenCopy` of GroupMutations).
* Planner let a page's form name several subscriptions where the code takes one.
* MissesOnlyByRemoval was false beyond the two changes of its run: with three, others remove a client
  that was read, add it again at the end, and fill a page with clients the listing knows; it then
  takes the list for ended. The property now leaves out listings during which a client that was
  already told is added again (`crowded` of PanelClient), as it did for a page or more of new ones.

## 5. What is left out

* Contents of links, inbounds (beyond port and tag) and snapshots; JSON, HTTP, HTML, hashing,
  encryption, formatting. A server whose stored token cannot be decrypted is a revision without
  a usable connection.
* `subID == ""`, which the HTTP layer refuses, and subscription prefixes.
* A copy of an inbound within one panel, and one panel stored as two servers: gates are per
  stored server, so such a panel is not protected by them.
* In GroupMutations, a refresh that belongs to no mutation: a mutation's own stands for it. In
  InboundMutations, inbounds that others add while a copy runs; the panel may answer the copy with the number of any
  inbound it has.
* The preview page, which is a plan that is not run, and the limit of 500 subscriptions per plan; the
  button that only marks onboarding as complete.
* The rounding of the limiter's floats. The check of a panel's version and the document of an inbound
  are pure functions.
* The schema migration: one transaction at the start of the process.
* What a panel does with the clients in the document of an inbound that `EditInbound` writes
  (`inbound_mutations.go:77`) while a group is attached: that is the panel's code.
* Form validation, CSRF, flash messages, several browsers of one person.
* The comment of `ensureAdmin` (`cmd/aggregator/main.go:106`) says an existing account is
  upgraded and its password reset; the code does neither. AdminStays is about the code, and about a
  configuration that does not change: with another admin login, `ensureAdmin` fails at the start.

Seen while modelling, without a run of their own:

* `docs/superpowers/specs/2026-07-15-dashboard-ux-and-client-groups-design.md:206` says that a plan
  is made from fresh state and checked again before it is run;
  `buildConnectionPreview` takes the snapshot the refresh published, when applying too.
  AttachesOnlyChosen is what holds: each thing was true at some moment, not at the last. So "all are
  already connected" (`connection_handlers.go:236`) says only that the snapshot shows them, and
  GroupAnswersTrue claims no more.
* An inventory of any age settles a server (`subscription.go:80-87`), also one that was kept because
  every read since has failed. A client added to the panel after it was read is missing from the answer,
  and the answer is not flagged, until a newer inventory is published. AbsenceJustified and
  FailureIsFlagged say what is left: the panel really had no links at some moment.
* `DeleteInbound` (`inbound_mutations.go:99`) takes the gate of the inbound, `AttachGroup`
  (`mutations.go:44`) that of the group, so an inbound may be deleted between an attachment and its
  answer, which then reports a success that is gone.
* `onboardingCopyUsers` drops the error of `CompleteServerOnboarding` (`onboarding_handlers.go:184`): a
  success may leave the server unmarked.
* A listing of clients can hide a client that was there all the time, if others remove clients, or add
  a page or more, or delete and add it again between two pages. MissesOnlyByRemoval is the bound.
* `ListClientGroups` (`storage.go:615`) fails as a whole if one group is deleted between its statements.
* `New` of the limiter accepts a burst of more than four times max; an address would then gain
  by waiting until its bucket is collected.
* An inbound whose creation the panel did not confirm (`inbound_mutations.go:215`) is not looked for:
  it might not be this copy's.

## 6. Plan

1. *(done)* Link cache, gates, connections, refresh, subscription, group and inbound mutations,
   web interface; client groups, planner, panel client, rate limiter; proofs of every safety
   property.
2. Model next: a copy within one panel; `EditInbound`'s whole document against an attachment of a group
   to the same inbound; pure algorithms (normalisation of links and ids, version comparison)
   against reference definitions.
3. Prove next: that the gates of a copy refine Gates with a release of several keys at once; that
   GroupMutations without OneServer keeps what one gate per server still gives; that the attachments
   of others in InboundMutations are the group mutations of GroupMutations.

## 7. Running

    tlc -workers 2 -config LinkCache.cfg MCLinkCache
    tlapm LinkCacheProofs.tla
