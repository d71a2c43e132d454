---------------------------- MODULE RefreshProofs ----------------------------
(***************************************************************************)
(* Proofs about Refresh for any servers, revisions, refreshers and         *)
(* requests: it obeys Connections, and an inventory that carries the       *)
(* current epoch is the inventory of the row last observed.                *)
(***************************************************************************)
EXTENDS Refresh, ConnectionsProofs

USE RevsAssumption, RecordsAssumption, RefreshersAssumption, WorkersAssumption
USE DEF ConnTypes, ClientMatchesRow, UnseenHasNoClient, Client, Current

-----------------------------------------------------------------------------
(* The connections of the goroutines.                                       *)

ClientSteps == {"inventory", "keep", "links", "fetch", "wait", "judge"}

WorkersHold ==
  /\ DOMAIN sc = Servers
  /\ \A s \in Servers : sc[s] # None => StillHeld(s, sc[s])
  /\ DOMAIN at = Servers
  /\ \A s \in Servers : at[s] \in ClientSteps => sc[s] # None

\* The entry e of server s claims the current epoch only for the current row.
EntryCurrent(s, e) ==
  e # None /\ e.inv # None =>
    /\ e.epoch \in 1..epochs[s]
    /\ e.epoch = epochs[s] => e.inv = observed[s]

EntriesCurrent ==
  /\ DOMAIN result = Servers
  /\ \A s \in Servers : EntryCurrent(s, snap[s]) /\ EntryCurrent(s, result[s])

RefreshInv == CacheInv /\ WorkersHold /\ EntriesCurrent

LEMMA EntryStays ==
  ASSUME CacheInv, [ConnNext]_aggVars, NEW s \in Servers, NEW e, EntryCurrent(s, e)
  PROVE  EntryCurrent(s, e)'
<1>1. EpochStep /\ CacheInv'
  BY EpochsAdvance, CacheStep
<1> QED
  BY <1>1 DEF EpochStep, EntryCurrent, CacheInv, ConnInv

-----------------------------------------------------------------------------
(* Every step is a step of Connections, or leaves its variables alone.       *)

LEMMA HeldCall ==
  ASSUME RefreshInv, NEW w \in Callers, NEW s \in Servers, NEW c, StillHeld(s, c),
         Lead(w, c) \/ Join(w, c)
  PROVE  CallerStep(w)
<1>1. /\ c = Client(s, c.rev, c.epoch) /\ c.rev \in Revs \ Unusable
      /\ c.epoch \in 1..epochs[s]
      /\ Held(c)
  BY DEF StillHeld, ClientRecords, Held, RefreshInv, CacheInv, ConnInv
<1> QED
  BY <1>1 DEF CallerStep

LEMMA WorkIsConn ==
  ASSUME RefreshInv, NEW s \in Servers, WorkOn(s)
  PROVE  ConnNext \/ UNCHANGED aggVars
<1>1. CASE ConnectOK(s)
  BY <1>1 DEF ConnectOK, ConnNext
<1>2. CASE ConnectFails(s)
  <2>1. {s} \in SUBSET Servers
    OBVIOUS
  <2> QED
    BY <1>2, <2>1 DEF ConnectFails, ConnNext
<1>3. CASE InventoryFails(s) \/ InventoryRead(s) \/ Judge(s)
  BY <1>3 DEF InventoryFails, InventoryRead, Judge
<1>4. CASE PruneInactive(s)
  <2>1. \A active \in BOOLEAN :
          {k \in KeysInUse \ Keep(s, active) : k.server = s /\ k.epoch = sc[s].epoch}
            \in SUBSET KeysInUse
    OBVIOUS
  <2> QED
    BY <1>4, <2>1 DEF PruneInactive, ConnNext
<1>5. CASE RefreshLinks(s)
  <2>1. StillHeld(s, sc[s])
    BY <1>5 DEF RefreshLinks, RefreshInv, WorkersHold, At, ClientSteps
  <2> QED
    BY <1>5, <2>1, HeldCall DEF RefreshLinks, WorkerClient, ConnNext
<1>6. CASE LinksReturn(s) \/ LinksFinish(s) \/ LinksArrive(s)
  BY <1>6 DEF LinksReturn, LinksFinish, LinksArrive, ConnNext, CallerStep
<1> QED
  BY <1>1, <1>2, <1>3, <1>4, <1>5, <1>6 DEF WorkOn

LEMMA RefresherIsConn ==
  ASSUME NEW r \in Refreshers, Start(r) \/ RefreshStep(r)
  PROVE  ConnNext \/ UNCHANGED aggVars
<1>1. CASE Start(r) \/ List(r) \/ Lock(r)
  BY <1>1 DEF Start, List, Lock
<1>2. CASE Reconcile(r)
  BY <1>2 DEF Reconcile, ReconcileAs, ConnNext, ListedBy
<1>3. CASE PruneDeleted(r) \/ StartWork(r)
  BY <1>3 DEF PruneDeleted, StartWork, PruneDeletedAs, ConnNext
<1>4. CASE Publish(r)
  BY <1>4 DEF Publish, ConnNext, ListedBy
<1> QED
  BY <1>1, <1>2, <1>3, <1>4 DEF RefreshStep

LEMMA StepIsConn ==
  ASSUME RefreshInv, [Next]_vars
  PROVE  [ConnNext]_aggVars
<1>1. CASE UNCHANGED vars
  BY <1>1 DEF vars
<1>2. ASSUME NEW s \in Servers, HandlerWrites(s) \/ Elsewhere(s)
      PROVE  ConnNext
  <2>1. {s} \in SUBSET Servers
    OBVIOUS
  <2> QED
    BY <1>2, <2>1 DEF HandlerWrites, Elsewhere, ConnNext
<1>3. ASSUME NEW s \in Servers, WorkOn(s)
      PROVE  ConnNext \/ UNCHANGED aggVars
  BY <1>3, WorkIsConn
<1>4. ASSUME NEW w \in Requests, RequestLinks(w)
      PROVE  ConnNext
  BY <1>4, OpenHeld, HeldCall DEF RefreshInv, RequestLinks, Requests, ConnNext
<1>5. ASSUME NEW w \in Requests, RequestReturns(w)
      PROVE  ConnNext
  BY <1>5 DEF RequestReturns, Requests, ConnNext, CallerStep
<1>6. CASE HandlerTriggers \/ StartTriggered \/ \E p \in Changing : PanelChanges(p)
  BY <1>6 DEF HandlerTriggers, StartTriggered, PanelChanges
<1>7. ASSUME NEW r \in Refreshers, Start(r) \/ RefreshStep(r)
      PROVE  ConnNext \/ UNCHANGED aggVars
  BY <1>7, RefresherIsConn
<1> QED
  BY <1>1, <1>2, <1>3, <1>4, <1>5, <1>6, <1>7 DEF Next, Refreshing

-----------------------------------------------------------------------------
(* The invariant.                                                           *)

LEMMA WorkersStep ==
  ASSUME RefreshInv, [Next]_vars
  PROVE  WorkersHold'
<1>1. [ConnNext]_aggVars
  BY StepIsConn
<1>2. \A s \in Servers : \A c : StillHeld(s, c) => StillHeld(s, c)'
  BY <1>1, HeldStays DEF RefreshInv
<1>3. \A s \in Servers : sc[s] # None => StillHeld(s, sc[s])
  BY DEF RefreshInv, WorkersHold
<1>4. ASSUME UNCHANGED <<sc, at>>
      PROVE  WorkersHold'
  BY <1>2, <1>3, <1>4 DEF RefreshInv, WorkersHold, StillHeld
<1>5. ASSUME NEW s \in Servers, NEW l, at' = [at EXCEPT ![s] = l], sc' = sc,
             l \in ClientSteps => sc[s] # None
      PROVE  WorkersHold'
  BY <1>2, <1>3, <1>5 DEF RefreshInv, WorkersHold, StillHeld
<1>6. ASSUME NEW s \in Servers, ConnectOK(s)
      PROVE  WorkersHold'
  <2>1. PICK c : c = Connected(s)
    OBVIOUS
  <2>2. StillHeld(s, c)' /\ sc' = [sc EXCEPT ![s] = c]
    BY <1>6, <2>1, ConnectGives DEF ConnectOK, RefreshInv
  <2>3. c # None
    BY <2>2 DEF StillHeld
  <2> QED
    BY <1>2, <1>3, <1>6, <2>2, <2>3 DEF ConnectOK, Moves, RefreshInv, WorkersHold, StillHeld
<1>7. ASSUME NEW s \in Servers, WorkOn(s), ~ConnectOK(s)
      PROVE  WorkersHold'
  <2>1. at[s] \in ClientSteps => sc[s] # None
    BY DEF RefreshInv, WorkersHold
  <2>2. CASE LinksReturn(s)
    BY <1>4, <2>2 DEF LinksReturn, workVars
  <2>3. CASE ~LinksReturn(s)
    <3>1. \E l : at' = [at EXCEPT ![s] = l] /\ sc' = sc /\ (l \in ClientSteps => sc[s] # None)
      BY <1>7, <2>1, <2>3
      DEF WorkOn, ConnectFails, InventoryFails, InventoryRead, PruneInactive, RefreshLinks,
          LinksFinish, LinksArrive, Judge, At, Moves, ClientSteps
    <3> QED
      BY <3>1, <1>5
  <2> QED
    BY <2>2, <2>3
<1>8. ASSUME NEW r \in Refreshers, StartWork(r)
      PROVE  WorkersHold'
  BY <1>8 DEF StartWork, WorkersHold, Nothing, ClientSteps
<1>9. ASSUME NEW r \in Refreshers, Publish(r)
      PROVE  WorkersHold'
  BY <1>9 DEF Publish, WorkersHold, Nothing, ClientSteps, At, RefreshInv
<1>10. ASSUME NEW r \in Refreshers, Start(r) \/ RefreshStep(r), ~StartWork(r), ~Publish(r)
       PROVE  WorkersHold'
  BY <1>10, <1>4 DEF Start, RefreshStep, List, Reconcile, ReconcileAs, PruneDeleted, Lock, workVars
<1>11. ASSUME NEW s \in Servers, HandlerWrites(s) \/ Elsewhere(s)
       PROVE  WorkersHold'
  BY <1>11, <1>4 DEF HandlerWrites, Elsewhere, refreshVars, workVars
<1>12. ASSUME NEW w \in Requests, RequestLinks(w) \/ RequestReturns(w)
       PROVE  WorkersHold'
  BY <1>12, <1>4 DEF RequestLinks, RequestReturns, refreshVars, workVars
<1>13. CASE HandlerTriggers \/ StartTriggered \/ (\E p \in Changing : PanelChanges(p)) \/ UNCHANGED vars
  BY <1>13, <1>4 DEF HandlerTriggers, StartTriggered, PanelChanges, vars, refreshVars, workVars
<1> QED
  BY <1>6, <1>7, <1>8, <1>9, <1>10, <1>11, <1>12, <1>13 DEF Next, Refreshing

LEMMA EntriesStep ==
  ASSUME RefreshInv, [Next]_vars
  PROVE  EntriesCurrent'
<1>1. [ConnNext]_aggVars
  BY StepIsConn
<1>2. \A s \in Servers : \A e : EntryCurrent(s, e) => EntryCurrent(s, e)'
  BY <1>1, EntryStays DEF RefreshInv
<1>3. \A s \in Servers : EntryCurrent(s, snap[s]) /\ EntryCurrent(s, result[s])
  BY DEF RefreshInv, EntriesCurrent
<1>4. ASSUME UNCHANGED <<snap, result>>
      PROVE  EntriesCurrent'
  BY <1>2, <1>3, <1>4 DEF RefreshInv, EntriesCurrent, EntryCurrent
<1>5. ASSUME NEW s \in Servers, NEW e, EntryCurrent(s, e)',
             result' = [result EXCEPT ![s] = e], snap' = snap
      PROVE  EntriesCurrent'
  BY <1>2, <1>3, <1>5 DEF RefreshInv, EntriesCurrent, EntryCurrent
<1>6. \A s \in Servers : \A r, x : EntryCurrent(s, Retained(s, r, x))
  BY <1>3 DEF EntryCurrent, Retained, Shown
<1>7. ASSUME NEW s \in Servers, Judge(s)
      PROVE  EntriesCurrent'
  <2>1. sc[s] # None /\ StillHeld(s, sc[s])
    BY <1>7 DEF Judge, At, RefreshInv, WorkersHold, ClientSteps
  <2>2. PICK e : e = IF fetched[s] # "none" /\ Current(sc[s])
                       THEN Shown(sc[s].rev, sc[s].rev, has[s], sc[s].epoch, fetched[s])
                       ELSE Retained(s, sc[s].rev, sc[s].epoch)
    OBVIOUS
  <2>3. EntryCurrent(s, e)
    <3>1. CASE fetched[s] # "none" /\ Current(sc[s])
      <4>1. clients[s] = sc[s] /\ sc[s].rev = observed[s] /\ sc[s].epoch = epochs[s]
        BY <2>1, <3>1 DEF StillHeld, RefreshInv, CacheInv, ConnInv
      <4>2. epochs[s] \in 1..epochs[s]
        BY <2>1, <4>1 DEF StillHeld, ClientRecords
      <4> QED
        BY <2>2, <3>1, <4>1, <4>2 DEF EntryCurrent, Shown
    <3>2. CASE ~(fetched[s] # "none" /\ Current(sc[s]))
      BY <2>2, <3>2, <1>6
    <3> QED
      BY <3>1, <3>2
  <2>4. result' = [result EXCEPT ![s] = e] /\ snap' = snap
    BY <1>7, <2>2 DEF Judge, RestOfWork
  <2> QED
    BY <1>2, <1>5, <2>3, <2>4
<1>8. ASSUME NEW s \in Servers, ConnectFails(s)
      PROVE  EntriesCurrent'
  <2>1. PICK e : e = Retained(s, listed[refreshMu][s], 0)
    OBVIOUS
  <2>2. EntryCurrent(s, e) /\ result' = [result EXCEPT ![s] = e] /\ snap' = snap
    BY <1>6, <1>8, <2>1 DEF ConnectFails
  <2> QED
    BY <1>2, <1>5, <2>2
<1>9. ASSUME NEW s \in Servers, WorkOn(s), ~Judge(s), ~ConnectFails(s)
      PROVE  EntriesCurrent'
  BY <1>4, <1>9 DEF WorkOn, ConnectOK, InventoryFails, InventoryRead, PruneInactive, RefreshLinks,
     LinksReturn, LinksFinish, LinksArrive, RestOfWork, workVars
<1>10. ASSUME NEW r \in Refreshers, StartWork(r)
       PROVE  EntriesCurrent'
  <2>1. result' = Nothing /\ snap' = snap
    BY <1>10 DEF StartWork, PruneDeletedAs
  <2> QED
    BY <1>2, <1>3, <2>1 DEF EntriesCurrent, EntryCurrent, Nothing
<1>11. ASSUME NEW r \in Refreshers, Publish(r)
       PROVE  EntriesCurrent'
  <2>1. result' = Nothing
    BY <1>11 DEF Publish
  <2>2. PICK failing \in SUBSET ListedBy(r) :
          snap' = [s \in Servers |->
                     IF s \in ListedBy(r) THEN Publishable(r, s, failing) ELSE None]
    BY <1>11 DEF Publish
  <2>3. ASSUME NEW s \in Servers
        PROVE  \E e : e = snap'[s] /\ EntryCurrent(s, e)
    <3>1. \/ snap'[s] = None \/ snap'[s] = result[s]
          \/ \E r_1, x : snap'[s] = Retained(s, r_1, x)
      BY <2>2 DEF Publishable
    <3> QED
      BY <3>1, <1>3, <1>6 DEF EntryCurrent
  <2>4. \A s \in Servers : EntryCurrent(s, snap[s])'
    BY <2>3, <1>2 DEF EntryCurrent
  <2> QED
    BY <2>1, <2>4 DEF EntriesCurrent, EntryCurrent, Nothing
<1>12. ASSUME NEW r \in Refreshers, Start(r) \/ RefreshStep(r), ~StartWork(r), ~Publish(r)
       PROVE  EntriesCurrent'
  BY <1>12, <1>4 DEF Start, RefreshStep, List, Reconcile, ReconcileAs, PruneDeleted, PruneDeletedAs,
     Lock, workVars
<1>13. ASSUME NEW s \in Servers, HandlerWrites(s) \/ Elsewhere(s)
       PROVE  EntriesCurrent'
  BY <1>13, <1>4 DEF HandlerWrites, Elsewhere, refreshVars, workVars
<1>14. ASSUME NEW w \in Requests, RequestLinks(w) \/ RequestReturns(w)
       PROVE  EntriesCurrent'
  BY <1>14, <1>4 DEF RequestLinks, RequestReturns, refreshVars, workVars
<1>15. CASE HandlerTriggers \/ StartTriggered \/ (\E p \in Changing : PanelChanges(p)) \/ UNCHANGED vars
  BY <1>15, <1>4 DEF HandlerTriggers, StartTriggered, PanelChanges, vars, refreshVars, workVars
<1> QED
  BY <1>7, <1>8, <1>9, <1>10, <1>11, <1>12, <1>13, <1>14, <1>15 DEF Next, Refreshing

-----------------------------------------------------------------------------
(* Types, and what the goroutines know.  The holder of refreshMu is one of  *)
(* its critical section's places; a goroutine works for it, on a row it     *)
(* listed, and its result shows that row.                                   *)

Locked  == {"relisted", "reprune", "work"}
Working == refreshMu # None /\ pc[refreshMu] = "work"

OwedAreWrites == owed <= writes

MuIsHeld == \A r \in Refreshers : pc[r] \in Locked <=> refreshMu = r

WorksOnListed ==
  \A s \in Servers :
    /\ at[s] # "done" => Working /\ listed[refreshMu][s] # None /\ result[s] = None
    /\ sc[s] # None => Working /\ sc[s].rev = listed[refreshMu][s]

ResultsShowListed ==
  \A s \in Servers :
    /\ result[s] # None =>
         /\ Working
         /\ result[s].shown = listed[refreshMu][s]
         /\ result[s].state # "failed" => sc[s] # None /\ result[s].epoch = sc[s].epoch
    /\ Working /\ listed[refreshMu][s] # None /\ at[s] = "done" => result[s] # None

WorkInv == TypeOK /\ OwedAreWrites /\ MuIsHeld /\ WorksOnListed /\ ResultsShowListed

LEMMA RowsChangeByWrite ==
  ASSUME [Next]_vars
  PROVE  UNCHANGED storageVars \/ \E s \in Servers : HandlerWrites(s)
<1> USE DEF aggVars, Lookup, Connect, Lead, Join, FetchLinks, FinishFlight, Leave, Prune
<1>1. ASSUME NEW s \in Servers, WorkOn(s)
      PROVE  UNCHANGED storageVars
  <2>1. CASE ConnectOK(s) \/ ConnectFails(s) \/ InventoryFails(s) \/ InventoryRead(s)
             \/ PruneInactive(s)
    BY <2>1 DEF ConnectOK, ConnectFails, InventoryFails, InventoryRead, PruneInactive
  <2>2. CASE RefreshLinks(s) \/ LinksReturn(s) \/ LinksFinish(s) \/ LinksArrive(s) \/ Judge(s)
    BY <2>2 DEF RefreshLinks, LinksReturn, LinksFinish, LinksArrive, Judge
  <2> QED
    BY <1>1, <2>1, <2>2 DEF WorkOn
<1>2. ASSUME NEW r \in Refreshers, Start(r) \/ RefreshStep(r)
      PROVE  UNCHANGED storageVars
  BY <1>2 DEF Start, RefreshStep, List, Reconcile, ReconcileAs, PruneDeleted, PruneDeletedAs, Lock,
              StartWork, Publish
<1>3. ASSUME NEW s \in Servers, Elsewhere(s)
      PROVE  UNCHANGED storageVars
  BY <1>3 DEF Elsewhere
<1>4. ASSUME NEW w \in Requests, RequestLinks(w) \/ RequestReturns(w)
      PROVE  UNCHANGED storageVars
  BY <1>4 DEF RequestLinks, RequestReturns
<1>5. CASE HandlerTriggers \/ StartTriggered \/ (\E p \in Changing : PanelChanges(p)) \/ UNCHANGED vars
  BY <1>5 DEF HandlerTriggers, StartTriggered, PanelChanges, vars
<1> QED
  BY <1>1, <1>2, <1>3, <1>4, <1>5 DEF Next, Refreshing

LEMMA RetainedTypes ==
  ASSUME TypeOK, NEW s \in Servers, NEW r \in Revs, NEW e \in Nat
  PROVE  /\ Retained(s, r, e) \in Entries
         /\ Retained(s, r, e).shown = r
         /\ Retained(s, r, e).state = "failed"
<1>1. CASE snap[s] = None
  BY <1>1 DEF Retained, Shown, Entries, States
<1>2. CASE snap[s] # None
  <2>1. snap[s] \in Entries
    BY <1>2 DEF TypeOK
  <2>2. snap[s].inv \in Revs \cup {None} /\ snap[s].has \in BOOLEAN /\ snap[s].epoch \in Nat
    BY <2>1 DEF Entries
  <2> QED
    BY <1>2, <2>2 DEF Retained, Shown, Entries, States
<1> QED
  BY <1>1, <1>2

LEMMA TypesWork ==
  ASSUME WorkInv, RefreshInv, RefreshInv', NEW s \in Servers, WorkOn(s)
  PROVE  TypeOK' /\ OwedAreWrites'
<1> USE HoldersAssumption, MaxFaultsAssumption, MovesAssumption, MaxWritesAssumption DEF RestOfWork
<1>1. ConnTypeOK'
  BY DEF RefreshInv, CacheInv, ConnInv, ConnTypeOK, CallTypes
<1>2. sc' \in [Servers -> ClientRecords \cup {None}]
  <2>1. sc' = sc \/ sc' = [sc EXCEPT ![s] = Connected(s)]
    BY DEF WorkOn, ConnectOK, ConnectFails, InventoryFails, InventoryRead, PruneInactive,
           RefreshLinks, LinksReturn, LinksFinish, LinksArrive, Judge, workVars
  <2>2. \A x \in Servers : sc'[x] # None => sc'[x] \in ClientRecords
    BY DEF RefreshInv, WorkersHold, StillHeld
  <2> QED
    BY <2>1, <2>2 DEF WorkInv, TypeOK
<1>3. at' \in [Servers -> Steps] /\ fetched' \in [Servers -> {"none", "ok", "degraded"}]
  BY DEF WorkOn, ConnectOK, ConnectFails, InventoryFails, InventoryRead, PruneInactive,
         RefreshLinks, LinksReturn, LinksFinish, LinksArrive, Judge, workVars, WorkInv, TypeOK,
         Moves, Steps, LinksSynced
<1>4. result' \in [Servers -> Entries \cup {None}]
  <2>1. CASE ConnectFails(s)
    <3>1. listed[refreshMu][s] \in Revs
      BY <2>1 DEF ConnectFails, At, WorkInv, WorksOnListed, Working, TypeOK
    <3>2. Retained(s, listed[refreshMu][s], 0) \in Entries
      BY <3>1, RetainedTypes DEF WorkInv
    <3> QED
      BY <2>1, <3>2 DEF ConnectFails, WorkInv, TypeOK
  <2>2. CASE Judge(s)
    <3>1. sc[s] \in ClientRecords /\ fetched[s] \in {"none", "ok", "degraded"} /\ has[s] \in BOOLEAN
      <4>1. sc[s] # None
        BY <2>2 DEF Judge, At, RefreshInv, WorkersHold, ClientSteps
      <4> QED
        BY <4>1 DEF WorkInv, TypeOK
    <3>2. sc[s].rev \in Revs /\ sc[s].epoch \in Nat
      BY <3>1 DEF ClientRecords
    <3>3. Retained(s, sc[s].rev, sc[s].epoch) \in Entries
      BY <3>2, RetainedTypes DEF WorkInv
    <3>4. fetched[s] # "none" => Shown(sc[s].rev, sc[s].rev, has[s], sc[s].epoch, fetched[s]) \in Entries
      BY <3>1, <3>2 DEF Shown, Entries, States
    <3> QED
      BY <2>2, <3>3, <3>4 DEF Judge, WorkInv, TypeOK
  <2>3. CASE ~ConnectFails(s) /\ ~Judge(s)
    BY <2>3 DEF WorkOn, ConnectOK, InventoryFails, InventoryRead, PruneInactive,
         RefreshLinks, LinksReturn, LinksFinish, LinksArrive, workVars, WorkInv, TypeOK
  <2> QED
    BY <2>1, <2>2, <2>3
<1>5. /\ UNCHANGED <<owed, trigger, pc, listed, alive, refreshMu, snap, writes>>
      /\ faults' \in 0..MaxFaults
  BY RowsChangeByWrite, <1>1
  DEF WorkOn, ConnectOK, ConnectFails, InventoryFails, InventoryRead, PruneInactive,
      RefreshLinks, LinksReturn, LinksFinish, LinksArrive, Judge, WorkInv, TypeOK, Fault,
      Connect, Lookup, Lead, Join, FetchLinks, FinishFlight, Leave, Prune, storageVars, aggVars
<1>6. has' \in [Servers -> BOOLEAN]
  BY DEF WorkOn, ConnectOK, ConnectFails, InventoryFails, InventoryRead, PruneInactive, Lists,
         RefreshLinks, LinksReturn, LinksFinish, LinksArrive, Judge, workVars, WorkInv, TypeOK
<1>7. UNCHANGED <<holders, moves>>
  BY DEF WorkOn, ConnectOK, ConnectFails, InventoryFails, InventoryRead, PruneInactive,
         RefreshLinks, LinksReturn, LinksFinish, LinksArrive, Judge, panelVars
<1> QED
  BY <1>1, <1>2, <1>3, <1>4, <1>5, <1>6, <1>7 DEF WorkInv, TypeOK, OwedAreWrites

\* What a listed server is published as.
LEMMA PublishableTypes ==
  ASSUME WorkInv, ConnTypeOK', NEW r \in Refreshers, NEW s \in ListedBy(r), NEW failing
  PROVE  Publishable(r, s, failing) \in Entries \cup {None}
<1>1. s \in Servers /\ listed[r][s] \in Revs /\ row[s] \in Revs \cup {None} /\ epochs[s] \in Nat
  BY DEF ListedBy, WorkInv, TypeOK, ConnTypeOK
<1>2. epochs'[s] \in Nat
  BY <1>1 DEF ConnTypeOK
<1>3. Retained(s, listed[r][s], epochs[s]) \in Entries
  BY <1>1, RetainedTypes DEF WorkInv
<1>4. row[s] # None => Retained(s, row[s], epochs'[s]) \in Entries
  BY <1>1, <1>2, RetainedTypes DEF WorkInv
<1>5. result[s] \in Entries \cup {None}
  BY <1>1 DEF WorkInv, TypeOK
<1> QED
  BY <1>3, <1>4, <1>5 DEF Publishable

LEMMA TypesRefresher ==
  ASSUME WorkInv, RefreshInv', NEW r \in Refreshers, Start(r) \/ RefreshStep(r)
  PROVE  TypeOK' /\ OwedAreWrites'
<1> USE MaxFaultsAssumption, MovesAssumption, MaxWritesAssumption DEF PCs
<1>1. ConnTypeOK'
  BY DEF RefreshInv, CacheInv, ConnInv, ConnTypeOK, CallTypes
<1>2. UNCHANGED <<owed, trigger, writes, holders, moves>>
  BY DEF Start, RefreshStep, List, Reconcile, ReconcileAs, PruneDeleted, PruneDeletedAs, Lock,
         StartWork, Publish, Lookup, Prune, storageVars, aggVars, panelVars
<1>3. /\ OwedAreWrites' /\ owed' \in 0..MaxWrites /\ trigger' \in BOOLEAN
      /\ holders' \subseteq Revs /\ moves' \in 0..MaxMoves
  BY <1>2 DEF WorkInv, TypeOK, OwedAreWrites
<1>4. CASE Start(r) \/ List(r) \/ Lock(r)
  <2>1. row \in [Servers -> Revs \cup {None}]
    BY DEF WorkInv, TypeOK, ConnTypeOK
  <2>2. UNCHANGED <<alive, workVars, snap>>
    BY <1>4 DEF Start, List, Lock
  <2>3. faults' \in 0..MaxFaults
    BY <1>4 DEF Start, List, Lock, Fault, WorkInv, TypeOK
  <2>4. pc' \in [Refreshers -> PCs]
    BY <1>4 DEF Start, List, Lock, Goto, WorkInv, TypeOK
  <2>5. listed' \in [Refreshers -> [Servers -> Revs \cup {None}]]
    BY <1>4, <2>1 DEF Start, List, Lock, Relisted, Nothing, WorkInv, TypeOK
  <2>6. refreshMu' \in Refreshers \cup {None}
    BY <1>4 DEF Start, List, Lock, MuAfterFault, WorkInv, TypeOK
  <2> QED
    BY <1>1, <1>3, <2>2, <2>3, <2>4, <2>5, <2>6 DEF workVars, WorkInv, TypeOK
<1>5. CASE Reconcile(r)
  <2>1. \A failing : \A S \in SUBSET Servers : AliveAfter(S, failing) \in SUBSET Servers
    BY DEF AliveAfter
  <2>2. ListedBy(r) \cup {s \in Servers : observed[s] \in Revs} \in SUBSET Servers
    BY DEF ListedBy
  <2>3. alive' \in [Refreshers -> SUBSET Servers] /\ faults' \in 0..MaxFaults
    <3>1. PICK S \in SUBSET Servers : \E failing \in SUBSET S :
            /\ IF failing = {} THEN UNCHANGED faults ELSE Fault(1)
            /\ alive' = [alive EXCEPT ![r] = AliveAfter(S, failing)]
      BY <1>5, <2>2 DEF Reconcile, ReconcileAs
    <3>2. \A failing : AliveAfter(S, failing) \in SUBSET Servers
      BY <2>1
    <3>3. alive' \in [Refreshers -> SUBSET Servers]
      BY <3>1, <3>2 DEF WorkInv, TypeOK
    <3>4. faults' \in 0..MaxFaults
      BY <3>1 DEF Fault, WorkInv, TypeOK
    <3> QED
      BY <3>3, <3>4
  <2>4. pc' \in [Refreshers -> PCs]
    BY <1>5 DEF Reconcile, Goto, WorkInv, TypeOK
  <2>5. UNCHANGED <<listed, refreshMu, workVars, snap>>
    BY <1>5 DEF Reconcile, ReconcileAs
  <2> QED
    BY <1>1, <1>3, <2>3, <2>4, <2>5 DEF WorkInv, TypeOK, workVars
<1>6. CASE PruneDeleted(r)
  BY <1>1, <1>3, <1>6 DEF PruneDeleted, PruneDeletedAs, Goto, workVars, WorkInv, TypeOK
<1>7. CASE StartWork(r)
  BY <1>1, <1>3, <1>7 DEF StartWork, PruneDeletedAs, Goto, Nothing, Steps, WorkInv, TypeOK
<1>8. CASE Publish(r)
  <2>1. snap' \in [Servers -> Entries \cup {None}]
    BY <1>1, <1>8, PublishableTypes DEF Publish
  <2>2. faults' \in 0..MaxFaults
    BY <1>8 DEF Publish, Fault, WorkInv, TypeOK
  <2> QED
    BY <1>1, <1>3, <1>8, <2>1, <2>2 DEF Publish, Goto, Nothing, WorkInv, TypeOK
<1> QED
  BY <1>4, <1>5, <1>6, <1>7, <1>8 DEF RefreshStep

LEMMA TypesStep ==
  ASSUME WorkInv, RefreshInv, RefreshInv', [Next]_vars
  PROVE  TypeOK' /\ OwedAreWrites'
<1> USE MaxWritesAssumption
<1>1. ConnTypeOK'
  BY DEF RefreshInv, CacheInv, ConnInv, ConnTypeOK, CallTypes
<1>2. ASSUME UNCHANGED <<faults, pc, listed, alive, refreshMu, workVars, snap>>,
             owed' \in 0..writes', trigger' \in BOOLEAN,
             holders' \subseteq Revs, moves' \in 0..MaxMoves
      PROVE  TypeOK' /\ OwedAreWrites'
  BY <1>1, <1>2 DEF WorkInv, TypeOK, OwedAreWrites, workVars, ConnTypeOK
<1>3. ASSUME NEW s \in Servers, HandlerWrites(s)
      PROVE  TypeOK' /\ OwedAreWrites'
  BY <1>2, <1>3 DEF HandlerWrites, Write, panelVars, WorkInv, TypeOK, ConnTypeOK, OwedAreWrites
<1>4. ASSUME NEW s \in Servers, Elsewhere(s)
      PROVE  TypeOK' /\ OwedAreWrites'
  BY <1>2, <1>4 DEF Elsewhere, Lookup, Connect, storageVars, refreshVars, panelVars, WorkInv, TypeOK, OwedAreWrites
<1>5. ASSUME NEW w \in Requests, RequestLinks(w) \/ RequestReturns(w)
      PROVE  TypeOK' /\ OwedAreWrites'
  BY <1>2, <1>5 DEF RequestLinks, RequestReturns, Lead, Join, FetchLinks, FinishFlight, Leave,
     storageVars, refreshVars, panelVars, WorkInv, TypeOK, OwedAreWrites
<1>6. CASE HandlerTriggers
  BY <1>2, <1>6 DEF HandlerTriggers, aggVars, storageVars, panelVars, WorkInv, TypeOK, ConnTypeOK, OwedAreWrites
<1>7. CASE StartTriggered
  BY <1>1, <1>7, RefreshersAssumption DEF StartTriggered, Goto, PCs, panelVars, workVars, aggVars, storageVars,
     WorkInv, TypeOK, OwedAreWrites
<1>8. CASE UNCHANGED vars
  BY <1>2, <1>8 DEF vars, refreshVars, panelVars, aggVars, storageVars, WorkInv, TypeOK, OwedAreWrites
<1>9. CASE \E p \in Changing : PanelChanges(p)
  BY <1>2, <1>9, MovesAssumption DEF PanelChanges, aggVars, storageVars, WorkInv, TypeOK, OwedAreWrites
<1> QED
  BY <1>3, <1>4, <1>5, <1>6, <1>7, <1>8, <1>9, TypesWork, TypesRefresher DEF Next, Refreshing

\* The goroutines do not start before refreshMu is held, and it is not released
\* before they are done.
LEMMA PlacesStep ==
  ASSUME WorkInv, [Next]_vars
  PROVE  MuIsHeld'
<1> USE DEF MuIsHeld, Locked
<1>1. ASSUME UNCHANGED <<pc, refreshMu>>
      PROVE  MuIsHeld'
  BY <1>1 DEF WorkInv
<1>2. ASSUME NEW s \in Servers,
             \/ HandlerWrites(s) \/ Elsewhere(s) \/ WorkOn(s)
             \/ \E w \in Requests : RequestLinks(w) \/ RequestReturns(w)
      PROVE  UNCHANGED <<pc, refreshMu>>
  BY <1>2 DEF HandlerWrites, Elsewhere, refreshVars, RequestLinks, RequestReturns, RestOfWork,
     WorkOn, ConnectOK, ConnectFails, InventoryFails, InventoryRead, PruneInactive,
     RefreshLinks, LinksReturn, LinksFinish, LinksArrive, Judge
<1>3. CASE HandlerTriggers \/ UNCHANGED vars \/ \E p \in Changing : PanelChanges(p)
  BY <1>1, <1>3 DEF HandlerTriggers, PanelChanges, vars, refreshVars
<1>4. CASE StartTriggered
  BY <1>4 DEF StartTriggered, Goto, WorkInv, TypeOK
<1>5. ASSUME NEW r \in Refreshers, Start(r) \/ RefreshStep(r)
      PROVE  MuIsHeld'
  <2>1. CASE Start(r) \/ List(r) \/ Reconcile(r) \/ PruneDeleted(r) \/ StartWork(r)
    <3>1. refreshMu' = refreshMu
      BY <2>1 DEF Start, List, Reconcile, ReconcileAs, PruneDeleted, PruneDeletedAs, StartWork
    <3>2. \E l : pc' = [pc EXCEPT ![r] = l] /\ (l \in Locked <=> pc[r] \in Locked)
      BY <2>1 DEF Start, List, Reconcile, PruneDeleted, StartWork, Goto
    <3> QED
      BY <3>1, <3>2 DEF WorkInv, TypeOK
  <2>2. CASE Lock(r)
    BY <2>2 DEF Lock, MuAfterFault, Goto, WorkInv, TypeOK
  <2>3. CASE Publish(r)
    BY <2>3 DEF Publish, Goto, WorkInv, TypeOK
  <2> QED
    BY <1>5, <2>1, <2>2, <2>3 DEF RefreshStep
<1>6. ASSUME NEW w \in Requests, RequestLinks(w) \/ RequestReturns(w)
      PROVE  UNCHANGED <<pc, refreshMu>>
  BY <1>6 DEF RequestLinks, RequestReturns, refreshVars
<1> QED
  BY <1>1, <1>2, <1>3, <1>4, <1>5, <1>6 DEF Next, Refreshing

LEMMA WorkKeepsWork ==
  ASSUME WorkInv, RefreshInv, TypeOK', NEW s \in Servers, WorkOn(s)
  PROVE  WorksOnListed' /\ ResultsShowListed'
<1> USE DEF WorkInv, WorksOnListed, ResultsShowListed, Working, At, Moves
<1>1. UNCHANGED <<pc, listed, refreshMu>> /\ Working
  BY DEF RestOfWork, WorkOn, ConnectOK, ConnectFails, InventoryFails, InventoryRead,
     PruneInactive, RefreshLinks, LinksReturn, LinksFinish, LinksArrive, Judge
<1>2. CASE ConnectOK(s)
  <2>1. Connected(s) # None /\ Connected(s).rev = listed[refreshMu][s]
    <3>1. CASE Reusable(s)
      BY <1>2, <3>1 DEF ConnectOK, Connected, Reusable
    <3>2. CASE ~Reusable(s)
      <4>1. Connected(s) = NewClient(s) /\ NewClient(s).rev = listed[refreshMu][s]
        BY <1>2, <3>2 DEF ConnectOK, Connected, NewClient
      <4>2. sc'[s] = Connected(s) /\ sc'[s] \in ClientRecords \cup {None}
        BY <1>2 DEF ConnectOK, TypeOK
      <4>3. sc'[s] # None
        BY <1>2, ConnectGives DEF ConnectOK, RefreshInv, StillHeld, TypeOK
      <4> QED
        BY <4>1, <4>2, <4>3
    <3> QED
      BY <3>1, <3>2
  <2>2. sc' = [sc EXCEPT ![s] = Connected(s)] /\ at' = [at EXCEPT ![s] = "inventory"]
        /\ result' = result /\ result[s] = None /\ listed[refreshMu][s] # None
    BY <1>2 DEF ConnectOK
  <2>3. WorksOnListed'
    BY <1>1, <2>1, <2>2 DEF TypeOK
  <2>4. ResultsShowListed'
    BY <1>1, <2>1, <2>2 DEF TypeOK
  <2> QED
    BY <2>3, <2>4
<1>3. ASSUME NEW e \in Entries, result' = [result EXCEPT ![s] = e], UNCHANGED sc,
             at[s] # "done", at' = [at EXCEPT ![s] = "done"],
             e.shown = listed[refreshMu][s],
             e.state # "failed" => sc[s] # None /\ e.epoch = sc[s].epoch
      PROVE  WorksOnListed' /\ ResultsShowListed'
  BY <1>1, <1>3, EntriesAssumption DEF TypeOK
<1>4. CASE ConnectFails(s)
  <2>1. listed[refreshMu][s] \in Revs
    BY <1>4 DEF ConnectFails, TypeOK
  <2>2. PICK e : e = Retained(s, listed[refreshMu][s], 0)
    OBVIOUS
  <2>3. e \in Entries /\ e.shown = listed[refreshMu][s] /\ e.state = "failed"
    BY <2>1, <2>2, RetainedTypes
  <2> QED
    BY <1>3, <1>4, <2>2, <2>3 DEF ConnectFails
<1>5. CASE Judge(s)
  <2>1. sc[s] \in ClientRecords /\ sc[s] # None /\ sc[s].rev = listed[refreshMu][s]
    BY <1>5 DEF Judge, RefreshInv, WorkersHold, ClientSteps, TypeOK
  <2>2. sc[s].rev \in Revs /\ sc[s].epoch \in Nat
    BY <2>1 DEF ClientRecords
  <2>3. PICK e : e = IF fetched[s] # "none" /\ Current(sc[s])
                       THEN Shown(sc[s].rev, sc[s].rev, has[s], sc[s].epoch, fetched[s])
                       ELSE Retained(s, sc[s].rev, sc[s].epoch)
    OBVIOUS
  <2>4. /\ e \in Entries /\ e.shown = sc[s].rev
        /\ e.state # "failed" => e.epoch = sc[s].epoch
    <3>1. CASE fetched[s] # "none" /\ Current(sc[s])
      BY <2>2, <2>3, <3>1 DEF Shown, Entries, States, TypeOK
    <3>2. CASE ~(fetched[s] # "none" /\ Current(sc[s]))
      BY <2>2, <2>3, <3>2, RetainedTypes
    <3> QED
      BY <3>1, <3>2
  <2> QED
    BY <1>3, <1>5, <2>1, <2>3, <2>4 DEF Judge
<1>6. CASE ~ConnectOK(s) /\ ~ConnectFails(s) /\ ~Judge(s)
  <2>1. UNCHANGED <<sc, result>>
    BY <1>6 DEF workVars, WorkOn, InventoryFails, InventoryRead, PruneInactive, RefreshLinks,
       LinksReturn, LinksFinish, LinksArrive
  <2>2. at[s] # "done" /\ (at' = at \/ \E l \in Steps \ {"done"} : at' = [at EXCEPT ![s] = l])
    BY <1>6 DEF Steps, workVars, WorkOn, InventoryFails, InventoryRead, PruneInactive, RefreshLinks,
       LinksReturn, LinksFinish, LinksArrive
  <2> QED
    BY <1>1, <2>1, <2>2 DEF TypeOK
<1> QED
  BY <1>2, <1>4, <1>5, <1>6

LEMMA RefresherKeepsWork ==
  ASSUME WorkInv, MuIsHeld', NEW r \in Refreshers, Start(r) \/ RefreshStep(r)
  PROVE  WorksOnListed' /\ ResultsShowListed'
<1> USE DEF WorkInv, WorksOnListed, ResultsShowListed, Working, MuIsHeld, Locked, At, Nothing
<1>1. CASE Start(r) \/ List(r) \/ Reconcile(r) \/ PruneDeleted(r)
  <2>1. UNCHANGED <<workVars, refreshMu>>
    BY <1>1 DEF Start, List, Reconcile, ReconcileAs, PruneDeleted, PruneDeletedAs, workVars
  <2>2. /\ pc[r] # "work" /\ pc'[r] # "work"
        /\ \A x \in Refreshers \ {r} : pc'[x] = pc[x] /\ listed'[x] = listed[x]
    BY <1>1 DEF Start, List, Reconcile, ReconcileAs, PruneDeleted, PruneDeletedAs, Goto, TypeOK
  <2>3. Working' <=> Working
    BY <2>1, <2>2 DEF TypeOK
  <2>4. Working => listed'[refreshMu] = listed[refreshMu]
    BY <2>1, <2>2 DEF TypeOK
  <2> QED
    BY <2>1, <2>3, <2>4 DEF workVars
<1>3. CASE Lock(r)
  <2>1. ~Working /\ ~Working'
    BY <1>3 DEF Lock, MuAfterFault, Goto, TypeOK
  <2>2. UNCHANGED workVars
    BY <1>3 DEF Lock
  <2> QED
    BY <2>1, <2>2 DEF workVars
<1>4. CASE StartWork(r)
  BY <1>4 DEF StartWork, PruneDeletedAs, ListedBy, Goto, TypeOK
<1>5. CASE Publish(r)
  BY <1>5 DEF Publish, TypeOK
<1> QED
  BY <1>1, <1>3, <1>4, <1>5 DEF RefreshStep

LEMMA WorkStep ==
  ASSUME WorkInv, RefreshInv, RefreshInv', [Next]_vars
  PROVE  WorkInv'
<1>1. TypeOK' /\ OwedAreWrites' /\ MuIsHeld'
  BY TypesStep, PlacesStep
<1>2. ASSUME UNCHANGED <<pc, listed, refreshMu, workVars>>
      PROVE  WorksOnListed' /\ ResultsShowListed'
  BY <1>2 DEF WorkInv, WorksOnListed, ResultsShowListed, Working, workVars
<1>3. ASSUME NEW s \in Servers, HandlerWrites(s) \/ Elsewhere(s)
      PROVE  WorksOnListed' /\ ResultsShowListed'
  BY <1>2, <1>3 DEF HandlerWrites, Elsewhere, refreshVars
<1>4. ASSUME NEW w \in Requests, RequestLinks(w) \/ RequestReturns(w)
      PROVE  WorksOnListed' /\ ResultsShowListed'
  BY <1>2, <1>4 DEF RequestLinks, RequestReturns, refreshVars
<1>5. ASSUME HandlerTriggers \/ UNCHANGED vars \/ \E p \in Changing : PanelChanges(p)
      PROVE  WorksOnListed' /\ ResultsShowListed'
  BY <1>2, <1>5 DEF HandlerTriggers, PanelChanges, vars, refreshVars
<1>6. ASSUME StartTriggered
      PROVE  WorksOnListed' /\ ResultsShowListed'
  <2>1. UNCHANGED <<refreshMu, listed, workVars>>
    BY <1>6 DEF StartTriggered
  <2>2. Working' <=> Working
    BY <1>6 DEF StartTriggered, Goto, Working, WorkInv, TypeOK
  <2> QED
    BY <2>1, <2>2 DEF WorkInv, WorksOnListed, ResultsShowListed, Working, workVars
<1>7. WorksOnListed' /\ ResultsShowListed'
  <2> USE <1>1
  <2>1. ASSUME NEW s \in Servers, WorkOn(s)
        PROVE  WorksOnListed' /\ ResultsShowListed'
    BY <2>1, WorkKeepsWork
  <2>2. ASSUME NEW r \in Refreshers, Start(r) \/ RefreshStep(r)
        PROVE  WorksOnListed' /\ ResultsShowListed'
    BY <2>2, RefresherKeepsWork
  <2> QED
    BY <1>3, <1>4, <1>5, <1>6, <2>1, <2>2 DEF Next, Refreshing
<1> QED
  BY <1>1, <1>7 DEF WorkInv

-----------------------------------------------------------------------------
(* What is shown was stored, and the holder of refreshMu knows every row of *)
(* a server that is shown: an id is never used again.                       *)

ShownCreated ==
  \A s \in Servers :
    /\ row[s] # None \/ snap[s] # None => s \in created
    /\ \A r \in Refreshers : listed[r][s] # None => s \in created

HolderKnows ==
  refreshMu # None =>
    \A s \in Servers : listed[refreshMu][s] = None /\ row[s] # None => snap[s] = None

KnownInv == ShownCreated /\ HolderKnows

\* How a step changes the list of a refresher and the holder of refreshMu.
LEMMA ListsChange ==
  ASSUME WorkInv, NEW r \in Refreshers, Start(r) \/ RefreshStep(r)
  PROVE  /\ \A x \in Refreshers \ {r} : listed'[x] = listed[x]
         /\ \A s \in Servers : listed'[r][s] # None => listed[r][s] # None \/ row[s] # None
         /\ \/ refreshMu' = refreshMu /\ (refreshMu = r => listed' = listed)
            \/ refreshMu' = r /\ listed'[r] = row
            \/ refreshMu' = None
<1> USE DEF WorkInv, TypeOK, MuIsHeld, Locked, Nothing
<1>1. CASE Start(r) \/ Reconcile(r) \/ PruneDeleted(r) \/ StartWork(r)
  BY <1>1 DEF Start, Reconcile, ReconcileAs, PruneDeleted, StartWork, PruneDeletedAs
<1>2. CASE List(r)
  BY <1>2 DEF List
<1>3. CASE Lock(r)
  BY <1>3 DEF Lock, Relisted, MuAfterFault
<1>4. CASE Publish(r)
  BY <1>4 DEF Publish
<1> QED
  BY <1>1, <1>2, <1>3, <1>4 DEF RefreshStep

LEMMA OnlyRefreshersList ==
  ASSUME [Next]_vars, ~ \E r \in Refreshers : Start(r) \/ RefreshStep(r)
  PROVE  UNCHANGED <<listed, refreshMu, snap>>
BY DEF Next, Refreshing, vars, refreshVars, RestOfWork, HandlerWrites, HandlerTriggers, PanelChanges, StartTriggered,
       Elsewhere, RequestLinks, RequestReturns, WorkOn, ConnectOK, ConnectFails, InventoryFails,
       InventoryRead, PruneInactive, RefreshLinks, LinksReturn, LinksFinish, LinksArrive, Judge

\* A server that is published was listed by the publishing refresher.
LEMMA OnlyPublishShows ==
  ASSUME NEW r \in Refreshers, Start(r) \/ RefreshStep(r)
  PROVE  \/ snap' = snap
         \/ /\ Publish(r)
            /\ \A s \in Servers : snap'[s] # None => listed[r][s] # None
BY DEF Start, RefreshStep, List, Reconcile, ReconcileAs, PruneDeleted, StartWork, PruneDeletedAs,
       Lock, Publish, ListedBy

LEMMA KnownStep ==
  ASSUME WorkInv, KnownInv, WorkInv', [Next]_vars
  PROVE  KnownInv'
<1> USE DEF KnownInv, ShownCreated, HolderKnows
<1>1. ASSUME NEW s \in Servers, HandlerWrites(s)
      PROVE  KnownInv'
  <2>1. UNCHANGED <<listed, refreshMu, snap>> /\ created' = created \cup {s}
    BY <1>1 DEF HandlerWrites, Write
  <2>2. PICK v : row' = [row EXCEPT ![s] = v] /\ (row[s] = None => s \notin created)
    BY <1>1 DEF HandlerWrites, Write
  <2>3. \A x \in Servers \ {s} : row'[x] = row[x]
    BY <2>2 DEF WorkInv, TypeOK, ConnTypeOK
  <2>4. ShownCreated'
    BY <2>1, <2>3
  <2>5. HolderKnows'
    BY <2>1, <2>2, <2>3
  <2> QED
    BY <2>4, <2>5
<1>2. ASSUME UNCHANGED storageVars
      PROVE  KnownInv'
  <2>1. CASE ~ \E r \in Refreshers : Start(r) \/ RefreshStep(r)
    BY <1>2, <2>1, OnlyRefreshersList DEF storageVars
  <2>2. ASSUME NEW r \in Refreshers, Start(r) \/ RefreshStep(r)
        PROVE  KnownInv'
    <3>1. ShownCreated'
      BY <1>2, <2>2, ListsChange, OnlyPublishShows DEF storageVars
    <3>2. HolderKnows'
      <4>1. CASE Publish(r)
        BY <4>1 DEF Publish
      <4>2. CASE ~Publish(r)
        BY <1>2, <2>2, <4>2, ListsChange, OnlyPublishShows DEF storageVars, WorkInv, TypeOK
      <4> QED
        BY <4>1, <4>2
    <3> QED
      BY <3>1, <3>2
  <2> QED
    BY <2>1, <2>2
<1> QED
  BY <1>1, <1>2, RowsChangeByWrite

-----------------------------------------------------------------------------
(* Triggers.  Unless a refresh is still to list the servers, because a      *)
(* trigger asks for it or it waits for refreshMu, the last list is that of  *)
(* the refresh at work, or is published.                                    *)

Coming ==
  owed > 0 \/ trigger \/ \E r \in Refreshers : pc[r] \in {"list", "reconcile", "prune", "lock"}

Settling ==
  faults = 0 /\ ~Coming =>
    IF refreshMu = None THEN Converged ELSE \A s \in Servers : listed[refreshMu][s] = row[s]

LEMMA FaultsGrow ==
  ASSUME WorkInv, [Next]_vars, faults' = 0
  PROVE  faults = 0
<1> USE MaxFaultsAssumption DEF WorkInv, TypeOK, Fault, vars, refreshVars, RestOfWork
<1>1. ASSUME NEW s \in Servers, WorkOn(s)
      PROVE  faults = 0
  BY <1>1 DEF WorkOn, ConnectOK, ConnectFails, InventoryFails,
       InventoryRead, PruneInactive, RefreshLinks, LinksReturn, LinksFinish, LinksArrive, Judge
<1>2. ASSUME NEW r \in Refreshers, Start(r) \/ RefreshStep(r)
      PROVE  faults = 0
  <2>1. CASE Start(r) \/ List(r) \/ Lock(r) \/ PruneDeleted(r) \/ StartWork(r)
    BY <2>1 DEF Start, List, PruneDeleted, StartWork, PruneDeletedAs, Lock
  <2>2. CASE Reconcile(r) \/ Publish(r)
    <3>1. UNCHANGED faults \/ Fault(1)
      BY <2>2 DEF Reconcile, ReconcileAs, Publish
    <3> QED
      BY <3>1
  <2> QED
    BY <1>2, <2>1, <2>2 DEF RefreshStep
<1>3. CASE HandlerTriggers \/ StartTriggered \/ (\E p \in Changing : PanelChanges(p)) \/ UNCHANGED vars
  BY <1>3 DEF HandlerTriggers, StartTriggered, PanelChanges
<1>4. ASSUME NEW s \in Servers, HandlerWrites(s) \/ Elsewhere(s)
      PROVE  faults = 0
  BY <1>4 DEF HandlerWrites, Elsewhere
<1>5. ASSUME NEW w \in Requests, RequestLinks(w) \/ RequestReturns(w)
      PROVE  faults = 0
  BY <1>5 DEF RequestLinks, RequestReturns
<1> QED
  BY <1>1, <1>2, <1>3, <1>4, <1>5 DEF Next, Refreshing

\* A publication whose reads of the table succeed, by a refresh that listed what
\* is stored, shows what is stored.
LEMMA PublishConverges ==
  ASSUME WorkInv, NEW r \in Refreshers, Publish(r), faults' = 0,
         \A s \in Servers : listed[r][s] = row[s]
  PROVE  Converged'
<1> USE DEF WorkInv
<1>1. snap' = [s \in Servers |-> IF s \in ListedBy(r) THEN Publishable(r, s, {}) ELSE None]
  <2>1. PICK failing \in SUBSET ListedBy(r) :
          /\ IF failing = {} THEN UNCHANGED faults ELSE Fault(1)
          /\ snap' = [s \in Servers |->
                        IF s \in ListedBy(r) THEN Publishable(r, s, failing) ELSE None]
    BY DEF Publish
  <2>2. failing = {}
    BY <2>1, MaxFaultsAssumption DEF Fault, TypeOK
  <2> QED
    BY <2>1, <2>2
<1>2. row' = row
  BY DEF Publish, Lookup, storageVars
<1>3. refreshMu = r /\ Working
  BY DEF Publish, MuIsHeld, Locked, Working
<1>4. ASSUME NEW s \in Servers, row[s] = None
      PROVE  snap'[s] = None
  BY <1>1, <1>4 DEF ListedBy
<1>5. ASSUME NEW s \in Servers, row[s] # None
      PROVE  snap'[s] # None /\ snap'[s].shown = row[s]
  <2>1. snap'[s] = Publishable(r, s, {}) /\ row[s] \in Revs
    BY <1>1, <1>5 DEF ListedBy, TypeOK, ConnTypeOK
  <2>2. result[s] # None /\ result[s].shown = row[s]
    BY <1>3, <1>5 DEF ResultsShowListed, Publish, At
  <2>3. epochs'[s] \in Nat => Retained(s, row[s], epochs'[s]) \in Entries
                              /\ Retained(s, row[s], epochs'[s]).shown = row[s]
    BY <2>1, RetainedTypes
  <2>4. epochs'[s] \in Nat
    BY DEF Publish, Lookup, Observe, ObserveAs, EpochsAfter, TypeOK, ConnTypeOK
  <2> QED
    BY <2>1, <2>2, <2>3, <2>4, <1>5, EntriesAssumption DEF Publishable
<1> QED
  BY <1>2, <1>4, <1>5 DEF Converged

LEMMA SettleStep ==
  ASSUME WorkInv, WorkInv', Settling, [Next]_vars
  PROVE  Settling'
<1> SUFFICES ASSUME faults' = 0, ~Coming'
             PROVE  IF refreshMu' = None THEN Converged'
                    ELSE \A s \in Servers : listed'[refreshMu'][s] = row'[s]
  BY DEF Settling
<1> USE DEF Coming
<1>1. faults = 0
  BY FaultsGrow
<1>2. CASE UNCHANGED <<owed, trigger, pc, refreshMu, listed, row, snap>>
  BY <1>1, <1>2 DEF Settling, Converged
<1>3. ASSUME NEW s \in Servers, HandlerWrites(s)
      PROVE  FALSE
  BY <1>3 DEF HandlerWrites, WorkInv, TypeOK
<1>4. ASSUME NEW s \in Servers, WorkOn(s)
      PROVE  UNCHANGED <<owed, trigger, pc, refreshMu, listed, row, snap>>
  <2>1. UNCHANGED <<owed, trigger, pc, refreshMu, listed, snap>>
    BY <1>4 DEF RestOfWork, WorkOn, ConnectOK, ConnectFails, InventoryFails, InventoryRead,
       PruneInactive, RefreshLinks, LinksReturn, LinksFinish, LinksArrive, Judge
  <2>2. UNCHANGED row
    BY <1>4 DEF WorkOn, ConnectOK, ConnectFails, InventoryFails, InventoryRead,
       PruneInactive, RefreshLinks, LinksReturn, LinksFinish, LinksArrive, Judge, aggVars,
       storageVars, Lookup, Connect, Lead, Join, FetchLinks, FinishFlight, Leave, Prune
  <2> QED
    BY <2>1, <2>2
<1>5. ASSUME NEW s \in Servers, Elsewhere(s)
      PROVE  UNCHANGED <<owed, trigger, pc, refreshMu, listed, row, snap>>
  BY <1>5 DEF Elsewhere, refreshVars, Lookup, Connect, storageVars
<1>6. ASSUME NEW w \in Requests, RequestLinks(w) \/ RequestReturns(w)
      PROVE  UNCHANGED <<owed, trigger, pc, refreshMu, listed, row, snap>>
  BY <1>6 DEF RequestLinks, RequestReturns, refreshVars, Lead, Join, FetchLinks, FinishFlight, Leave,
     storageVars
<1>7. CASE HandlerTriggers
  BY <1>7 DEF HandlerTriggers
<1>16. ASSUME NEW p \in Changing, PanelChanges(p)
       PROVE  UNCHANGED <<owed, trigger, pc, refreshMu, listed, row, snap>>
  BY <1>16 DEF PanelChanges, aggVars, storageVars
<1>8. CASE StartTriggered
  BY <1>8, RefreshersAssumption DEF StartTriggered, Goto, WorkInv, TypeOK
<1>9. ASSUME NEW r \in Refreshers, Start(r) \/ List(r)
      PROVE  FALSE
  BY <1>1, <1>9, MaxFaultsAssumption DEF Start, List, Fault, Goto, WorkInv, TypeOK
<1>10. ASSUME NEW r \in Refreshers, Reconcile(r)
       PROVE  IF refreshMu' = None THEN Converged'
              ELSE \A s \in Servers : listed'[refreshMu'][s] = row'[s]
  <2>1. pc[r] = "relisted" /\ ~Coming
    BY <1>10 DEF Reconcile, ReconcileAs, Goto, WorkInv, TypeOK
  <2>2. UNCHANGED <<refreshMu, listed, row, snap>>
    BY <1>10 DEF Reconcile, ReconcileAs, Lookup, storageVars
  <2> QED
    BY <1>1, <2>1, <2>2 DEF Settling, Converged
<1>11. ASSUME NEW r \in Refreshers, PruneDeleted(r)
       PROVE  FALSE
  BY <1>11 DEF PruneDeleted, Goto, WorkInv, TypeOK
<1>12. ASSUME NEW r \in Refreshers, Lock(r)
       PROVE  IF refreshMu' = None THEN Converged'
              ELSE \A s \in Servers : listed'[refreshMu'][s] = row'[s]
  <2>1. refreshMu' = r /\ listed' = [listed EXCEPT ![r] = row] /\ row' = row
    BY <1>1, <1>12, MaxFaultsAssumption DEF Lock, Fault, Relisted, aggVars, storageVars
  <2> QED
    BY <2>1, RefreshersAssumption DEF WorkInv, TypeOK
<1>13. ASSUME NEW r \in Refreshers, StartWork(r)
       PROVE  IF refreshMu' = None THEN Converged'
              ELSE \A s \in Servers : listed'[refreshMu'][s] = row'[s]
  <2>1. ~Coming
    BY <1>13 DEF StartWork, PruneDeletedAs, Goto, WorkInv, TypeOK
  <2>2. UNCHANGED <<refreshMu, listed, row, snap>>
    BY <1>13 DEF StartWork, PruneDeletedAs, Prune, storageVars
  <2> QED
    BY <1>1, <2>1, <2>2 DEF Settling, Converged
<1>14. ASSUME NEW r \in Refreshers, Publish(r)
       PROVE  IF refreshMu' = None THEN Converged'
              ELSE \A s \in Servers : listed'[refreshMu'][s] = row'[s]
  <2>1. ~Coming
    BY <1>14 DEF Publish, Goto, WorkInv, TypeOK
  <2>2. refreshMu = r /\ refreshMu # None
    BY <1>14, RefreshersAssumption DEF Publish, WorkInv, MuIsHeld, Locked
  <2>3. \A s \in Servers : listed[r][s] = row[s]
    BY <1>1, <2>1, <2>2 DEF Settling
  <2>4. Converged' /\ refreshMu' = None
    BY <1>14, <2>3, PublishConverges DEF Publish
  <2> QED
    BY <2>4
<1>15. CASE UNCHANGED vars
  BY <1>2, <1>15 DEF vars, refreshVars, aggVars, storageVars
<1> HIDE DEF Coming
<1> QED
  BY <1>2, <1>3, <1>4, <1>5, <1>6, <1>7, <1>8, <1>9, <1>10, <1>11, <1>12, <1>13, <1>14, <1>15, <1>16
  DEF Next, Refreshing, RefreshStep

-----------------------------------------------------------------------------
(* Theorems.                                                                *)

\* The initial states.
LEMMA RefreshStarts == Init => RefreshInv
  BY CacheInit DEF Init, RefreshInv, WorkersHold, EntriesCurrent, EntryCurrent, Nothing, ClientSteps

LEMMA WorkStarts == Init => WorkInv
<1> SUFFICES ASSUME Init PROVE WorkInv
  OBVIOUS
<1>1. ConnTypeOK
  BY CacheInit DEF Init, CacheInv, ConnInv, ConnTypeOK, CallTypes
<1>2. TypeOK
  <2>1. faults \in 0..MaxFaults /\ owed \in 0..MaxWrites
    BY MaxFaultsAssumption, MaxWritesAssumption DEF Init
  <2>6. holders \subseteq Revs /\ moves \in 0..MaxMoves /\ has \in [Servers -> BOOLEAN]
    BY HoldersAssumption, MovesAssumption DEF Init
  <2>5. trigger \in BOOLEAN
    BY DEF Init
  <2>2. /\ pc \in [Refreshers -> PCs] /\ at \in [Servers -> Steps]
        /\ fetched \in [Servers -> {"none", "ok", "degraded"}]
    BY DEF Init, PCs, Steps
  <2>3. /\ listed \in [Refreshers -> [Servers -> Revs \cup {None}]]
        /\ alive \in [Refreshers -> SUBSET Servers]
        /\ refreshMu \in Refreshers \cup {None}
    BY DEF Init, Nothing
  <2>4. /\ sc \in [Servers -> ClientRecords \cup {None}]
        /\ result \in [Servers -> Entries \cup {None}]
        /\ snap \in [Servers -> Entries \cup {None}]
    BY DEF Init, Nothing
  <2> QED
    BY <1>1, <2>1, <2>2, <2>3, <2>4, <2>5, <2>6 DEF TypeOK
<1> QED
  BY <1>2, RefreshersAssumption DEF Init, WorkInv, ConnInit, OwedAreWrites, MuIsHeld, Locked,
     WorksOnListed, ResultsShowListed, Working, Nothing

THEOREM RefreshInvariant == Spec => []RefreshInv
<1>1. RefreshInv /\ [Next]_vars => RefreshInv'
  BY StepIsConn, CacheStep, WorkersStep, EntriesStep DEF RefreshInv
<1> QED
  BY RefreshStarts, <1>1, PTL DEF Spec

\* The refresher uses the connections and the link cache only as Connections
\* allows, so what is proved there holds of it.
THEOREM RefreshImplementsConnections == Spec => ImplementsConnections
<1>1. Init => ConnInit
  BY DEF Init
<1>2. RefreshInv /\ [Next]_vars => [ConnNext]_aggVars
  BY StepIsConn
<1> QED
  BY RefreshInvariant, <1>1, <1>2, PTL DEF Spec, ConnSpec, ImplementsConnections

\* While any number of refreshes and requests run, the cache holds only links
\* of the connections that are open.
THEOREM RefreshKeepsCacheFenced == Spec => []CacheFenced
<1>1. RefreshInv => CacheFenced
  BY DEF RefreshInv, CacheInv
<1> QED
  BY RefreshInvariant, <1>1, PTL

\* A published inventory with the current epoch is that of the current row.
THEOREM InventoriesMatchEpochs == Spec => []InventoryMatchesEpoch
<1>1. RefreshInv => InventoryMatchesEpoch
  BY DEF RefreshInv, EntriesCurrent, EntryCurrent, InventoryMatchesEpoch
<1> QED
  BY RefreshInvariant, <1>1, PTL

\* The goroutines of a refresh work for the holder of refreshMu, on what it listed.
THEOREM WorkInvariant == Spec => []WorkInv
<1>1. WorkInv /\ RefreshInv /\ RefreshInv' /\ [Next]_vars => WorkInv'
  BY WorkStep
<1> QED
  BY RefreshInvariant, WorkStarts, <1>1, PTL DEF Spec

\* A holder of refreshMu knows every stored server that is shown.
THEOREM KnownInvariant == Spec => []KnownInv
<1>1. Init => KnownInv
  BY DEF Init, ConnInit, KnownInv, ShownCreated, HolderKnows, Nothing
<1>2. WorkInv /\ KnownInv /\ WorkInv' /\ [Next]_vars => KnownInv'
  BY KnownStep
<1> QED
  BY WorkInvariant, <1>1, <1>2, PTL DEF Spec

\* Every variable of the refresher keeps its type.
THEOREM RefreshTyping == Spec => []TypeOK
<1>1. WorkInv => TypeOK
  BY DEF WorkInv
<1> QED
  BY WorkInvariant, <1>1, PTL

\* What is published as fetched comes from the connection that is open at the
\* moment of publication, to the row the entry shows (refresh, after the last
\* look at the rows).
THEOREM PublishesCurrent == Spec => PublishedIsCurrent
<1>1. WorkInv /\ RefreshInv /\ WorkInv' /\ [Next]_vars =>
        [\A s \in Servers :
           LET e == snap'[s] IN
           snap' # snap /\ e # None /\ e.state # "failed"
             => clients'[s] = Client(s, e.shown, e.epoch)]_vars
  <2> SUFFICES ASSUME WorkInv, RefreshInv, WorkInv', [Next]_vars, NEW s \in Servers, snap' # snap,
                      snap'[s] # None, snap'[s].state # "failed"
               PROVE  clients'[s] = Client(s, snap'[s].shown, snap'[s].epoch)
    OBVIOUS
  <2> USE DEF WorkInv
  <2>1. PICK r \in Refreshers : Publish(r) /\ s \in ListedBy(r)
    BY OnlyRefreshersList, OnlyPublishShows DEF ListedBy
  <2>2. PICK failing : snap'[s] = Publishable(r, s, failing)
    BY <2>1 DEF Publish
  <2>3. /\ listed[r][s] \in Revs /\ row[s] \in Revs \cup {None} /\ epochs[s] \in Nat
        /\ epochs'[s] \in Nat
    BY <2>1 DEF ListedBy, TypeOK, ConnTypeOK
  <2>4. /\ Retained(s, listed[r][s], epochs[s]).state = "failed"
        /\ row[s] # None => Retained(s, row[s], epochs'[s]).state = "failed"
    BY <2>3, RetainedTypes
  <2>5. snap'[s] = result[s] /\ StillOpen(s)
    BY <2>2, <2>4 DEF Publishable
  <2>6. /\ sc[s] # None /\ result[s].epoch = sc[s].epoch
        /\ result[s].shown = sc[s].rev
    BY <2>5 DEF ResultsShowListed, WorksOnListed
  <2>7. sc[s] = Client(s, sc[s].rev, sc[s].epoch)
    BY <2>6 DEF RefreshInv, WorkersHold, StillHeld, ClientRecords
  <2> QED
    BY <2>5, <2>6, <2>7 DEF StillOpen
<1> QED
  BY WorkInvariant, RefreshInvariant, <1>1, PTL DEF Spec, PublishedIsCurrent

\* A published server disappears only once its row is gone.
THEOREM ServersStay == Spec => ServersStayPublished
<1>1. WorkInv /\ KnownInv /\ [Next]_vars =>
        [\A s \in Servers : snap[s] # None /\ snap'[s] = None => row[s] = None]_vars
  <2> SUFFICES ASSUME WorkInv, KnownInv, [Next]_vars, NEW s \in Servers,
                      snap[s] # None, snap'[s] = None
               PROVE  row[s] = None
    OBVIOUS
  <2> USE DEF WorkInv
  <2>1. PICK r \in Refreshers : Publish(r)
    BY OnlyRefreshersList, OnlyPublishShows
  <2>2. refreshMu = r /\ refreshMu # None /\ Working
    BY <2>1, RefreshersAssumption DEF Publish, MuIsHeld, Locked, Working
  <2>3. CASE s \notin ListedBy(r)
    BY <2>2, <2>3 DEF ListedBy, KnownInv, HolderKnows
  <2>4. CASE s \in ListedBy(r)
    <3>1. PICK failing : snap'[s] = Publishable(r, s, failing)
      BY <2>1, <2>4 DEF Publish
    <3>2. result[s] # None
      BY <2>1, <2>2, <2>4 DEF ResultsShowListed, Publish, At, ListedBy
    <3>3. /\ listed[r][s] \in Revs /\ row[s] \in Revs \cup {None} /\ epochs[s] \in Nat
      BY <2>4 DEF ListedBy, TypeOK, ConnTypeOK
    <3>4. epochs'[s] \in Nat
      BY <2>1, <3>3 DEF Publish, Lookup, Observe, ObserveAs, EpochsAfter, TypeOK, ConnTypeOK
    <3>5. /\ Retained(s, listed[r][s], epochs[s]) # None
          /\ row[s] # None => Retained(s, row[s], epochs'[s]) # None
      BY <3>3, <3>4, RetainedTypes, EntriesAssumption
    <3> QED
      BY <3>1, <3>2, <3>5 DEF Publishable
  <2> QED
    BY <2>3, <2>4
<1> QED
  BY WorkInvariant, KnownInvariant, <1>1, PTL DEF Spec, ServersStayPublished

\* The trigger of a handler is enough: while no read of the table has failed, the
\* snapshot shows what is stored whenever no refresh is running or asked for
\* (Trigger, Run).
THEOREM TriggersAreEnough == Spec => []TriggersSettle
<1>1. Init => Settling
  BY RefreshersAssumption DEF Init, Settling, Coming
<1>2. WorkInv /\ WorkInv' /\ Settling /\ [Next]_vars => Settling'
  BY SettleStep
<1>3. WorkInv /\ Settling => TriggersSettle
  <2> SUFFICES ASSUME WorkInv, Settling, Quiet, faults = 0
               PROVE  Converged
    BY DEF TriggersSettle
  <2>1. ~Coming
    BY DEF Coming, Quiet, WorkInv, TypeOK
  <2>2. refreshMu = None
    BY DEF Quiet, WorkInv, MuIsHeld, Locked, TypeOK
  <2> QED
    BY <2>1, <2>2 DEF Settling
<1> QED
  BY WorkInvariant, <1>1, <1>2, <1>3, PTL DEF Spec

=============================================================================
