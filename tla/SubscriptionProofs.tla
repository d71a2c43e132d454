-------------------------- MODULE SubscriptionProofs --------------------------
(***************************************************************************)
(* Proofs about Subscription for any servers, revisions, refreshers and    *)
(* requests: what a request answers is about the rows it listed, whatever  *)
(* connection, cache entry, inventory or flight the answer came from.      *)
(***************************************************************************)
EXTENDS Subscription, RefreshProofs

USE RevsAssumption, RecordsAssumption, RefreshersAssumption, WorkersAssumption
USE DEF ConnTypes, ClientMatchesRow, UnseenHasNoClient, Client, Current

-----------------------------------------------------------------------------
(* Requests.  A request visits servers that it listed, over connections     *)
(* somebody still holds, to the row it listed.                              *)

LEMMA LeastVisited ==
  ASSUME SubTypeOK, NEW q \in Resolvers, todo[q] # {}
  PROVE  Server(q) \in todo[q] /\ Server(q) \in Servers
<1>1. todo[q] \in SUBSET Nat /\ todo[q] \subseteq Servers
  BY ServerIdsAssumption DEF SubTypeOK
<1>2. \E m \in todo[q] : \A n \in todo[q] : m <= n
  BY <1>1, LeastNatural
<1> QED
  BY <1>1, <1>2 DEF Server, Min

Visiting(q) == qpc[q] \notin {"list", "load", "visit", "answered"}

AskingPlaces == {"discover", "dfetch", "dwait", "join", "fetch", "wait"}

\* The servers and the connection of request q.
VisitHolds(q) ==
  /\ Visiting(q) => todo[q] # {}
  /\ \A s \in todo[q] : qlist[q][s] \in Revs
  /\ qpc[q] \in AskingPlaces => qclient[q] # None
  /\ qclient[q] # None =>
       /\ Visiting(q)
       /\ StillHeld(Server(q), qclient[q])
       /\ qclient[q].rev = qlist[q][Server(q)]

VisitsHold == \A q \in Resolvers : VisitHolds(q)

USE DEF VisitHolds

\* The kinds of steps a request takes: it ends the visit, or goes on asking.
Ends(q, v, fails) ==
  /\ todo[q] # {}
  /\ Visited(q, v, fails)
  /\ UNCHANGED Fixed

Asks(q) ==
  /\ qpc[q] \in AskingPlaces
  /\ \E l \in AskingPlaces : To(q, l)
  /\ UNCHANGED <<Fixed, todo, links, failed, visitVars>>

Proceeds(q) ==
  \/ ListServers(q) \/ LoadSnapshot(q) \/ AnswerRequest(q)
  \/ LookupOK(q) \/ ReadEpoch(q) \/ GetMisses(q) \/ SubConnectOK(q)
  \/ Decide(q) /\ GoesOn(q, "get")
  \/ Asks(q)

\* Why a visit ends without links and without a failure.
Denied(q) ==
  \/ Is(q, "cached") /\ Absent(q)
  \/ Is(q, "dfetch") /\ found[q] = "absent"
  \/ Is(q, "dwait") /\ found[q] = "absent"

\* What links a visit may end with.
Given(q) ==
  (IF qpc[q] \in {"get", "join"} THEN CachedLinks(q) ELSE {})
    \cup {calls[w].answer : w \in {x \in {q} : Is(q, "fetch") /\ calls[x] # None /\ calls[x].answer # Pending}}
    \cup {a.val : a \in {x \in landed : Is(q, "wait") /\ x.who = q}}

LEMMA ResolveKinds ==
  ASSUME SubTypeOK, VisitsHold, NEW q \in Resolvers, Resolve(q) \/ HangsUp(q)
  PROVE  \/ Proceeds(q)
         \/ \E fails \in BOOLEAN : Ends(q, None, fails) /\ (fails \/ Denied(q))
         \/ \E v \in Given(q), fails \in BOOLEAN :
              /\ \E x \in Listing(q, v) : Ends(q, x, fails)
              /\ v = None => fails \/ qpc[q] \in {"get", "join"}
<1> USE DEF Ends, Fixed, VisitsHold, Visiting, Is
<1>1. CASE ListServers(q) \/ LoadSnapshot(q) \/ AnswerRequest(q) \/ LookupOK(q) \/ ReadEpoch(q)
           \/ GetMisses(q) \/ SubConnectOK(q)
  BY <1>1 DEF Proceeds
<1>2. CASE LookupFails(q) \/ SubConnectFails(q) \/ DiscoverStale(q)
  BY <1>2 DEF LookupFails, SubConnectFails, DiscoverStale
<1>3. CASE Decide(q)
  BY <1>3 DEF Decide, Proceeds, Denied
<1>4. CASE GetHits(q)
  <2>1. PICK v \in CachedLinks(q) : \E x \in Listing(q, v) : Visited(q, x, Doubtful(q))
    BY <1>4 DEF GetHits
  <2>2. Doubtful(q) \in BOOLEAN
    BY DEF Doubtful, Completed, SnapshotOK
  <2> QED
    BY <1>4, <2>1, <2>2 DEF GetHits, Given
<1>5. CASE Discover(q)
  BY <1>5 DEF Discover, Proceeds, Asks, GoesOn, To, AskingPlaces, visitVars
<1>6. CASE DiscoveryReturns(q)
  <2>1. qpc' = [qpc EXCEPT ![q] = "dfetch"]
    BY <1>6 DEF DiscoveryReturns, SubTypeOK
  <2> QED
    BY <1>6, <2>1 DEF DiscoveryReturns, Proceeds, Asks, To, AskingPlaces, visitVars
<1>7. ASSUME NEW v, Continue(q, v), qpc[q] \in {"dfetch", "dwait"}, UNCHANGED Fixed,
             v = "failed" \/ v = found[q], v # "none"
      PROVE  \/ Proceeds(q)
             \/ \E fails \in BOOLEAN : Ends(q, None, fails) /\ (fails \/ Denied(q))
  <2>1. CASE v = "present"
    BY <1>7, <2>1 DEF Continue, Proceeds, Asks, GoesOn, AskingPlaces, visitVars
  <2>2. CASE v # "present"
    <3>1. Ends(q, None, v = "failed")
      BY <1>7, <2>2 DEF Continue
    <3>2. v = "failed" \/ Denied(q)
      BY <1>7, <2>2 DEF Denied, SubTypeOK
    <3> QED
      BY <3>1, <3>2
  <2> QED
    BY <2>1, <2>2
<1>8. CASE DiscoveryEnds(q)
  BY <1>7, <1>8 DEF DiscoveryEnds
<1>9. CASE DiscoveryArrives(q)
  BY <1>7, <1>9 DEF DiscoveryArrives
<1>10. CASE HangsUp(q)
  BY <1>7, <1>10 DEF HangsUp
<1>11. CASE FetchHits(q)
  BY <1>11 DEF FetchHits, Given
<1>12. CASE FetchOrJoin(q)
  BY <1>12 DEF FetchOrJoin, Proceeds, Asks, GoesOn, AskingPlaces, visitVars
<1>13. CASE PanelAnswers(q)
  <2>1. qpc' = [qpc EXCEPT ![q] = "fetch"]
    BY <1>13 DEF PanelAnswers, subVars, SubTypeOK
  <2> QED
    BY <1>13, <2>1 DEF PanelAnswers, Proceeds, Asks, To, AskingPlaces, visitVars, subVars
<1>14. CASE FetchEnds(q)
  <2>1. calls[q].answer \in Given(q)
    BY <1>14 DEF FetchEnds, FinishFlight, Given
  <2> QED
    BY <1>14, <2>1 DEF FetchEnds
<1>15. CASE FetchArrives(q)
  <2>1. PICK v \in {None} \cup {a.val : a \in {x \in landed : x.who = q}} :
          \E x \in Listing(q, v) : Visited(q, x, v = None)
    BY <1>15 DEF FetchArrives
  <2>2. v = None \/ v \in Given(q)
    BY <1>15, <2>1 DEF FetchArrives, Given
  <2>3. CASE v = None
    <3>1. \A x \in Listing(q, v) : x = None
      BY <2>3 DEF Listing
    <3> QED
      BY <1>15, <2>1, <2>3, <3>1 DEF FetchArrives
  <2>4. CASE v # None
    BY <1>15, <2>1, <2>2, <2>4 DEF FetchArrives
  <2> QED
    BY <2>3, <2>4
<1> QED
  BY <1>1, <1>2, <1>3, <1>4, <1>5, <1>6, <1>8, <1>9, <1>10, <1>11, <1>12, <1>13, <1>14, <1>15
  DEF Resolve

\* A request uses the connections and the link cache as Connections allows.
LEMMA ResolveIsConn ==
  ASSUME RefreshInv, SubTypeOK, VisitsHold, NEW q \in Resolvers, Resolve(q) \/ HangsUp(q)
  PROVE  ConnNext \/ UNCHANGED aggVars
<1> USE ResolversAssumption DEF Requests
<1>1. Visiting(q) \/ todo[q] # {} => {Server(q)} \in SUBSET Servers /\ Server(q) \in Servers
  BY LeastVisited DEF VisitsHold
<1>2. CASE LookupOK(q) \/ LookupFails(q)
  BY <1>1, <1>2 DEF LookupOK, LookupFails, ConnNext
<1>3. CASE SubConnectOK(q) \/ SubConnectFails(q)
  BY <1>1, <1>3 DEF SubConnectOK, SubConnectFails, ConnNext, Is, Visiting
<1>4. CASE FetchOrJoin(q)
  <2>1. Server(q) \in Servers /\ StillHeld(Server(q), qclient[q])
    BY <1>1, <1>4 DEF FetchOrJoin, Is, VisitsHold, Visiting, AskingPlaces
  <2>2. CallerStep(q)
    BY <1>4, <2>1, HeldCall DEF FetchOrJoin
  <2> QED
    BY <2>2 DEF ConnNext
<1>5. CASE PanelAnswers(q) \/ FetchEnds(q) \/ FetchArrives(q)
  BY <1>5 DEF PanelAnswers, FetchEnds, FetchArrives, ConnNext, CallerStep
<1>6. CASE \/ LoadSnapshot(q) \/ ReadEpoch(q) \/ Decide(q) \/ GetHits(q) \/ GetMisses(q)
           \/ Discover(q) \/ DiscoverStale(q) \/ DiscoveryReturns(q) \/ DiscoveryEnds(q)
           \/ DiscoveryArrives(q) \/ HangsUp(q) \/ FetchHits(q) \/ AnswerRequest(q)
  BY <1>6 DEF LoadSnapshot, ReadEpoch, Decide, GetHits, GetMisses, Discover, DiscoverStale,
     DiscoveryReturns, DiscoveryEnds, DiscoveryArrives, HangsUp, FetchHits, AnswerRequest, vars
<1>7. CASE ListServers(q)
  BY <1>7 DEF ListServers
<1> QED
  BY <1>2, <1>3, <1>4, <1>5, <1>6, <1>7 DEF Resolve

\* The variables of the refresher that a request leaves alone.
LEMMA ResolveKeepsRefresh ==
  ASSUME NEW q \in Resolvers, Resolve(q) \/ HangsUp(q)
  PROVE  UNCHANGED <<storageVars, panelVars, owed, trigger, pc, listed, alive, refreshMu, workVars, snap>>
<1> USE DEF refreshVars, vars, aggVars
<1>1. CASE LookupOK(q) \/ LookupFails(q) \/ SubConnectOK(q) \/ SubConnectFails(q)
  BY <1>1 DEF LookupOK, LookupFails, SubConnectOK, SubConnectFails, Lookup, Connect
<1>2. CASE FetchOrJoin(q) \/ PanelAnswers(q) \/ FetchEnds(q) \/ FetchArrives(q)
  BY <1>2 DEF FetchOrJoin, PanelAnswers, FetchEnds, FetchArrives, Lead, Join, FetchLinks,
     FinishFlight, Leave
<1>3. CASE \/ LoadSnapshot(q) \/ ReadEpoch(q) \/ Decide(q) \/ GetHits(q) \/ GetMisses(q)
           \/ Discover(q) \/ DiscoverStale(q) \/ DiscoveryReturns(q) \/ DiscoveryEnds(q)
           \/ DiscoveryArrives(q) \/ HangsUp(q) \/ FetchHits(q) \/ AnswerRequest(q)
  BY <1>3 DEF LoadSnapshot, ReadEpoch, Decide, GetHits, GetMisses, Discover, DiscoverStale,
     DiscoveryReturns, DiscoveryEnds, DiscoveryArrives, HangsUp, FetchHits, AnswerRequest
<1>4. CASE ListServers(q)
  BY <1>4 DEF ListServers
<1> QED
  BY <1>1, <1>2, <1>3, <1>4 DEF Resolve

LEMMA SubStepIsConn ==
  ASSUME RefreshInv, SubTypeOK, VisitsHold, [SubNext]_allVars
  PROVE  [ConnNext]_aggVars
<1>1. CASE UNCHANGED allVars
  BY <1>1 DEF allVars, vars
<1>2. CASE Refreshing
  BY <1>2, StepIsConn DEF Next
<1>3. ASSUME NEW q \in Resolvers, Resolve(q) \/ HangsUp(q)
      PROVE  [ConnNext]_aggVars
  BY <1>3, ResolveIsConn
<1> QED
  BY <1>1, <1>2, <1>3 DEF SubNext

LEMMA SubKeepsRefreshInv ==
  ASSUME RefreshInv, SubTypeOK, VisitsHold, [SubNext]_allVars
  PROVE  RefreshInv'
<1>1. [ConnNext]_aggVars
  BY SubStepIsConn
<1>2. CacheInv'
  BY <1>1, CacheStep DEF RefreshInv
<1>3. CASE Refreshing \/ UNCHANGED allVars
  <2>1. [Next]_vars
    BY <1>3 DEF Next, allVars
  <2> QED
    BY <1>2, <2>1, WorkersStep, EntriesStep DEF RefreshInv
<1>4. ASSUME NEW q \in Resolvers, Resolve(q) \/ HangsUp(q)
      PROVE  RefreshInv'
  <2>1. UNCHANGED <<at, sc, result, snap>>
    BY <1>4, ResolveKeepsRefresh DEF workVars
  <2>2. WorkersHold'
    BY <1>1, <2>1, HeldStays DEF RefreshInv, WorkersHold, StillHeld
  <2>3. EntriesCurrent'
    BY <1>1, <2>1, EntryStays DEF RefreshInv, EntriesCurrent, EntryCurrent
  <2> QED
    BY <1>2, <2>2, <2>3 DEF RefreshInv
<1> QED
  BY <1>3, <1>4 DEF SubNext

\* A request changes its own variables only.
LEMMA OthersKeep ==
  ASSUME SubTypeOK, VisitsHold, NEW q \in Resolvers, Resolve(q) \/ HangsUp(q), NEW x \in Resolvers \ {q}
  PROVE  /\ qpc'[x] = qpc[x] /\ qlist'[x] = qlist[x] /\ qsnap'[x] = qsnap[x] /\ todo'[x] = todo[x]
         /\ qepoch'[x] = qepoch[x] /\ qclient'[x] = qclient[x] /\ links'[x] = links[x]
         /\ failed'[x] = failed[x] /\ outcome'[x] = outcome[x]
<1> USE DEF SubTypeOK, Fixed, visitVars, To, GoesOn
<1>1. CASE Proceeds(q)
  BY <1>1 DEF Proceeds, ListServers, LoadSnapshot, AnswerRequest, LookupOK, ReadEpoch, GetMisses,
     SubConnectOK, Decide, Asks, Visited
<1>2. ASSUME NEW v, NEW fails, Ends(q, v, fails)
      PROVE  /\ qpc'[x] = qpc[x] /\ qlist'[x] = qlist[x] /\ qsnap'[x] = qsnap[x] /\ todo'[x] = todo[x]
             /\ qepoch'[x] = qepoch[x] /\ qclient'[x] = qclient[x] /\ links'[x] = links[x]
             /\ failed'[x] = failed[x] /\ outcome'[x] = outcome[x]
  BY <1>2 DEF Ends, Visited
<1> QED
  BY <1>1, <1>2, ResolveKinds

\* A visit that goes on to the same server keeps what it has.
LEMMA VisitStays ==
  ASSUME RefreshInv, SubTypeOK, VisitsHold, [ConnNext]_aggVars, NEW x \in Resolvers,
         todo'[x] = todo[x], qlist'[x] = qlist[x], qclient'[x] = qclient[x],
         Visiting(x)' => todo[x] # {}, qclient[x] # None => Visiting(x)',
         qpc'[x] \in AskingPlaces => qclient[x] # None
  PROVE  VisitHolds(x)'
<1>1. ASSUME qclient[x] # None
      PROVE  StillHeld(Server(x), qclient[x])'
  <2>1. StillHeld(Server(x), qclient[x]) /\ Server(x) \in Servers
    BY <1>1, LeastVisited DEF VisitsHold
  <2>2. Server(x)' = Server(x)
    BY DEF Server
  <2> HIDE DEF Server
  <2> QED
    BY <2>1, <2>2, AllHeldStay DEF StillHeld, RefreshInv
<1>2. Server(x)' = Server(x)
  BY DEF Server
<1> QED
  BY <1>1, <1>2 DEF VisitHolds, VisitsHold

\* The step of request q on its own visit.
LEMMA VisitProceeds ==
  ASSUME RefreshInv, SubTypeOK, VisitsHold, [ConnNext]_aggVars, NEW q \in Resolvers, Proceeds(q)
  PROVE  VisitHolds(q)'
<1> USE DEF Is, To, GoesOn, Visiting, AskingPlaces, Fixed, visitVars
<1>1. CASE ListServers(q)
  <2>1. qclient'[q] = None /\ ~Visiting(q)'
    BY <1>1 DEF ListServers, VisitsHold, SubTypeOK
  <2>2. \A s \in todo'[q] : qlist'[q][s] \in Revs
    BY <1>1 DEF ListServers, VisitsHold, SubTypeOK, RefreshInv, CacheInv, ConnInv
  <2>3. qpc'[q] \notin AskingPlaces
    BY <1>1 DEF ListServers, SubTypeOK
  <2> QED
    BY <2>1, <2>2, <2>3 DEF VisitHolds
<1>2. CASE LoadSnapshot(q) \/ AnswerRequest(q) \/ LookupOK(q)
  <2>1. qclient[q] = None
    BY <1>2 DEF LoadSnapshot, AnswerRequest, LookupOK, VisitsHold
  <2>2. UNCHANGED <<todo, qlist, qclient>> /\ (Visiting(q)' => todo[q] # {}) /\ qpc'[q] \notin AskingPlaces
    BY <1>2 DEF LoadSnapshot, AnswerRequest, LookupOK, SubTypeOK
  <2> QED
    BY <2>1, <2>2, VisitStays
<1>3. CASE ReadEpoch(q) \/ GetMisses(q)
  <2>1. UNCHANGED <<todo, qlist, qclient>> /\ Visiting(q) /\ Visiting(q)' /\ qpc'[q] \notin AskingPlaces
    BY <1>3 DEF ReadEpoch, GetMisses, SubTypeOK
  <2> QED
    BY <2>1, VisitStays DEF VisitsHold
<1>4. CASE Asks(q)
  <2>1. UNCHANGED <<todo, qlist, qclient>> /\ Visiting(q) /\ Visiting(q)'
    BY <1>4 DEF Asks, SubTypeOK
  <2>2. qclient[q] # None
    BY <1>4 DEF Asks, VisitsHold
  <2> QED
    BY <2>1, <2>2, VisitStays DEF VisitsHold
<1>5. CASE SubConnectOK(q)
  <2> DEFINE s == Server(q)
  <2>1. todo[q] # {} /\ s \in Servers /\ UNCHANGED <<todo, qlist>> /\ s' = s
    BY <1>5, LeastVisited DEF SubConnectOK, VisitsHold, Server
  <2>2. Visiting(q)' /\ qclient'[q] = Connected(s)
    BY <1>5 DEF SubConnectOK, SubTypeOK
  <2>3. Connect(s) /\ row[s] = qlist[q][s]
    BY <1>5 DEF SubConnectOK
  <2>4. Connected(s).rev = row[s]
    BY DEF Connected, Reusable, NewClient
  <2>5. StillHeld(s, qclient[q])'
    <3> HIDE DEF s
    <3>1. \A x \in Servers : Connect(x) =>
            \A c : c = Connected(x) => /\ c \in ClientRecords
                                       /\ c.server = x
                                       /\ c.epoch <= epochs'[x]
                                       /\ c.epoch = epochs'[x] => clients'[x] = c
      <4> SUFFICES ASSUME NEW x \in Servers, Connect(x), NEW c, c = Connected(x)
                   PROVE  StillHeld(x, c)'
        BY DEF StillHeld
      <4> QED
        BY ConnectGives DEF RefreshInv
    <3> QED
      BY <2>1, <2>2, <2>3, <3>1 DEF StillHeld
  <2> HIDE DEF s
  <2>6. \A x \in todo[q] : qlist[q][x] \in Revs
    BY DEF VisitsHold
  <2>7. qclient'[q] # None
    BY <2>5 DEF StillHeld
  <2> QED
    BY <2>1, <2>2, <2>3, <2>4, <2>5, <2>6, <2>7 DEF VisitHolds, s
<1>6. CASE Decide(q) /\ GoesOn(q, "get")
  <2> DEFINE s == Server(q)
  <2>1. todo[q] # {} /\ s \in Servers /\ UNCHANGED <<todo, qlist>> /\ s' = s
    BY <1>6, LeastVisited DEF Decide, VisitsHold, Server
  <2>2. Visiting(q)' /\ qpc'[q] \notin AskingPlaces
    BY <1>6 DEF Decide, SubTypeOK
  <2>3. qclient'[q] = None \/ (qclient'[q] = clients[s] /\ clients[s] # None /\ clients[s].rev = qlist[q][s])
    BY <1>6 DEF Decide, SubTypeOK, CachedClient, Visited
  <2>4. ASSUME qclient'[q] # None
        PROVE  StillHeld(s, qclient[q])'
    <3> HIDE DEF s
    <3>1. StillHeld(s, clients[s])
      <4>1. \A x \in Servers : clients[x] # None => StillHeld(x, clients[x])
        BY OpenHeld DEF RefreshInv
      <4> QED
        BY <2>1, <2>3, <2>4, <4>1
    <3> QED
      BY <2>1, <2>3, <2>4, <3>1, AllHeldStay DEF StillHeld, RefreshInv
  <2> HIDE DEF s
  <2>5. \A x \in todo[q] : qlist[q][x] \in Revs
    BY DEF VisitsHold
  <2> QED
    BY <2>1, <2>2, <2>3, <2>4, <2>5 DEF VisitHolds, s
<1> QED
  BY <1>1, <1>2, <1>3, <1>4, <1>5, <1>6 DEF Proceeds

LEMMA VisitEnds ==
  ASSUME SubTypeOK, VisitsHold, NEW q \in Resolvers, NEW v, NEW fails, Ends(q, v, fails)
  PROVE  VisitHolds(q)'
BY DEF Ends, Visited, Fixed, To, SubTypeOK, VisitsHold, VisitHolds, Visiting, AskingPlaces

LEMMA VisitsStep ==
  ASSUME RefreshInv, SubTypeOK, VisitsHold, [SubNext]_allVars
  PROVE  VisitsHold'
<1>1. [ConnNext]_aggVars
  BY SubStepIsConn
<1>2. VisitsHold' <=> \A x \in Resolvers : VisitHolds(x)'
  BY DEF VisitsHold, VisitHolds
<1>3. CASE UNCHANGED subVars
  <2> SUFFICES ASSUME NEW x \in Resolvers
               PROVE  VisitHolds(x)'
    BY <1>2
  <2>1. /\ todo'[x] = todo[x] /\ qlist'[x] = qlist[x] /\ qclient'[x] = qclient[x]
        /\ qpc'[x] = qpc[x]
    BY <1>3 DEF subVars, visitVars
  <2>2. Visiting(x)' <=> Visiting(x)
    BY <2>1 DEF Visiting
  <2> QED
    BY <1>1, <2>1, <2>2, VisitStays DEF VisitsHold
<1>4. ASSUME NEW q \in Resolvers, Resolve(q) \/ HangsUp(q), NEW x \in Resolvers \ {q}
      PROVE  VisitHolds(x)'
  <2>1. /\ todo'[x] = todo[x] /\ qlist'[x] = qlist[x] /\ qclient'[x] = qclient[x]
        /\ qpc'[x] = qpc[x]
    BY <1>4, OthersKeep
  <2>2. Visiting(x)' <=> Visiting(x)
    BY <2>1 DEF Visiting
  <2> QED
    BY <1>1, <2>1, <2>2, VisitStays DEF VisitsHold
<1>5. ASSUME NEW q \in Resolvers, Resolve(q) \/ HangsUp(q)
      PROVE  VisitHolds(q)'
  BY <1>1, <1>5, ResolveKinds, VisitProceeds, VisitEnds
<1>6. ASSUME NEW q \in Resolvers, Resolve(q) \/ HangsUp(q)
      PROVE  VisitsHold'
  BY <1>2, <1>4, <1>5, <1>6
<1>7. UNCHANGED subVars \/ \E q \in Resolvers : Resolve(q) \/ HangsUp(q)
  BY DEF SubNext, allVars
<1> QED
  BY <1>3, <1>6, <1>7

-----------------------------------------------------------------------------
(* One connection per server and epoch is ever held, so whoever shares a    *)
(* flight shares the connection.                                            *)

\* The connections of the goroutines, of the requests and of their calls.
HeldNow ==
  ({sc[s] : s \in Servers} \cup {qclient[q] : q \in Resolvers}
     \cup {c.client : c \in {calls[w] : w \in Callers} \ {None}}) \ {None}

OneConnection ==
  \A c, d \in HeldNow : c.server = d.server /\ c.epoch = d.epoch => c = d

HeldSoundly == \A c \in HeldNow : c.server \in Servers /\ StillHeld(c.server, c)

LEMMA HeldAreHeld == RefreshInv /\ SubTypeOK /\ VisitsHold => HeldSoundly
<1> SUFFICES ASSUME RefreshInv, SubTypeOK, VisitsHold, NEW c \in HeldNow
             PROVE  c.server \in Servers /\ StillHeld(c.server, c)
  BY DEF HeldSoundly
<1>1. CASE \E s \in Servers : c = sc[s]
  BY <1>1 DEF HeldNow, RefreshInv, WorkersHold, StillHeld
<1>2. CASE \E q \in Resolvers : c = qclient[q]
  <2>1. PICK q \in Resolvers : c = qclient[q]
    BY <1>2
  <2>2. Server(q) \in Servers /\ StillHeld(Server(q), c)
    BY <2>1, LeastVisited DEF HeldNow, VisitsHold
  <2> QED
    BY <2>2 DEF StillHeld
<1>3. CASE \E w \in Callers : calls[w] # None /\ c = calls[w].client
  <2>1. PICK w \in Callers : calls[w] # None /\ c = calls[w].client
    BY <1>3
  <2>2. c \in ClientRecords
    BY <2>1 DEF RefreshInv, CacheInv, CallTypes, CallRecords
  <2>3. c.epoch <= epochs[c.server] /\ (c.epoch = epochs[c.server] => clients[c.server] = c)
    BY <2>1 DEF RefreshInv, CacheInv, CallsHeld
  <2> QED
    BY <2>2, <2>3 DEF StillHeld, ClientRecords
<1> QED
  BY <1>1, <1>2, <1>3 DEF HeldNow

LEMMA HeldAreHeldNext == (RefreshInv /\ SubTypeOK /\ VisitsHold => HeldSoundly)'
BY HeldAreHeld, PTL

\* A connection is one that was held, or the one that is open now.
Known(c) == c \in HeldNow \/ \E s \in Servers : c = clients'[s]

LEMMA ConnectedIsOpen ==
  ASSUME RefreshInv, NEW s \in Servers, Connect(s)
  PROVE  Connected(s) = clients'[s]
BY DEF Connect, Connected, RefreshInv, CacheInv, ConnInv, connVars

LEMMA CallsKnown ==
  ASSUME RefreshInv, NEW w \in Callers,
         \/ \E c \in HeldNow : Lead(w, c) \/ Join(w, c)
         \/ FetchLinks(w) \/ FinishFlight(w) \/ Leave(w)
  PROVE  \A x \in Callers : calls'[x] # None => Known(calls'[x].client)
<1>1. \A x \in Callers : calls[x] # None => calls[x].client \in HeldNow
  BY DEF HeldNow, RefreshInv, CacheInv, CallTypes, CallRecords
<1>2. ASSUME NEW c \in HeldNow, Lead(w, c)
      PROVE  \A x \in Callers : calls'[x] # None => Known(calls'[x].client)
  BY <1>1, <1>2 DEF Lead, Call, Known, RefreshInv, CacheInv, CallTypes
<1>3. CASE FetchLinks(w)
  <2>1. \A x \in Callers : calls'[x] # None => calls[x] # None /\ calls'[x].client = calls[x].client
    BY <1>3 DEF FetchLinks, RefreshInv, CacheInv, CallTypes, CallRecords
  <2> QED
    BY <1>1, <2>1 DEF Known
<1>4. CASE FinishFlight(w)
  BY <1>1, <1>4 DEF FinishFlight, Known, RefreshInv, CacheInv, CallTypes
<1>5. CASE UNCHANGED calls
  BY <1>1, <1>5 DEF Known
<1> QED
  BY <1>2, <1>3, <1>4, <1>5 DEF Join, Leave

LEMMA WorkerKnown ==
  ASSUME RefreshInv, NEW s \in Servers, WorkOn(s)
  PROVE  /\ \A x \in Servers : sc'[x] # None => Known(sc'[x])
         /\ \A x \in Callers : calls'[x] # None => Known(calls'[x].client)
<1> USE DEF RestOfWork
<1>1. \A x \in Callers : calls[x] # None => Known(calls[x].client)
  BY DEF HeldNow, RefreshInv, CacheInv, CallTypes, CallRecords, Known
<1>2. \A x \in Servers : sc[x] # None => Known(sc[x])
  BY DEF HeldNow, Known
<1>3. CASE ConnectOK(s)
  <2>1. sc' = [sc EXCEPT ![s] = clients'[s]] /\ UNCHANGED calls
    BY <1>3, ConnectedIsOpen DEF ConnectOK, Connect
  <2>2. \A x \in Servers : sc'[x] # None => Known(sc'[x])
    BY <1>2, <2>1 DEF RefreshInv, WorkersHold, Known
  <2> QED
    BY <1>1, <2>1, <2>2
<1>4. CASE RefreshLinks(s)
  <2>1. sc[s] \in HeldNow /\ UNCHANGED sc
    BY <1>4 DEF RefreshLinks, HeldNow, RefreshInv, WorkersHold, ClientSteps, At
  <2>2. \E c \in HeldNow : Lead(s, c) \/ Join(s, c)
    BY <1>4, <2>1 DEF RefreshLinks, WorkerClient
  <2> QED
    BY <1>2, <2>1, <2>2, CallsKnown
<1>5. CASE LinksReturn(s) \/ LinksFinish(s) \/ LinksArrive(s)
  <2>1. UNCHANGED sc /\ (FetchLinks(s) \/ FinishFlight(s) \/ Leave(s))
    BY <1>5 DEF LinksReturn, LinksFinish, LinksArrive, workVars
  <2> QED
    BY <1>2, <2>1, CallsKnown
<1>6. CASE ConnectFails(s) \/ InventoryFails(s) \/ InventoryRead(s) \/ PruneInactive(s) \/ Judge(s)
  <2>1. UNCHANGED <<sc, calls>>
    BY <1>6 DEF ConnectFails, InventoryFails, InventoryRead, PruneInactive, Judge, aggVars, Lookup, Prune
  <2> QED
    BY <1>1, <1>2, <2>1
<1> QED
  BY <1>3, <1>4, <1>5, <1>6 DEF WorkOn

LEMMA RefresherKnown ==
  ASSUME RefreshInv, Refreshing, ~ \E s \in Servers : WorkOn(s)
  PROVE  /\ \A x \in Servers : sc'[x] # None => Known(sc'[x])
         /\ \A x \in Callers : calls'[x] # None => Known(calls'[x].client)
<1>1. UNCHANGED calls
  <2>1. ASSUME NEW s \in Servers, HandlerWrites(s)
        PROVE  UNCHANGED calls
    BY <2>1 DEF HandlerWrites, Write
  <2>2. ASSUME NEW r \in Refreshers, Start(r) \/ RefreshStep(r)
        PROVE  UNCHANGED calls
    BY <2>2 DEF Start, RefreshStep, List, Reconcile, ReconcileAs, PruneDeleted, PruneDeletedAs, Lock,
       StartWork, Publish, aggVars, Lookup, Prune
  <2>3. CASE HandlerTriggers \/ StartTriggered \/ \E p \in Changing : PanelChanges(p)
    BY <2>3 DEF HandlerTriggers, StartTriggered, PanelChanges, aggVars
  <2> QED
    BY <2>1, <2>2, <2>3 DEF Refreshing
<1>2. UNCHANGED sc \/ sc' = Nothing
  <2>1. ASSUME NEW s \in Servers, HandlerWrites(s)
        PROVE  UNCHANGED sc
    BY <2>1 DEF HandlerWrites, workVars
  <2>2. ASSUME NEW r \in Refreshers, Start(r) \/ RefreshStep(r)
        PROVE  UNCHANGED sc \/ sc' = Nothing
    BY <2>2 DEF Start, RefreshStep, List, Reconcile, ReconcileAs, PruneDeleted, Lock, StartWork,
       Publish, workVars
  <2>3. CASE HandlerTriggers \/ StartTriggered \/ \E p \in Changing : PanelChanges(p)
    BY <2>3 DEF HandlerTriggers, StartTriggered, PanelChanges, workVars
  <2> QED
    BY <2>1, <2>2, <2>3 DEF Refreshing
<1> QED
  BY <1>1, <1>2 DEF HeldNow, RefreshInv, CacheInv, CallTypes, CallRecords, Known, Nothing

LEMMA RequestKnown ==
  ASSUME RefreshInv, SubTypeOK, VisitsHold, NEW q \in Resolvers, Resolve(q) \/ HangsUp(q)
  PROVE  /\ \A x \in Servers : sc'[x] # None => Known(sc'[x])
         /\ \A x \in Callers : calls'[x] # None => Known(calls'[x].client)
         /\ \A x \in Resolvers : qclient'[x] # None => Known(qclient'[x])
<1> USE DEF Fixed, To, GoesOn
<1>1. \A x \in Servers : sc'[x] # None => Known(sc'[x])
  <2>1. UNCHANGED sc
    BY ResolveKeepsRefresh DEF workVars
  <2> QED
    BY <2>1 DEF HeldNow, Known
<1>2. \A x \in Callers : calls'[x] # None => Known(calls'[x].client)
  <2>1. q \in Callers
    BY ResolversAssumption DEF Requests
  <2>2. CASE FetchOrJoin(q)
    <3>1. qclient[q] \in HeldNow
      BY <2>2 DEF FetchOrJoin, Is, VisitsHold, AskingPlaces, HeldNow
    <3> QED
      BY <2>1, <2>2, <3>1, CallsKnown DEF FetchOrJoin
  <2>3. CASE PanelAnswers(q) \/ FetchEnds(q) \/ FetchArrives(q)
    BY <2>1, <2>3, CallsKnown DEF PanelAnswers, FetchEnds, FetchArrives
  <2>4. ASSUME UNCHANGED calls
        PROVE  \A x \in Callers : calls'[x] # None => Known(calls'[x].client)
    BY <2>4 DEF HeldNow, RefreshInv, CacheInv, CallTypes, CallRecords, Known
  <2>5. CASE ListServers(q) \/ LookupOK(q) \/ LookupFails(q) \/ SubConnectOK(q) \/ SubConnectFails(q)
    BY <2>4, <2>5 DEF ListServers, LookupOK, LookupFails, SubConnectOK, SubConnectFails, Lookup, Connect, aggVars
  <2>6. CASE \/ LoadSnapshot(q) \/ ReadEpoch(q) \/ Decide(q) \/ GetHits(q) \/ GetMisses(q)
             \/ Discover(q) \/ DiscoverStale(q) \/ DiscoveryReturns(q) \/ DiscoveryEnds(q)
             \/ DiscoveryArrives(q) \/ HangsUp(q) \/ FetchHits(q) \/ AnswerRequest(q)
    BY <2>4, <2>6 DEF LoadSnapshot, ReadEpoch, Decide, GetHits, GetMisses, Discover, DiscoverStale,
     DiscoveryReturns, DiscoveryEnds, DiscoveryArrives, HangsUp, FetchHits, AnswerRequest, vars, aggVars
  <2> QED
    BY <2>2, <2>3, <2>5, <2>6 DEF Resolve
<1>3. ASSUME NEW x \in Resolvers, qclient'[x] # None
      PROVE  Known(qclient'[x])
  <2>1. CASE qclient'[x] = qclient[x]
    BY <1>3, <2>1 DEF HeldNow, Known
  <2>2. CASE \E v, fails : Ends(q, v, fails)
    <3>1. x # q
      BY <1>3, <2>2 DEF Ends, Visited, SubTypeOK
    <3> QED
      BY <2>1, <3>1, OthersKeep
  <2>3. CASE SubConnectOK(q) /\ x = q
    <3>1. Server(q) \in Servers /\ Connect(Server(q)) /\ qclient'[q] = Connected(Server(q))
      BY <2>3, LeastVisited DEF SubConnectOK, Is, VisitsHold, Visiting, SubTypeOK
    <3>2. \A s \in Servers : Connect(s) => Connected(s) = clients'[s]
      BY ConnectedIsOpen
    <3> QED
      BY <2>3, <3>1, <3>2 DEF Known
  <2>4. CASE Decide(q) /\ GoesOn(q, "get") /\ x = q /\ ~ \E v, fails : Ends(q, v, fails)
    <3>1. Server(q) \in Servers /\ todo[q] # {}
      BY <2>4, LeastVisited DEF Decide, Is, VisitsHold, Visiting
    <3>2. qclient' = [qclient EXCEPT ![q] = CachedClient(q)]
      BY <2>4, <3>1 DEF Decide, Ends
    <3>3. UNCHANGED clients
      BY <2>4 DEF Decide, vars, aggVars, connVars
    <3>4. qclient'[q] = clients[Server(q)]
      BY <1>3, <2>4, <3>2 DEF CachedClient, SubTypeOK
    <3> QED
      BY <2>4, <3>1, <3>3, <3>4 DEF Known
  <2>5. CASE Proceeds(q)
    <3>1. x = q => qclient'[x] = qclient[x] \/ SubConnectOK(q) \/ (Decide(q) /\ GoesOn(q, "get"))
      BY <2>5 DEF Proceeds, ListServers, LoadSnapshot, AnswerRequest, LookupOK, ReadEpoch, GetMisses, Asks,
         visitVars
    <3>2. x # q => qclient'[x] = qclient[x]
      BY OthersKeep
    <3> QED
      BY <2>1, <2>2, <2>3, <2>4, <3>1, <3>2
  <2> QED
    BY <2>2, <2>5, ResolveKinds
<1> QED
  BY <1>1, <1>2, <1>3

LEMMA HeldKnown ==
  ASSUME RefreshInv, SubTypeOK, VisitsHold, [SubNext]_allVars, NEW x, x \in HeldNow'
  PROVE  Known(x)
<1> DEFINE K == /\ \A y \in Servers : sc'[y] # None => Known(sc'[y])
                /\ \A y \in Callers : calls'[y] # None => Known(calls'[y].client)
                /\ \A y \in Resolvers : qclient'[y] # None => Known(qclient'[y])
<1>1. K => Known(x)
  BY DEF HeldNow
<1>2. CASE UNCHANGED allVars
  <2>1. UNCHANGED <<sc, calls, qclient>>
    BY <1>2 DEF allVars, vars, subVars, visitVars, refreshVars, workVars, aggVars
  <2>2. K
    BY <2>1 DEF HeldNow, RefreshInv, CacheInv, CallTypes, CallRecords, Known
  <2> QED
    BY <1>1, <2>2
<1>3. CASE Refreshing /\ UNCHANGED subVars
  <2>1. UNCHANGED qclient
    BY <1>3 DEF subVars, visitVars
  <2>2. \A y \in Resolvers : qclient'[y] # None => Known(qclient'[y])
    BY <2>1 DEF HeldNow, Known
  <2>3. CASE \E s \in Servers : WorkOn(s)
    BY <1>1, <2>2, <2>3, WorkerKnown
  <2>4. CASE ~ \E s \in Servers : WorkOn(s)
    BY <1>1, <1>3, <2>2, <2>4, RefresherKnown
  <2> QED
    BY <2>3, <2>4
<1>4. ASSUME NEW q \in Resolvers, Resolve(q) \/ HangsUp(q)
      PROVE  K
  BY <1>4, RequestKnown
<1> HIDE DEF K
<1> QED
  BY <1>1, <1>2, <1>3, <1>4 DEF SubNext

LEMMA OneConnectionStep ==
  ASSUME RefreshInv, SubTypeOK, SubTypeOK', VisitsHold, OneConnection, [SubNext]_allVars
  PROVE  OneConnection'
<1>1. RefreshInv' /\ VisitsHold' /\ [ConnNext]_aggVars
  BY SubKeepsRefreshInv, VisitsStep, SubStepIsConn
<1>2. SUFFICES ASSUME NEW c, NEW d, c \in HeldNow', d \in HeldNow', c.server = d.server, c.epoch = d.epoch
               PROVE  c = d
  BY DEF OneConnection
<1>3. \A x : x \in HeldNow' => x.server \in Servers /\ StillHeld(x.server, x)'
  BY <1>1, HeldAreHeldNext DEF HeldSoundly
<1>4. Known(c) /\ Known(d)
  BY <1>2, HeldKnown
<1>5. ASSUME NEW x \in HeldNow', NEW y \in HeldNow', x.server = y.server, x.epoch = y.epoch,
             NEW s \in Servers, x = clients'[s]
      PROVE  x = y
  <2>1. /\ x \in ClientRecords /\ y \in ClientRecords
        /\ y.epoch = epochs'[y.server] => clients'[y.server] = y
    BY <1>3, <1>5 DEF StillHeld
  <2>2. x.server = s /\ x.epoch = epochs'[s]
    BY <1>1, <1>5, <2>1 DEF RefreshInv, CacheInv, ConnInv
  <2> QED
    BY <1>5, <2>1, <2>2
<1> QED
  BY <1>2, <1>4, <1>5 DEF Known, OneConnection

-----------------------------------------------------------------------------
(* A loaded snapshot.  Its entries may age, but what a request concludes    *)
(* from an entry and two epochs is about the row it listed.                 *)

\* Between the look-up and the epoch, then between the epoch and the decision.
EntryHolds(q) ==
  LET s == Server(q)
      e == qsnap[q][s] IN
  e # None /\ e.inv # None =>
    /\ Is(q, "epoch") => observed[s] = qlist[q][s] \/ e.epoch < epochs[s]
    /\ Is(q, "cached") /\ e.epoch = qepoch[q] => e.inv = qlist[q][s]

SnapshotHolds(q) == (\A s \in Servers : EntryCurrent(s, qsnap[q][s])) /\ EntryHolds(q)

SnapshotsCurrent == \A q \in Resolvers : SnapshotHolds(q)

\* An entry stays current, whichever state names it.
LEMMA AllEntriesStay ==
  ASSUME RefreshInv, [ConnNext]_aggVars
  PROVE  \A s \in Servers : \A e : EntryCurrent(s, e) =>
           (e # None /\ e.inv # None =>
              /\ e.epoch \in 1..epochs'[s]
              /\ e.epoch = epochs'[s] => e.inv = observed'[s])
<1> SUFFICES ASSUME NEW s \in Servers, NEW e, EntryCurrent(s, e)
             PROVE  EntryCurrent(s, e)'
  BY DEF EntryCurrent
<1> QED
  BY EntryStays DEF RefreshInv

LEMMA SnapshotStays ==
  ASSUME RefreshInv, SubTypeOK, VisitsHold, [ConnNext]_aggVars, NEW x \in Resolvers, SnapshotHolds(x),
         UNCHANGED <<qpc[x], qlist[x], qsnap[x], todo[x], qepoch[x]>>
  PROVE  SnapshotHolds(x)'
<1>1. \A s \in Servers : EntryCurrent(s, qsnap[x][s])'
  BY AllEntriesStay DEF SnapshotHolds, EntryCurrent
<1>2. ASSUME NEW s \in Servers, NEW e, EntryCurrent(s, e), e # None, e.inv # None, qlist[x][s] \in Revs,
             observed[s] = qlist[x][s] \/ e.epoch < epochs[s]
      PROVE  observed'[s] = qlist[x][s] \/ e.epoch < epochs'[s]
  <2>1. EpochStep /\ RefreshInv
    BY EpochsAdvance DEF RefreshInv
  <2>2. epochs[s] \in Nat /\ e.epoch \in 1..epochs[s]
    BY <1>2 DEF RefreshInv, CacheInv, ConnInv, EntryCurrent
  <2>3. epochs'[s] \in Nat
    BY CacheStep DEF RefreshInv, CacheInv, ConnInv
  <2> QED
    BY <1>2, <2>1, <2>2, <2>3 DEF EpochStep
<1>3. EntryHolds(x)'
  <2> SUFFICES ASSUME qsnap[x][Server(x)] # None, qsnap[x][Server(x)].inv # None, Is(x, "epoch")
               PROVE  LET s == Server(x) IN observed'[s] = qlist[x][s] \/ qsnap[x][s].epoch < epochs'[s]
    BY DEF SnapshotHolds, EntryHolds, Is, Server
  <2>1. Server(x) \in Servers /\ qlist[x][Server(x)] \in Revs
    BY LeastVisited DEF VisitsHold, Visiting, Is
  <2>2. EntryCurrent(Server(x), qsnap[x][Server(x)])
    BY <2>1 DEF SnapshotHolds
  <2>3. LET s == Server(x) IN observed[s] = qlist[x][s] \/ qsnap[x][s].epoch < epochs[s]
    BY DEF SnapshotHolds, EntryHolds
  <2> QED
    BY <1>2, <2>1, <2>2, <2>3
<1> QED
  BY <1>1, <1>3 DEF SnapshotHolds

LEMMA SnapshotProceeds ==
  ASSUME RefreshInv, SubTypeOK, VisitsHold, SnapshotsCurrent, [ConnNext]_aggVars,
         NEW q \in Resolvers, Proceeds(q)
  PROVE  SnapshotHolds(q)'
<1> USE DEF Is, To, GoesOn, Fixed, SnapshotsCurrent, SnapshotHolds
<1>1. ASSUME qsnap'[q] = qsnap[q]
      PROVE  \A s \in Servers : EntryCurrent(s, qsnap[q][s])'
  BY <1>1, AllEntriesStay DEF EntryCurrent
<1>2. CASE LoadSnapshot(q)
  <2>1. qsnap'[q] = snap /\ UNCHANGED vars /\ ~Is(q, "epoch")' /\ ~Is(q, "cached")'
    BY <1>2 DEF LoadSnapshot, SubTypeOK
  <2>2. \A s \in Servers : EntryCurrent(s, qsnap[q][s])'
    BY <2>1, AllEntriesStay DEF EntryCurrent, EntriesCurrent, RefreshInv
  <2> QED
    BY <2>1, <2>2 DEF EntryHolds
<1>3. CASE LookupOK(q)
  <2>1. qsnap'[q] = qsnap[q] /\ qlist'[q] = qlist[q] /\ todo'[q] = todo[q] /\ Is(q, "epoch")' /\ ~Is(q, "cached")'
    BY <1>3 DEF LookupOK, SubTypeOK
  <2>2. Server(q)' = Server(q) /\ Server(q) \in Servers
    BY <1>3, <2>1, LeastVisited DEF Server, LookupOK
  <2>3. observed'[Server(q)] = qlist[q][Server(q)]
    BY <1>3, <2>2 DEF LookupOK, Lookup, Observe, ObserveAs, Found
  <2> QED
    BY <1>1, <2>1, <2>2, <2>3 DEF EntryHolds
<1>4. CASE ReadEpoch(q)
  <2>1. /\ qsnap'[q] = qsnap[q] /\ qlist'[q] = qlist[q] /\ todo'[q] = todo[q] /\ Is(q, "epoch") /\ ~Is(q, "epoch")'
        /\ qepoch'[q] = epochs[Server(q)]
    BY <1>4 DEF ReadEpoch, SubTypeOK
  <2>2. Server(q)' = Server(q) /\ Server(q) \in Servers
    BY <1>4, <2>1, LeastVisited DEF Server, VisitsHold, Visiting
  <2>3. EntryCurrent(Server(q), qsnap[q][Server(q)])
    BY <2>2
  <2>4. EntryHolds(q)
    OBVIOUS
  <2>5. ASSUME qsnap[q][Server(q)] # None, qsnap[q][Server(q)].inv # None,
               qsnap[q][Server(q)].epoch = epochs[Server(q)]
        PROVE  qsnap[q][Server(q)].inv = qlist[q][Server(q)]
    <3>1. epochs[Server(q)] \in Nat
      BY <2>2 DEF RefreshInv, CacheInv, ConnInv
    <3> QED
      BY <2>1, <2>3, <2>4, <2>5, <3>1 DEF EntryHolds, EntryCurrent
  <2> QED
    BY <1>1, <2>1, <2>2, <2>5 DEF EntryHolds
<1>5. CASE \/ ListServers(q) \/ AnswerRequest(q) \/ GetMisses(q) \/ SubConnectOK(q)
           \/ (Decide(q) /\ GoesOn(q, "get")) \/ Asks(q)
  <2>1. qsnap'[q] = qsnap[q] /\ ~Is(q, "epoch")' /\ ~Is(q, "cached")'
    BY <1>5 DEF ListServers, AnswerRequest, GetMisses, SubConnectOK, Decide, Asks, AskingPlaces, SubTypeOK
  <2> QED
    BY <1>1, <2>1 DEF EntryHolds
<1> QED
  BY <1>2, <1>3, <1>4, <1>5 DEF Proceeds

LEMMA SnapshotsStep ==
  ASSUME RefreshInv, SubTypeOK, VisitsHold, SnapshotsCurrent, [SubNext]_allVars
  PROVE  SnapshotsCurrent'
<1>1. [ConnNext]_aggVars
  BY SubStepIsConn
<1>2. CASE UNCHANGED subVars
  <2>1. \A x \in Resolvers : UNCHANGED <<qpc[x], qlist[x], qsnap[x], todo[x], qepoch[x]>>
    BY <1>2 DEF subVars, visitVars
  <2> QED
    BY <1>1, <2>1, SnapshotStays DEF SnapshotsCurrent
<1>3. ASSUME NEW q \in Resolvers, Resolve(q) \/ HangsUp(q)
      PROVE  SnapshotsCurrent'
  <2>1. \A x \in Resolvers \ {q} : UNCHANGED <<qpc[x], qlist[x], qsnap[x], todo[x], qepoch[x]>>
    BY <1>3, OthersKeep
  <2>2. \A x \in Resolvers \ {q} : SnapshotHolds(x)'
    BY <1>1, <2>1, SnapshotStays DEF SnapshotsCurrent
  <2>3. ASSUME NEW v, NEW fails, Ends(q, v, fails)
        PROVE  SnapshotHolds(q)'
    <3>1. qsnap'[q] = qsnap[q] /\ ~Is(q, "epoch")' /\ ~Is(q, "cached")'
      BY <2>3 DEF Ends, Visited, Fixed, To, Is, SubTypeOK
    <3> QED
      BY <1>1, <3>1, AllEntriesStay DEF SnapshotsCurrent, SnapshotHolds, EntryHolds, EntryCurrent
  <2>4. SnapshotHolds(q)'
    BY <1>1, <1>3, <2>3, ResolveKinds, SnapshotProceeds
  <2> QED
    BY <2>2, <2>4 DEF SnapshotsCurrent
<1>4. UNCHANGED subVars \/ \E q \in Resolvers : Resolve(q) \/ HangsUp(q)
  BY DEF SubNext, allVars
<1> QED
  BY <1>2, <1>3, <1>4

-----------------------------------------------------------------------------
(* The history.  An inventory without the subscription, in the hands of a   *)
(* goroutine, published or loaded, was read over a connection whose panel   *)
(* had no links then.                                                       *)

Watched == Lacking \subseteq lacked

LEMMA LackedGrows ==
  ASSUME [SubNext]_allVars
  PROVE  lacked \subseteq lacked'
BY DEF SubNext, Watch, allVars

LEMMA WatchedStep ==
  ASSUME Watched, [SubNext]_allVars
  PROVE  Watched'
<1>1. CASE UNCHANGED allVars
  BY <1>1 DEF Watched, Lacking, allVars, vars, aggVars, connVars, refreshVars, panelVars
<1>2. CASE SubNext
  BY <1>2 DEF SubNext, Watch, Watched
<1> QED
  BY <1>1, <1>2

EntryJustified(s, e) ==
  e # None /\ e.inv # None /\ ~e.has => Client(s, e.inv, e.epoch) \in lacked

EntriesJustified ==
  \A s \in Servers :
    /\ EntryJustified(s, snap[s]) /\ EntryJustified(s, result[s])
    /\ \A q \in Resolvers : EntryJustified(s, qsnap[q][s])

\* A goroutine that has read an inventory has it from its connection.
ReadJustified ==
  \A s \in Servers :
    /\ at[s] \in {"connect", "inventory"} => fetched[s] = "none"
    /\ at[s] \in {"keep", "links", "fetch", "wait"} => fetched[s] # "none"
    /\ fetched[s] # "none" /\ ~has[s] => sc[s] \in lacked

LEMMA ReadStep ==
  ASSUME RefreshInv, WorkInv, Watched, ReadJustified, [SubNext]_allVars
  PROVE  ReadJustified'
<1>1. lacked \subseteq lacked'
  BY LackedGrows
<1>2. ASSUME UNCHANGED workVars
      PROVE  ReadJustified'
  BY <1>1, <1>2 DEF ReadJustified, workVars
<1>3. /\ at \in [Servers -> Steps] /\ sc \in [Servers -> ClientRecords \cup {None}]
      /\ fetched \in [Servers -> {"none", "ok", "degraded"}] /\ has \in [Servers -> BOOLEAN]
  BY DEF WorkInv, TypeOK
<1>4. ASSUME NEW s \in Servers, InventoryRead(s)
      PROVE  ReadJustified'
  <2>1. PICK b \in Lists(sc[s].rev) : has' = [has EXCEPT ![s] = b]
    BY <1>4 DEF InventoryRead
  <2>2. sc[s] # None /\ sc[s] \in ClientRecords /\ sc[s].server = s /\ clients[s] = sc[s]
    BY <1>4 DEF InventoryRead, At, RefreshInv, WorkersHold, ClientSteps, StillHeld
  <2>3. b \/ sc[s] \in lacked
    BY <2>1, <2>2 DEF Lists, Watched, Lacking
  <2>4. /\ at' = [at EXCEPT ![s] = "keep"] /\ fetched' = [fetched EXCEPT ![s] = "ok"]
        /\ sc' = sc
    BY <1>4 DEF InventoryRead, Moves
  <2> QED
    BY <1>1, <1>3, <2>1, <2>3, <2>4 DEF ReadJustified
<1>5. ASSUME NEW s \in Servers, WorkOn(s), ~InventoryRead(s)
      PROVE  ReadJustified'
  <2>1. CASE ConnectOK(s)
    BY <1>1, <1>3, <2>1 DEF ConnectOK, At, Moves, ReadJustified
  <2>2. CASE ConnectFails(s) \/ InventoryFails(s) \/ Judge(s)
    <3>1. UNCHANGED <<sc, fetched, has>> /\ \E l \in {"done", "judge"} : at' = [at EXCEPT ![s] = l]
      BY <2>2 DEF ConnectFails, InventoryFails, Judge, Moves
    <3> QED
      BY <1>1, <1>3, <3>1 DEF ReadJustified
  <2>3. CASE PruneInactive(s) \/ RefreshLinks(s)
    <3>1. /\ UNCHANGED <<sc, fetched, has>> /\ at[s] \in {"keep", "links"}
          /\ \E l \in {"links", "judge", "fetch", "wait"} : at' = [at EXCEPT ![s] = l]
      BY <2>3 DEF PruneInactive, RefreshLinks, Moves, At
    <3> QED
      BY <1>1, <1>3, <3>1 DEF ReadJustified
  <2>4. CASE LinksFinish(s) \/ LinksArrive(s)
    <3>1. /\ UNCHANGED <<sc, has>> /\ at[s] \in {"fetch", "wait"}
          /\ at' = [at EXCEPT ![s] = "judge"]
      BY <2>4 DEF LinksFinish, LinksArrive, Moves, At
    <3>2. \E f \in {"ok", "degraded"} : fetched' = [fetched EXCEPT ![s] = f]
      BY <2>4 DEF LinksFinish, LinksArrive, LinksSynced
    <3> QED
      BY <1>1, <1>3, <3>1, <3>2 DEF ReadJustified
  <2>5. CASE LinksReturn(s)
    BY <1>2, <2>5 DEF LinksReturn
  <2> QED
    BY <1>5, <2>1, <2>2, <2>3, <2>4, <2>5 DEF WorkOn
<1>6. ASSUME NEW r \in Refreshers, StartWork(r)
      PROVE  ReadJustified'
  BY <1>6 DEF StartWork, ReadJustified
<1>7. ASSUME NEW r \in Refreshers, Publish(r)
      PROVE  ReadJustified'
  BY <1>7 DEF Publish, At, ReadJustified
<1>8. ASSUME NEW r \in Refreshers, Start(r) \/ RefreshStep(r), ~StartWork(r), ~Publish(r)
      PROVE  UNCHANGED workVars
  BY <1>8 DEF Start, RefreshStep, List, Reconcile, ReconcileAs, PruneDeleted, Lock
<1>9. ASSUME NEW s \in Servers, HandlerWrites(s)
      PROVE  UNCHANGED workVars
  BY <1>9 DEF HandlerWrites
<1>10. CASE HandlerTriggers \/ StartTriggered
  BY <1>2, <1>10 DEF HandlerTriggers, StartTriggered
<1>11. ASSUME NEW p \in Changing, PanelChanges(p)
       PROVE  UNCHANGED workVars
  BY <1>11 DEF PanelChanges
<1>12. ASSUME NEW q \in Resolvers, Resolve(q) \/ HangsUp(q)
       PROVE  UNCHANGED workVars
  BY <1>12, ResolveKeepsRefresh
<1>13. CASE UNCHANGED allVars
  BY <1>2, <1>13 DEF allVars, vars, refreshVars
<1> QED
  BY <1>2, <1>4, <1>5, <1>6, <1>7, <1>8, <1>9, <1>10, <1>11, <1>12, <1>13 DEF SubNext, Refreshing

LEMMA RetainedJustified ==
  ASSUME EntriesJustified, NEW s \in Servers, NEW r, NEW x
  PROVE  EntryJustified(s, Retained(s, r, x))
BY DEF EntriesJustified, EntryJustified, Retained, Shown

\* What a refresher keeps and publishes.
LEMMA ResultsJustified ==
  ASSUME RefreshInv, WorkInv, ReadJustified, EntriesJustified, Refreshing
  PROVE  \A s \in Servers : EntryJustified(s, snap'[s]) /\ EntryJustified(s, result'[s])
<1> USE DEF RestOfWork
<1>1. \A s \in Servers : EntryJustified(s, snap[s]) /\ EntryJustified(s, result[s])
  BY DEF EntriesJustified
<1>2. ASSUME UNCHANGED <<snap, result>>
      PROVE  \A s \in Servers : EntryJustified(s, snap'[s]) /\ EntryJustified(s, result'[s])
  BY <1>1, <1>2
<1>3. ASSUME NEW s \in Servers, NEW e, EntryJustified(s, e),
             result' = [result EXCEPT ![s] = e], snap' = snap
      PROVE  \A x \in Servers : EntryJustified(x, snap'[x]) /\ EntryJustified(x, result'[x])
  <2>1. result \in [Servers -> Entries \cup {None}]
    BY DEF WorkInv, TypeOK
  <2>2. \A x \in Servers : result'[x] = IF x = s THEN e ELSE result[x]
    BY <1>3, <2>1
  <2> QED
    BY <1>1, <1>3, <2>2
<1>4. ASSUME NEW s \in Servers, Judge(s)
      PROVE  \A x \in Servers : EntryJustified(x, snap'[x]) /\ EntryJustified(x, result'[x])
  <2>1. PICK e : e = IF fetched[s] # "none" /\ Current(sc[s])
                       THEN Shown(sc[s].rev, sc[s].rev, has[s], sc[s].epoch, fetched[s])
                       ELSE Retained(s, sc[s].rev, sc[s].epoch)
    OBVIOUS
  <2>2. EntryJustified(s, e)
    <3>1. CASE fetched[s] # "none" /\ Current(sc[s])
      <4>1. sc[s] = Client(s, sc[s].rev, sc[s].epoch)
        BY <1>4 DEF Judge, At, RefreshInv, WorkersHold, ClientSteps, StillHeld, ClientRecords
      <4>2. ~has[s] => sc[s] \in lacked
        BY <3>1 DEF ReadJustified
      <4> QED
        BY <2>1, <3>1, <4>1, <4>2 DEF EntryJustified, Shown
    <3>2. CASE ~(fetched[s] # "none" /\ Current(sc[s]))
      BY <2>1, <3>2, RetainedJustified
    <3> QED
      BY <3>1, <3>2
  <2>3. result' = [result EXCEPT ![s] = e] /\ snap' = snap
    BY <1>4, <2>1 DEF Judge
  <2> QED
    BY <1>3, <2>2, <2>3
<1>5. ASSUME NEW s \in Servers, ConnectFails(s)
      PROVE  \A x \in Servers : EntryJustified(x, snap'[x]) /\ EntryJustified(x, result'[x])
  <2>1. PICK e : e = Retained(s, listed[refreshMu][s], 0)
    OBVIOUS
  <2>2. EntryJustified(s, e) /\ result' = [result EXCEPT ![s] = e] /\ snap' = snap
    BY <1>5, <2>1, RetainedJustified DEF ConnectFails
  <2> QED
    BY <1>3, <2>2
<1>6. ASSUME NEW s \in Servers, WorkOn(s), ~Judge(s), ~ConnectFails(s)
      PROVE  UNCHANGED <<snap, result>>
  BY <1>6 DEF WorkOn, ConnectOK, InventoryFails, InventoryRead, PruneInactive, RefreshLinks,
     LinksReturn, LinksFinish, LinksArrive, workVars
<1>7. ASSUME NEW r \in Refreshers, StartWork(r)
      PROVE  \A s \in Servers : EntryJustified(s, snap'[s]) /\ EntryJustified(s, result'[s])
  <2>1. result' = Nothing /\ snap' = snap
    BY <1>7 DEF StartWork, PruneDeletedAs
  <2> QED
    BY <1>1, <2>1 DEF EntryJustified, Nothing
<1>8. ASSUME NEW r \in Refreshers, Publish(r)
      PROVE  \A s \in Servers : EntryJustified(s, snap'[s]) /\ EntryJustified(s, result'[s])
  <2>1. result' = Nothing
    BY <1>8 DEF Publish
  <2>2. PICK failing \in SUBSET ListedBy(r) :
          snap' = [s \in Servers |->
                     IF s \in ListedBy(r) THEN Publishable(r, s, failing) ELSE None]
    BY <1>8 DEF Publish
  <2>3. ASSUME NEW s \in Servers
        PROVE  EntryJustified(s, snap'[s])
    <3>1. \/ snap'[s] = None \/ snap'[s] = result[s]
          \/ \E r_1, x : snap'[s] = Retained(s, r_1, x)
      BY <2>2 DEF Publishable
    <3> QED
      BY <1>1, <3>1, RetainedJustified DEF EntryJustified
  <2> QED
    BY <2>1, <2>3 DEF EntryJustified, Nothing
<1>9. ASSUME NEW r \in Refreshers, Start(r) \/ RefreshStep(r), ~StartWork(r), ~Publish(r)
      PROVE  UNCHANGED <<snap, result>>
  BY <1>9 DEF Start, RefreshStep, List, Reconcile, ReconcileAs, PruneDeleted, PruneDeletedAs, Lock,
     workVars
<1>10. ASSUME NEW s \in Servers, HandlerWrites(s)
       PROVE  UNCHANGED <<snap, result>>
  BY <1>10 DEF HandlerWrites, workVars
<1>11. CASE HandlerTriggers \/ StartTriggered
  BY <1>2, <1>11 DEF HandlerTriggers, StartTriggered, workVars
<1>12. ASSUME NEW p \in Changing, PanelChanges(p)
       PROVE  UNCHANGED <<snap, result>>
  BY <1>12 DEF PanelChanges, workVars
<1> QED
  BY <1>2, <1>4, <1>5, <1>6, <1>7, <1>8, <1>9, <1>10, <1>11, <1>12 DEF Refreshing

LEMMA JustifiedStep ==
  ASSUME RefreshInv, WorkInv, SubTypeOK, VisitsHold, ReadJustified, EntriesJustified, [SubNext]_allVars
  PROVE  EntriesJustified'
<1>1. \A s, e : EntryJustified(s, e) => EntryJustified(s, e)'
  BY LackedGrows DEF EntryJustified
<1>2. \A s \in Servers : EntryJustified(s, snap'[s]) /\ EntryJustified(s, result'[s])
  <2>1. CASE Refreshing
    BY <2>1, ResultsJustified
  <2>2. CASE UNCHANGED allVars \/ \E q \in Resolvers : Resolve(q) \/ HangsUp(q)
    <3>1. UNCHANGED <<snap, result>>
      BY <2>2, ResolveKeepsRefresh DEF allVars, vars, refreshVars, workVars
    <3> QED
      BY <3>1 DEF EntriesJustified
  <2> QED
    BY <2>1, <2>2 DEF SubNext
<1>3. \A s \in Servers, q \in Resolvers : EntryJustified(s, qsnap'[q][s])
  <2>1. CASE UNCHANGED qsnap
    BY <2>1 DEF EntriesJustified
  <2>2. ASSUME NEW q \in Resolvers, LoadSnapshot(q)
        PROVE  \A s \in Servers, x \in Resolvers : EntryJustified(s, qsnap'[x][s])
    <3>1. qsnap' = [qsnap EXCEPT ![q] = snap]
      BY <2>2 DEF LoadSnapshot
    <3>2. \A x \in Resolvers : qsnap'[x] = qsnap[x] \/ qsnap'[x] = snap
      BY <3>1 DEF SubTypeOK
    <3> QED
      BY <3>2 DEF EntriesJustified
  <2>3. ASSUME NEW q \in Resolvers, Resolve(q) \/ HangsUp(q), ~LoadSnapshot(q)
        PROVE  UNCHANGED qsnap
    <3>1. CASE Proceeds(q)
      BY <2>3, <3>1 DEF Proceeds, ListServers, AnswerRequest, LookupOK, ReadEpoch, GetMisses,
         SubConnectOK, Decide, Asks, Fixed
    <3>2. ASSUME NEW v, NEW fails, Ends(q, v, fails)
          PROVE  UNCHANGED qsnap
      BY <3>2 DEF Ends, Fixed
    <3> QED
      BY <2>3, <3>1, <3>2, ResolveKinds
  <2>4. CASE UNCHANGED allVars \/ UNCHANGED subVars
    BY <2>1, <2>4 DEF allVars, subVars
  <2> QED
    BY <2>1, <2>2, <2>3, <2>4 DEF SubNext
<1> QED
  BY <1>1, <1>2, <1>3 DEF EntriesJustified, EntryJustified

-----------------------------------------------------------------------------
(* Epochs.  From the epoch it read on, a request looks at connections of    *)
(* that epoch or of a later one.                                            *)

EpochHolds(q) ==
  /\ Is(q, "epoch") => qclient[q] = None
  /\ Visiting(q) /\ ~Is(q, "epoch") => qepoch[q] <= epochs[Server(q)]
  /\ qclient[q] # None => qepoch[q] <= qclient[q].epoch

EpochsHold == \A q \in Resolvers : EpochHolds(q)

LEMMA EpochStays ==
  ASSUME RefreshInv, SubTypeOK, VisitsHold, [ConnNext]_aggVars, NEW x \in Resolvers, EpochHolds(x),
         UNCHANGED <<todo[x], qepoch[x], qclient[x]>>,
         Is(x, "epoch")' => Is(x, "epoch"),
         Visiting(x)' /\ ~Is(x, "epoch")' => Visiting(x) /\ ~Is(x, "epoch")
  PROVE  EpochHolds(x)'
<1>1. Server(x)' = Server(x)
  BY DEF Server
<1>2. ASSUME Visiting(x), ~Is(x, "epoch")
      PROVE  qepoch[x] <= epochs'[Server(x)]
  <2>1. Server(x) \in Servers /\ qepoch[x] \in Nat
    BY <1>2, LeastVisited DEF VisitsHold, SubTypeOK
  <2>2. \A s \in Servers : epochs[s] \in Nat /\ epochs'[s] \in Nat /\ epochs[s] <= epochs'[s]
    BY EpochsAdvance, CacheStep DEF RefreshInv, CacheInv, ConnInv, EpochStep
  <2>3. qepoch[x] <= epochs[Server(x)]
    BY <1>2 DEF EpochHolds
  <2> HIDE DEF Server
  <2> QED
    BY <2>1, <2>2, <2>3
<1> HIDE DEF Server
<1> QED
  BY <1>1, <1>2 DEF EpochHolds

LEMMA EpochProceeds ==
  ASSUME RefreshInv, SubTypeOK, VisitsHold, EpochsHold, [ConnNext]_aggVars, NEW q \in Resolvers, Proceeds(q)
  PROVE  EpochHolds(q)'
<1> USE DEF Is, To, GoesOn, Visiting, Fixed, visitVars
<1>1. EpochHolds(q)
  BY DEF EpochsHold
<1>2. CASE ListServers(q) \/ LoadSnapshot(q) \/ AnswerRequest(q) \/ LookupOK(q)
  <2>1. qclient[q] = None /\ qclient' = qclient
    BY <1>2 DEF ListServers, LoadSnapshot, AnswerRequest, LookupOK, VisitsHold
  <2>2. qpc'[q] \in {"list", "load", "visit", "answered", "epoch"}
    BY <1>2 DEF ListServers, LoadSnapshot, AnswerRequest, LookupOK, SubTypeOK
  <2> QED
    BY <2>1, <2>2 DEF EpochHolds
<1>3. CASE ReadEpoch(q)
  <2>2. qepoch'[q] = epochs[Server(q)] /\ UNCHANGED <<epochs, todo, qclient>>
    BY <1>3 DEF ReadEpoch, SubTypeOK, vars, aggVars, connVars
  <2>3. Server(q)' = Server(q) /\ Server(q) \in Servers
    BY <1>3, <2>2, LeastVisited DEF Server, ReadEpoch, VisitsHold
  <2>4. epochs[Server(q)] \in Nat
    BY <2>3 DEF RefreshInv, CacheInv, ConnInv
  <2>5. qclient[q] = None
    BY <1>1, <1>3 DEF ReadEpoch, EpochHolds
  <2> QED
    BY <2>2, <2>3, <2>4, <2>5 DEF EpochHolds
<1>4. CASE GetMisses(q) \/ Asks(q)
  <2>1. /\ UNCHANGED <<todo[q], qepoch[q], qclient[q]>>
        /\ qpc[q] \notin {"list", "load", "visit", "answered", "epoch"} /\ qpc'[q] # "epoch"
    BY <1>4 DEF GetMisses, Asks, AskingPlaces, SubTypeOK
  <2> QED
    BY <1>1, <2>1, EpochStays
<1>5. CASE SubConnectOK(q)
  <2> DEFINE s == Server(q)
  <2>1. /\ todo[q] # {} /\ s \in Servers /\ UNCHANGED <<todo, qepoch>> /\ s' = s
        /\ qpc'[q] # "epoch"
    BY <1>5, LeastVisited DEF SubConnectOK, VisitsHold, Server, SubTypeOK
  <2>2. qclient'[q] = Connected(s) /\ Connect(s)
    BY <1>5 DEF SubConnectOK, SubTypeOK
  <2>3. qepoch[q] <= epochs[s] /\ qepoch[q] \in Nat
    BY <1>1, <1>5 DEF SubConnectOK, EpochHolds, SubTypeOK
  <2> HIDE DEF s
  <2>4. \A x \in Servers : epochs[x] \in Nat /\ epochs'[x] \in Nat /\ epochs[x] <= epochs'[x]
    BY EpochsAdvance, CacheStep DEF RefreshInv, CacheInv, ConnInv, EpochStep
  <2>5. \A x \in Servers : Connect(x) => Connected(x) = clients'[x]
    BY ConnectedIsOpen
  <2>6. \A x \in Servers : clients'[x] # None => clients'[x].epoch = epochs'[x]
    BY CacheStep DEF RefreshInv, CacheInv, ConnInv
  <2> QED
    BY <2>1, <2>2, <2>3, <2>4, <2>5, <2>6 DEF EpochHolds, s
<1>6. CASE Decide(q) /\ GoesOn(q, "get")
  <2> DEFINE s == Server(q)
  <2>1. todo[q] # {} /\ s \in Servers /\ UNCHANGED <<todo, epochs, clients>> /\ s' = s
    BY <1>6, LeastVisited DEF Decide, VisitsHold, Server, vars, aggVars, connVars
  <2>2. qepoch[q] <= epochs[s]
    BY <1>1, <1>6 DEF Decide, EpochHolds
  <2>5. ~Absent(q)
    BY <1>6 DEF Decide, Visited, SubTypeOK
  <2>3. /\ qclient'[q] = None \/ (clients[s] # None /\ qclient'[q] = clients[s])
        /\ UNCHANGED qepoch /\ qpc'[q] # "epoch"
    BY <1>6, <2>5 DEF Decide, SubTypeOK, CachedClient
  <2> HIDE DEF s
  <2>4. \A x \in Servers : epochs[x] \in Nat /\ (clients[x] # None => clients[x].epoch = epochs[x])
    BY DEF RefreshInv, CacheInv, ConnInv
  <2> QED
    BY <2>1, <2>2, <2>3, <2>4 DEF EpochHolds, s
<1> QED
  BY <1>2, <1>3, <1>4, <1>5, <1>6 DEF Proceeds

LEMMA EpochsStep ==
  ASSUME RefreshInv, SubTypeOK, VisitsHold, EpochsHold, [SubNext]_allVars
  PROVE  EpochsHold'
<1>1. [ConnNext]_aggVars
  BY SubStepIsConn
<1>2. CASE UNCHANGED subVars
  <2>1. \A x \in Resolvers : UNCHANGED <<qpc[x], todo[x], qepoch[x], qclient[x]>>
    BY <1>2 DEF subVars, visitVars
  <2> QED
    BY <1>1, <2>1, EpochStays DEF EpochsHold, Is, Visiting
<1>3. ASSUME NEW q \in Resolvers, Resolve(q) \/ HangsUp(q)
      PROVE  EpochsHold'
  <2>1. \A x \in Resolvers \ {q} : UNCHANGED <<qpc[x], todo[x], qepoch[x], qclient[x]>>
    BY <1>3, OthersKeep
  <2>2. \A x \in Resolvers \ {q} : EpochHolds(x)'
    BY <1>1, <2>1, EpochStays DEF EpochsHold, Is, Visiting
  <2>3. ASSUME NEW v, NEW fails, Ends(q, v, fails)
        PROVE  EpochHolds(q)'
    BY <2>3 DEF Ends, Visited, To, Is, Visiting, SubTypeOK, EpochHolds
  <2>4. EpochHolds(q)'
    BY <1>1, <1>3, <2>3, ResolveKinds, EpochProceeds
  <2> QED
    BY <2>2, <2>4 DEF EpochsHold
<1>4. UNCHANGED subVars \/ \E q \in Resolvers : Resolve(q) \/ HangsUp(q)
  BY DEF SubNext, allVars
<1> QED
  BY <1>2, <1>3, <1>4

-----------------------------------------------------------------------------
(* Link flights.  A request waits for a flight over its own connection, so  *)
(* what lands is the revision of that connection.                           *)

FlightsShared ==
  /\ \A q \in Resolvers : calls[q] # None => Is(q, "fetch") /\ calls[q].client = qclient[q]
  /\ \A x \in waits :
       /\ x.flight \in Callers /\ calls[x.flight] # None
       /\ x.who \in Resolvers => Is(x.who, "wait") /\ calls[x.flight].client = qclient[x.who]
  /\ \A a \in landed :
       a.who \in Resolvers => Is(a.who, "wait") /\ a.val \in {None, qclient[a.who].rev}

\* The visits that caller w is not on stay as they are.
OthersVisit(w) == \A x \in Resolvers \ {w} : qpc'[x] = qpc[x] /\ qclient'[x] = qclient[x]

LEMMA LeadShares ==
  ASSUME RefreshInv, FlightsShared, NEW w \in Callers, NEW c, Lead(w, c), OthersVisit(w),
         w \in Resolvers => Is(w, "fetch")' /\ qclient'[w] = c
  PROVE  FlightsShared'
<1>1. calls[w] = None /\ \A x \in waits \cup landed : x.who # w
  BY DEF Lead, Free
<1>2. UNCHANGED <<waits, landed>> /\ calls' = [calls EXCEPT ![w] = Call(c, Pending)]
  BY DEF Lead, BeginFlight
<1>3. \A x \in Callers \ {w} : calls'[x] = calls[x]
  BY <1>2 DEF RefreshInv, CacheInv, CallTypes
<1>4. calls'[w].client = c
  BY <1>2 DEF RefreshInv, CacheInv, CallTypes, Call
<1>5. Resolvers \subseteq Callers
  BY ResolversAssumption DEF Requests
<1>6. \A q \in Resolvers : calls'[q] # None => Is(q, "fetch")' /\ calls'[q].client = qclient'[q]
  BY <1>3, <1>4, <1>5 DEF FlightsShared, OthersVisit, Is
<1>7. \A x \in waits :
       /\ x.flight \in Callers /\ calls'[x.flight] # None
       /\ x.who \in Resolvers => Is(x.who, "wait")' /\ calls'[x.flight].client = qclient'[x.who]
  BY <1>1, <1>3 DEF FlightsShared, OthersVisit, Is
<1>8. \A a \in landed :
       a.who \in Resolvers => Is(a.who, "wait")' /\ a.val \in {None, qclient'[a.who].rev}
  BY <1>1 DEF FlightsShared, OthersVisit, Is
<1> QED
  BY <1>2, <1>6, <1>7, <1>8 DEF FlightsShared

LEMMA JoinShares ==
  ASSUME RefreshInv, OneConnection, FlightsShared, NEW w \in Callers, NEW c, c \in HeldNow, Join(w, c),
         OthersVisit(w), w \in Resolvers => Is(w, "wait")' /\ qclient'[w] = c
  PROVE  FlightsShared'
<1>1. calls[w] = None /\ \A x \in waits \cup landed : x.who # w
  BY DEF Join, Free
<1>2. PICK f \in LiveAt(KeyOf(c)) : waits' = waits \cup {Waiting(w, f)}
  BY DEF Join, JoinFlight
<1>3. UNCHANGED <<landed, calls>>
  BY DEF Join, JoinFlight
<1>4. /\ f \in Callers /\ calls[f] # None
      /\ KeyOf(calls[f].client) = KeyOf(c)
  <2>1. PICK l \in live : l.key = KeyOf(c) /\ f = l.flight
    BY <1>2 DEF LiveAt
  <2> QED
    BY <2>1 DEF RefreshInv, CacheInv, LiveFlightsLed, Flying
<1>5. calls[f].client = c
  <2>1. calls[f].client \in HeldNow
    BY <1>4 DEF HeldNow, RefreshInv, CacheInv, CallTypes, CallRecords
  <2> QED
    BY <1>4, <2>1 DEF OneConnection, KeyOf
<1>6. Resolvers \subseteq Callers
  BY ResolversAssumption DEF Requests
<1>7. \A q \in Resolvers : calls[q] # None => Is(q, "fetch")' /\ calls[q].client = qclient'[q]
  BY <1>1 DEF FlightsShared, OthersVisit, Is
<1>8. \A x \in waits' :
       /\ x.flight \in Callers /\ calls[x.flight] # None
       /\ x.who \in Resolvers => Is(x.who, "wait")' /\ calls[x.flight].client = qclient'[x.who]
  <2> TAKE x \in waits'
  <2>1. CASE x \in waits
    BY <1>1, <2>1 DEF FlightsShared, OthersVisit, Is
  <2>2. CASE x = Waiting(w, f)
    BY <1>4, <1>5, <2>2 DEF Waiting
  <2> QED
    BY <1>2, <2>1, <2>2
<1>9. \A a \in landed :
       a.who \in Resolvers => Is(a.who, "wait")' /\ a.val \in {None, qclient'[a.who].rev}
  BY <1>1 DEF FlightsShared, OthersVisit, Is
<1> QED
  BY <1>3, <1>7, <1>8, <1>9 DEF FlightsShared

LEMMA FetchShares ==
  ASSUME RefreshInv, FlightsShared, NEW w \in Callers, FetchLinks(w), UNCHANGED <<qpc, qclient>>
  PROVE  FlightsShared'
<1>1. \A x \in Callers : (calls'[x] = None <=> calls[x] = None) /\ (calls[x] # None => calls'[x].client = calls[x].client)
  <2>1. \A x \in Callers \ {w} : calls'[x] = calls[x]
    BY DEF FetchLinks, RefreshInv, CacheInv, CallTypes
  <2>2. PICK v \in {None, calls[w].client.rev} : calls' = [calls EXCEPT ![w].answer = v]
    BY DEF FetchLinks
  <2>3. calls[w] \in CallRecords
    BY DEF FetchLinks, RefreshInv, CacheInv, CallTypes
  <2>4. calls'[w] = [client |-> calls[w].client, answer |-> v]
    BY <2>2, <2>3 DEF RefreshInv, CacheInv, CallTypes, CallRecords
  <2>5. calls'[w] # None
    <3>1. v \in Revs \cup {None}
      BY <2>2, <2>3 DEF CallRecords, ClientRecords
    <3> QED
      BY <2>3, <2>4, <3>1 DEF CallRecords
  <2> QED
    BY <2>1, <2>3, <2>4, <2>5 DEF FetchLinks
<1>2. UNCHANGED <<waits, landed>>
  BY DEF FetchLinks, linkVars
<1>3. Resolvers \subseteq Callers
  BY ResolversAssumption DEF Requests
<1> QED
  BY <1>1, <1>2, <1>3 DEF FlightsShared, Is

LEMMA FinishShares ==
  ASSUME RefreshInv, FlightsShared, NEW w \in Callers, FinishFlight(w), OthersVisit(w),
         w \in Resolvers => Is(w, "fetch")
  PROVE  FlightsShared'
<1>1. calls' = [calls EXCEPT ![w] = None] /\ calls[w] # None /\ calls[w].answer # Pending
  BY DEF FinishFlight
<1>2. /\ waits' = {x \in waits : x.flight # w}
      /\ landed' = landed \cup {Answer(x.who, calls[w].answer) : x \in {y \in waits : y.flight = w}}
  BY DEF FinishFlight, EndFlight
<1>3. /\ \A x \in Callers \ {w} : calls'[x] = calls[x]
      /\ calls'[w] = None
  BY <1>1 DEF RefreshInv, CacheInv, CallTypes
<1>4. Resolvers \subseteq Callers
  BY ResolversAssumption DEF Requests
<1>5. \A x \in waits \cup landed : x.who \in Resolvers => x.who # w
  BY DEF FlightsShared, Is
<1>6. \A q \in Resolvers : calls'[q] # None => Is(q, "fetch")' /\ calls'[q].client = qclient'[q]
  BY <1>3, <1>4 DEF FlightsShared, OthersVisit, Is
<1>7. \A x \in waits' :
       /\ x.flight \in Callers /\ calls'[x.flight] # None
       /\ x.who \in Resolvers => Is(x.who, "wait")' /\ calls'[x.flight].client = qclient'[x.who]
  BY <1>2, <1>3, <1>5 DEF FlightsShared, OthersVisit, Is
<1>8. \A a \in landed' :
       a.who \in Resolvers => Is(a.who, "wait")' /\ a.val \in {None, qclient'[a.who].rev}
  <2> TAKE a \in landed'
  <2>1. CASE a \in landed
    BY <1>5, <2>1 DEF FlightsShared, OthersVisit, Is
  <2>2. CASE \E x \in waits : x.flight = w /\ a = Answer(x.who, calls[w].answer)
    <3>1. PICK x \in waits : x.flight = w /\ a = Answer(x.who, calls[w].answer)
      BY <2>2
    <3>2. a.who = x.who /\ a.val = calls[w].answer
      BY <3>1 DEF Answer
    <3>3. calls[w].answer \in {None, calls[w].client.rev}
      BY <1>1 DEF RefreshInv, CacheInv, CallsHeld
    <3> QED
      BY <1>5, <3>1, <3>2, <3>3 DEF FlightsShared, OthersVisit, Is
  <2> QED
    BY <1>2, <2>1, <2>2
<1> QED
  BY <1>6, <1>7, <1>8 DEF FlightsShared

LEMMA LeaveShares ==
  ASSUME RefreshInv, FlightsShared, NEW w \in Callers, Leave(w), OthersVisit(w),
         w \in Resolvers => calls[w] = None
  PROVE  FlightsShared'
<1>1. /\ waits' = {x \in waits : x.who # w} /\ landed' = {x \in landed : x.who # w}
      /\ UNCHANGED calls
  BY DEF Leave, LeaveFlight
<1> QED
  BY <1>1 DEF FlightsShared, OthersVisit, Is

LEMMA StillShared ==
  ASSUME FlightsShared, UNCHANGED <<calls, waits, landed>>,
         \A x \in Resolvers : Is(x, "fetch") \/ Is(x, "wait") => qpc'[x] = qpc[x] /\ qclient'[x] = qclient[x]
  PROVE  FlightsShared'
BY DEF FlightsShared, Is

LEMMA RefreshShares ==
  ASSUME RefreshInv, OneConnection, FlightsShared, Refreshing, UNCHANGED subVars
  PROVE  FlightsShared'
<1>1. UNCHANGED <<qpc, qclient>>
  BY DEF subVars, visitVars
<1>2. \A s \in Servers : s \in Callers /\ s \notin Resolvers
  BY WorkersAssumption, ResolversAssumption DEF Requests
<1>3. \A w : OthersVisit(w)
  BY <1>1 DEF OthersVisit
<1>4. ASSUME NEW s \in Servers, RefreshLinks(s)
      PROVE  FlightsShared'
  <2>1. sc[s] \in HeldNow
    BY <1>4 DEF RefreshLinks, HeldNow, RefreshInv, WorkersHold, ClientSteps, At
  <2> QED
    BY <1>2, <1>3, <1>4, <2>1, LeadShares, JoinShares DEF RefreshLinks, WorkerClient
<1>5. ASSUME NEW s \in Servers, LinksReturn(s) \/ LinksFinish(s)
      PROVE  FlightsShared'
  BY <1>1, <1>2, <1>3, <1>5, FetchShares, FinishShares DEF LinksReturn, LinksFinish
<1>6. ASSUME NEW s \in Servers, LinksArrive(s)
      PROVE  FlightsShared'
  BY <1>2, <1>3, <1>6, LeaveShares DEF LinksArrive
<1>7. ASSUME UNCHANGED <<calls, waits, landed>>
      PROVE  FlightsShared'
  BY <1>1, <1>7, StillShared
<1>8. ASSUME NEW s \in Servers,
             \/ HandlerWrites(s) \/ ConnectOK(s) \/ ConnectFails(s) \/ InventoryFails(s)
             \/ InventoryRead(s) \/ PruneInactive(s) \/ Judge(s)
      PROVE  UNCHANGED <<calls, waits, landed>>
  BY <1>8 DEF HandlerWrites, Write, ConnectOK, ConnectFails, InventoryFails, InventoryRead, PruneInactive,
     Judge, aggVars, linkVars, Lookup, Connect, Observe, ObserveAs, Prune, Drop
<1>9. ASSUME NEW r \in Refreshers, Start(r) \/ RefreshStep(r)
      PROVE  UNCHANGED <<calls, waits, landed>>
  BY <1>9 DEF Start, RefreshStep, List, Reconcile, ReconcileAs, PruneDeleted, PruneDeletedAs, Lock,
     StartWork, Publish, aggVars, linkVars, Lookup, Observe, ObserveAs, Prune, Drop
<1>10. CASE HandlerTriggers \/ StartTriggered \/ \E p \in Changing : PanelChanges(p)
  BY <1>7, <1>10 DEF HandlerTriggers, StartTriggered, PanelChanges, aggVars, linkVars
<1> QED
  BY <1>4, <1>5, <1>6, <1>7, <1>8, <1>9, <1>10 DEF Refreshing, WorkOn

LEMMA RequestShares ==
  ASSUME RefreshInv, SubTypeOK, VisitsHold, OneConnection, FlightsShared, NEW q \in Resolvers,
         Resolve(q) \/ HangsUp(q)
  PROVE  FlightsShared'
<1> USE DEF Is, To, GoesOn, visitVars
<1>1. q \in Callers /\ OthersVisit(q)
  BY OthersKeep, ResolversAssumption DEF Requests, OthersVisit
<1>2. CASE FetchOrJoin(q)
  <2>1. qclient[q] \in HeldNow /\ UNCHANGED qclient
    BY <1>2 DEF FetchOrJoin, VisitsHold, AskingPlaces, HeldNow
  <2>2. CASE Lead(q, qclient[q]) /\ GoesOn(q, "fetch")
    BY <1>1, <2>1, <2>2, LeadShares DEF SubTypeOK
  <2>3. CASE Join(q, qclient[q]) /\ GoesOn(q, "wait")
    BY <1>1, <2>1, <2>3, JoinShares DEF SubTypeOK
  <2> QED
    BY <1>2, <2>2, <2>3 DEF FetchOrJoin
<1>3. CASE PanelAnswers(q)
  BY <1>1, <1>3, FetchShares DEF PanelAnswers, subVars
<1>4. CASE FetchEnds(q)
  BY <1>1, <1>4, FinishShares DEF FetchEnds
<1>5. CASE FetchArrives(q)
  <2>1. calls[q] = None
    BY <1>5 DEF FetchArrives, FlightsShared
  <2> QED
    BY <1>1, <1>5, <2>1, LeaveShares DEF FetchArrives
<1>6. ASSUME UNCHANGED <<calls, waits, landed>>, qpc[q] \notin {"fetch", "wait"}
      PROVE  FlightsShared'
  BY <1>1, <1>6, StillShared DEF OthersVisit
<1>7. CASE ListServers(q) \/ LookupOK(q) \/ LookupFails(q) \/ SubConnectOK(q) \/ SubConnectFails(q)
  BY <1>6, <1>7 DEF ListServers, LookupOK, LookupFails, SubConnectOK, SubConnectFails, Lookup, Connect,
     Observe, ObserveAs, Drop, aggVars, linkVars
<1>8. CASE \/ LoadSnapshot(q) \/ ReadEpoch(q) \/ Decide(q) \/ GetHits(q) \/ GetMisses(q)
           \/ Discover(q) \/ DiscoverStale(q) \/ DiscoveryReturns(q) \/ DiscoveryEnds(q)
           \/ DiscoveryArrives(q) \/ HangsUp(q) \/ FetchHits(q) \/ AnswerRequest(q)
  BY <1>6, <1>8 DEF LoadSnapshot, ReadEpoch, Decide, GetHits, GetMisses, Discover, DiscoverStale,
     DiscoveryReturns, DiscoveryEnds, DiscoveryArrives, HangsUp, FetchHits, AnswerRequest, vars, aggVars, linkVars
<1> QED
  BY <1>2, <1>3, <1>4, <1>5, <1>7, <1>8 DEF Resolve

LEMMA FlightsStep ==
  ASSUME RefreshInv, SubTypeOK, VisitsHold, OneConnection, FlightsShared, [SubNext]_allVars
  PROVE  FlightsShared'
<1>1. CASE UNCHANGED allVars
  BY <1>1, StillShared DEF allVars, vars, aggVars, linkVars, subVars, visitVars
<1> QED
  BY <1>1, RefreshShares, RequestShares DEF SubNext

-----------------------------------------------------------------------------
(* Discovery flights.  What a request learns from the flight it waits for   *)
(* is true of the row it listed itself.                                     *)

DiscoveriesTrue ==
  /\ \A d \in discoveries : d.flight \in Resolvers /\ Is(d.flight, "dfetch") /\ d.client = qclient[d.flight]
  /\ \A q \in Resolvers :
       /\ found[q] # "none" => Is(q, "dfetch") \/ Is(q, "dwait")
       /\ found[q] = "absent" => qclient[q] \in lacked
       /\ joined[q] # None <=> Is(q, "dwait")
       /\ joined[q] # None /\ found[q] = "none" =>
            /\ joined[q] \in Resolvers
            /\ Is(joined[q], "dfetch")
            /\ qclient[joined[q]] = qclient[q]

LEMMA StillTrue ==
  ASSUME SubTypeOK, DiscoveriesTrue, UNCHANGED flyVars, lacked \subseteq lacked',
         \A x \in Resolvers : \/ qpc'[x] = qpc[x] /\ qclient'[x] = qclient[x]
                              \/ qpc[x] \notin {"dfetch", "dwait"} /\ qpc'[x] \notin {"dfetch", "dwait"}
  PROVE  DiscoveriesTrue'
BY DEF DiscoveriesTrue, Is, flyVars, SubTypeOK

LEMMA DiscoverIsTrue ==
  ASSUME SubTypeOK, VisitsHold, OneConnection, DiscoveriesTrue, NEW q \in Resolvers, Discover(q),
         lacked \subseteq lacked'
  PROVE  DiscoveriesTrue'
<1> USE DEF Is, To, GoesOn, visitVars
<1>1. UNCHANGED <<qclient, found>> /\ Is(q, "discover")
  BY DEF Discover
<1>2. CASE /\ discoveries' = discoveries \cup {[client |-> qclient[q], flight |-> q]}
           /\ GoesOn(q, "dfetch")
           /\ UNCHANGED joined
  BY <1>1, <1>2 DEF DiscoveriesTrue, SubTypeOK
<1>3. CASE /\ \E d \in DiscoveryOf(qclient[q]) : joined' = [joined EXCEPT ![q] = d.flight]
           /\ GoesOn(q, "dwait")
           /\ UNCHANGED discoveries
  <2>1. PICK d \in DiscoveryOf(qclient[q]) : joined' = [joined EXCEPT ![q] = d.flight]
    BY <1>3
  <2>2. d \in discoveries /\ d.client.server = qclient[q].server /\ d.client.epoch = qclient[q].epoch
    BY <2>1 DEF DiscoveryOf
  <2>3. d.flight \in Resolvers /\ Is(d.flight, "dfetch") /\ d.client = qclient[d.flight]
    BY <2>2 DEF DiscoveriesTrue
  <2>4. d.client = qclient[q]
    <3>1. d.client \in HeldNow /\ qclient[q] \in HeldNow
      BY <1>1, <2>3 DEF HeldNow, VisitsHold, AskingPlaces
    <3> QED
      BY <2>2, <3>1 DEF OneConnection
  <2>5. d.flight # None /\ d.flight # q
    BY <1>1, <2>3, ResolversAssumption
  <2>6. /\ joined'[q] = d.flight /\ \A x \in Resolvers \ {q} : joined'[x] = joined[x]
        /\ qpc'[q] = "dwait" /\ \A x \in Resolvers \ {q} : qpc'[x] = qpc[x]
        /\ UNCHANGED discoveries
    BY <1>3, <2>1 DEF SubTypeOK
  <2>7. found[q] = "none"
    BY <1>1 DEF DiscoveriesTrue
  <2>8. \A e \in discoveries : e.flight \in Resolvers /\ Is(e.flight, "dfetch")' /\ e.client = qclient'[e.flight]
    BY <1>1, <2>6 DEF DiscoveriesTrue
  <2>9. ASSUME NEW x \in Resolvers \ {q}
        PROVE  joined'[x] # None /\ found'[x] = "none" =>
                 joined'[x] \in Resolvers /\ qpc'[joined'[x]] = "dfetch" /\ qclient'[joined'[x]] = qclient'[x]
    BY <1>1, <2>6 DEF DiscoveriesTrue
  <2>10. ASSUME NEW x \in Resolvers \ {q}
         PROVE  /\ found'[x] # "none" => qpc'[x] \in {"dfetch", "dwait"}
                /\ found'[x] = "absent" => qclient'[x] \in lacked'
                /\ joined'[x] # None <=> qpc'[x] = "dwait"
    BY <1>1, <2>6 DEF DiscoveriesTrue
  <2>11. /\ found'[q] = "none" /\ joined'[q] # None /\ joined'[q] \in Resolvers
         /\ qpc'[joined'[q]] = "dfetch" /\ qclient'[joined'[q]] = qclient'[q]
    BY <1>1, <2>3, <2>4, <2>5, <2>6, <2>7
  <2>12. \A x \in Resolvers : x = q \/ x \in Resolvers \ {q}
    OBVIOUS
  <2> QED
    BY <2>6, <2>8, <2>9, <2>10, <2>11, <2>12 DEF DiscoveriesTrue
<1> QED
  BY <1>2, <1>3 DEF Discover

LEMMA ReturnIsTrue ==
  ASSUME SubTypeOK, VisitsHold, Watched, DiscoveriesTrue, NEW q \in Resolvers, DiscoveryReturns(q),
         lacked \subseteq lacked'
  PROVE  DiscoveriesTrue'
<1>1. PICK v \in Discovered(qclient[q]) : found' = [found EXCEPT ![q] = v]
  BY DEF DiscoveryReturns
<1>2. v = "absent" => qclient[q] \in lacked
  <2> DEFINE c == qclient[q]
  <2>1. c \in ClientRecords
    BY DEF DiscoveryReturns, Is, VisitsHold, AskingPlaces, StillHeld
  <2>2. v = "absent" => clients[c.server] = c /\ c.rev \notin holders /\ c.server \in Servers /\ c # None
    BY <1>1, <2>1 DEF Discovered, Lists, ClientRecords
  <2> HIDE DEF c
  <2>3. v = "absent" => c \in lacked
    BY <2>2 DEF Watched, Lacking
  <2> QED
    BY <2>3 DEF c
<1>3. Is(q, "dfetch") /\ UNCHANGED <<qpc, qclient, discoveries, joined>>
  BY DEF DiscoveryReturns, visitVars
<1>4. joined[q] = None
  BY <1>3 DEF DiscoveriesTrue, Is
<1> QED
  BY <1>1, <1>2, <1>3, <1>4 DEF DiscoveriesTrue, Is, SubTypeOK

LEMMA EndIsTrue ==
  ASSUME SubTypeOK, VisitsHold, DiscoveriesTrue, NEW q \in Resolvers, DiscoveryEnds(q),
         lacked \subseteq lacked'
  PROVE  DiscoveriesTrue'
<1>1. /\ Is(q, "dfetch") /\ found[q] # "none"
      /\ found' = [x \in Resolvers |-> IF x = q THEN "none"
                                       ELSE IF x \in Woken(q) THEN found[q] ELSE found[x]]
      /\ discoveries' = {d \in discoveries : d.flight # q}
      /\ UNCHANGED joined
  BY DEF DiscoveryEnds
<1>2. qpc'[q] \notin {"dfetch", "dwait"}
  BY DEF DiscoveryEnds, Continue, Visited, GoesOn, To, SubTypeOK
<1>3. \A x \in Resolvers \ {q} : qpc'[x] = qpc[x] /\ qclient'[x] = qclient[x]
  BY OthersKeep DEF Resolve
<1>4. \A x \in Resolvers \ {q} : x \in Woken(q) => joined[x] = q /\ found[x] = "none" /\ qclient[q] = qclient[x]
  BY ResolversAssumption DEF Woken, DiscoveriesTrue
<1>5. \A x \in Resolvers \ {q} : x \notin Woken(q) => joined[x] # q \/ found[x] # "none"
  BY DEF Woken
<1>6. joined[q] = None
  BY <1>1 DEF DiscoveriesTrue, Is
<1>7. ASSUME NEW x \in Resolvers \ {q}
      PROVE  /\ found'[x] # "none" => Is(x, "dfetch")' \/ Is(x, "dwait")'
             /\ found'[x] = "absent" => qclient'[x] \in lacked'
             /\ joined'[x] # None <=> Is(x, "dwait")'
             /\ joined'[x] # None /\ found'[x] = "none" =>
                  /\ joined'[x] \in Resolvers
                  /\ Is(joined[x], "dfetch")'
                  /\ qclient'[joined'[x]] = qclient'[x]
  <2>1. CASE x \in Woken(q)
    <3>1. found'[x] = found[q] /\ joined[x] # None
      BY <1>1, <1>4, <2>1, ResolversAssumption
    <3> QED
      BY <1>1, <1>3, <1>4, <2>1, <3>1 DEF DiscoveriesTrue, Is
  <2>2. CASE x \notin Woken(q)
    <3>1. found'[x] = found[x] /\ joined'[x] = joined[x]
      BY <1>1, <2>2
    <3> QED
      BY <1>3, <1>5, <2>2, <3>1 DEF DiscoveriesTrue, Is
  <2> QED
    BY <2>1, <2>2
<1>8. \A d \in discoveries' : d.flight \in Resolvers /\ Is(d.flight, "dfetch")' /\ d.client = qclient'[d.flight]
  BY <1>1, <1>3 DEF DiscoveriesTrue, Is
<1>9. found'[q] = "none" /\ joined'[q] = None /\ ~Is(q, "dwait")'
  BY <1>1, <1>2, <1>6 DEF Is
<1> QED
  BY <1>7, <1>8, <1>9 DEF DiscoveriesTrue, Is

LEMMA ArrivalIsTrue ==
  ASSUME SubTypeOK, VisitsHold, DiscoveriesTrue, NEW q \in Resolvers, DiscoveryArrives(q) \/ HangsUp(q),
         lacked \subseteq lacked'
  PROVE  DiscoveriesTrue'
<1>1. /\ Is(q, "dwait") /\ UNCHANGED discoveries
      /\ joined' = [joined EXCEPT ![q] = None] /\ found' = [found EXCEPT ![q] = "none"]
  BY DEF DiscoveryArrives, HangsUp
<1>2. qpc'[q] \notin {"dfetch", "dwait"}
  BY DEF DiscoveryArrives, HangsUp, Continue, Visited, GoesOn, To, SubTypeOK
<1>3. \A x \in Resolvers \ {q} : qpc'[x] = qpc[x] /\ qclient'[x] = qclient[x]
  BY OthersKeep DEF Resolve
<1>4. /\ joined'[q] = None /\ found'[q] = "none"
      /\ \A x \in Resolvers \ {q} : joined'[x] = joined[x] /\ found'[x] = found[x]
  BY <1>1 DEF SubTypeOK
<1> QED
  BY <1>1, <1>2, <1>3, <1>4 DEF DiscoveriesTrue, Is

LEMMA DiscoveriesStep ==
  ASSUME SubTypeOK, VisitsHold, OneConnection, Watched, DiscoveriesTrue, [SubNext]_allVars
  PROVE  DiscoveriesTrue'
<1>4. lacked \subseteq lacked'
  BY LackedGrows
<1>1. CASE UNCHANGED subVars
  BY <1>1, <1>4, StillTrue DEF subVars, visitVars
<1>2. ASSUME NEW q \in Resolvers, Resolve(q),
             ~ (Discover(q) \/ DiscoveryReturns(q) \/ DiscoveryEnds(q) \/ DiscoveryArrives(q))
      PROVE  DiscoveriesTrue'
  <2> USE DEF Is, To, GoesOn, Visited, SubTypeOK
  <2>1. UNCHANGED flyVars /\ qpc[q] \notin {"dfetch", "dwait"} /\ qpc'[q] \notin {"dfetch", "dwait"}
    <3>1. CASE ListServers(q) \/ LoadSnapshot(q) \/ AnswerRequest(q) \/ LookupOK(q) \/ ReadEpoch(q)
      BY <3>1 DEF ListServers, LoadSnapshot, AnswerRequest, LookupOK, ReadEpoch
    <3>2. CASE LookupFails(q) \/ Decide(q) \/ GetHits(q) \/ GetMisses(q)
      BY <3>2 DEF LookupFails, Decide, GetHits, GetMisses
    <3>3. CASE SubConnectOK(q) \/ SubConnectFails(q) \/ DiscoverStale(q)
      BY <3>3 DEF SubConnectOK, SubConnectFails, DiscoverStale
    <3>4. CASE FetchHits(q) \/ FetchOrJoin(q) \/ PanelAnswers(q) \/ FetchEnds(q) \/ FetchArrives(q)
      BY <3>4 DEF FetchHits, FetchOrJoin, PanelAnswers, FetchEnds, FetchArrives, subVars
    <3> QED
      BY <1>2, <3>1, <3>2, <3>3, <3>4 DEF Resolve
  <2>2. \A x \in Resolvers \ {q} : qpc'[x] = qpc[x] /\ qclient'[x] = qclient[x]
    BY <1>2, OthersKeep
  <2> QED
    BY <1>4, <2>1, <2>2, StillTrue
<1>3. ASSUME NEW q \in Resolvers, Resolve(q) \/ HangsUp(q)
      PROVE  DiscoveriesTrue'
  BY <1>2, <1>3, <1>4, DiscoverIsTrue, ReturnIsTrue, EndIsTrue, ArrivalIsTrue
<1> QED
  BY <1>1, <1>3 DEF SubNext, allVars

-----------------------------------------------------------------------------
(* Answers.  A visit ends with the links of the listed row, with a failure, *)
(* or because the panel of that row had none, as the history knows.         *)

\* The panel of the row a request lists for server s had no links, in an epoch
\* that is no earlier than e.
Lacked(q, s, e) == \E c \in lacked : c.server = s /\ c.rev = qlist[q][s] /\ c.epoch >= e

AnswerHolds(q) ==
  /\ Is(q, "list") => qlist[q] = Nothing /\ todo[q] = {}
  /\ \A s \in Servers : links[q][s] \in {None, qlist[q][s]}
  /\ \A s \in Servers :
       qlist[q][s] # None /\ s \notin todo[q] /\ links[q][s] = None /\ ~failed[q] => Lacked(q, s, 0)
  /\ outcome[q] # "none" => Is(q, "answered") /\ todo[q] = {}
  /\ outcome[q] \in {"links", "notfound"} => ~failed[q]

AnswersHold == \A q \in Resolvers : AnswerHolds(q)

LEMMA GivenIsListed ==
  ASSUME RefreshInv, SubTypeOK, VisitsHold, FlightsShared, NEW q \in Resolvers, todo[q] # {},
         NEW v \in Given(q)
  PROVE  /\ v \in {None, qlist[q][Server(q)]}
         /\ v = None => qpc[q] \notin {"get", "join"}
<1> DEFINE c == qclient[q]
<1>1. c # None => StillHeld(Server(q), c) /\ c.rev = qlist[q][Server(q)]
  BY DEF VisitsHold
<1>2. CASE qpc[q] \in {"get", "join"} /\ v \in CachedLinks(q)
  <2>1. c # None /\ v \in ValuesAt(KeyOf(c))
    BY <1>2 DEF CachedLinks
  <2>2. PICK e \in store : e.key = KeyOf(c) /\ v = e.val
    BY <2>1 DEF ValuesAt
  <2>3. e.key.server = Server(q) /\ e.key.epoch = c.epoch
    BY <1>1, <2>1, <2>2 DEF KeyOf, StillHeld
  <2>4. c.epoch = epochs[Server(q)] /\ v = observed[Server(q)] /\ v \in Revs
    BY <2>2, <2>3 DEF RefreshInv, CacheInv, CacheFenced, StoreTypes
  <2>5. clients[Server(q)] = c
    BY <1>1, <2>1, <2>4 DEF StillHeld
  <2>6. c.rev = observed[Server(q)]
    BY <1>1, <2>1, <2>5, LeastVisited DEF RefreshInv, CacheInv, ConnInv
  <2> QED
    BY <1>1, <2>1, <2>4, <2>6
<1>3. CASE Is(q, "fetch") /\ calls[q] # None /\ calls[q].answer # Pending /\ v = calls[q].answer
  <2>1. q \in Callers
    BY ResolversAssumption DEF Requests
  <2>2. calls[q].client = c /\ v \in {None, c.rev}
    BY <1>3, <2>1 DEF FlightsShared, RefreshInv, CacheInv, CallsHeld
  <2>3. c # None
    BY <1>3 DEF VisitsHold, AskingPlaces, Is
  <2> QED
    BY <1>1, <1>3, <2>2, <2>3 DEF Is
<1>4. CASE \E a \in landed : Is(q, "wait") /\ a.who = q /\ v = a.val
  <2>1. v \in {None, c.rev}
    BY <1>4 DEF FlightsShared
  <2>2. c # None
    BY <1>4 DEF VisitsHold, AskingPlaces, Is
  <2> QED
    BY <1>1, <1>4, <2>1, <2>2 DEF Is
<1> HIDE DEF c
<1> QED
  BY <1>2, <1>3, <1>4 DEF Given

LEMMA DeniedIsLacked ==
  ASSUME RefreshInv, SubTypeOK, VisitsHold, SnapshotsCurrent, EntriesJustified, EpochsHold,
         DiscoveriesTrue, NEW q \in Resolvers, todo[q] # {}, Denied(q)
  PROVE  Lacked(q, Server(q), qepoch[q])
<1>1. Server(q) \in Servers
  BY LeastVisited
<1>2. CASE Is(q, "cached") /\ Absent(q)
  <2> DEFINE e == qsnap[q][Server(q)]
  <2>1. e # None /\ e.inv # None /\ e.epoch \in {0, qepoch[q]} /\ ~e.has
    BY <1>2 DEF Absent, Completed
  <2>2. EntryCurrent(Server(q), e) /\ EntryHolds(q)
    BY <1>1 DEF SnapshotsCurrent, SnapshotHolds
  <2>3. e.epoch = qepoch[q] /\ qepoch[q] \in Nat
    BY <2>1, <2>2 DEF EntryCurrent, SubTypeOK
  <2>4. e.inv = qlist[q][Server(q)]
    BY <1>2, <2>1, <2>2, <2>3 DEF EntryHolds
  <2>5. Client(Server(q), e.inv, e.epoch) \in lacked
    BY <1>1, <2>1 DEF EntriesJustified, EntryJustified
  <2> QED
    BY <2>3, <2>4, <2>5 DEF Lacked
<1>3. CASE qpc[q] \in {"dfetch", "dwait"} /\ found[q] = "absent"
  <2>1. qclient[q] \in lacked /\ qclient[q] # None
    BY <1>3 DEF DiscoveriesTrue, VisitsHold, AskingPlaces
  <2>2. qclient[q].server = Server(q) /\ qclient[q].rev = qlist[q][Server(q)]
    BY <2>1 DEF VisitsHold, StillHeld
  <2>3. qclient[q].epoch >= qepoch[q]
    BY <2>1 DEF EpochsHold, EpochHolds, SubTypeOK, ClientRecords
  <2> QED
    BY <2>1, <2>2, <2>3 DEF Lacked
<1> QED
  BY <1>2, <1>3 DEF Denied, Is

\* Links that came, or the empty list of a panel that had none.
LEMMA ListingIsLacked ==
  ASSUME RefreshInv, SubTypeOK, VisitsHold, FlightsShared, EpochsHold, NEW q \in Resolvers, todo[q] # {},
         NEW v \in Given(q), NEW x \in Listing(q, v)
  PROVE  /\ x \in {None, qlist[q][Server(q)]}
         /\ x = None /\ v # None => Lacked(q, Server(q), qepoch[q])
<1>1. v \in {None, qlist[q][Server(q)]}
  BY GivenIsListed
<1>2. ASSUME x = None, v # None
      PROVE  Lacked(q, Server(q), qepoch[q])
  <2>1. PICK c \in lacked : c.server = Server(q) /\ c.rev = v /\ c.epoch = qclient[q].epoch
    BY <1>2 DEF Listing
  <2>2. qclient[q] # None
    BY <1>2 DEF Given, CachedLinks, VisitsHold, AskingPlaces, Is
  <2>3. qclient[q].epoch >= qepoch[q]
    BY <2>2 DEF EpochsHold, EpochHolds, SubTypeOK, ClientRecords
  <2> QED
    BY <1>1, <1>2, <2>1, <2>3 DEF Lacked
<1> QED
  BY <1>1, <1>2 DEF Listing

\* How a visit of request q ends.
EndsWell(q) ==
  \E v \in Revs \cup {None}, fails \in BOOLEAN :
    /\ Ends(q, v, fails)
    /\ v \in {None, qlist[q][Server(q)]}
    /\ v = None => fails \/ Lacked(q, Server(q), qepoch[q])

LEMMA StepEndsWell ==
  ASSUME RefreshInv, SubTypeOK, VisitsHold, SnapshotsCurrent, EntriesJustified, EpochsHold, FlightsShared,
         DiscoveriesTrue, NEW q \in Resolvers, Resolve(q) \/ HangsUp(q)
  PROVE  Proceeds(q) \/ EndsWell(q)
<1>3. ASSUME NEW x, NEW fails \in BOOLEAN, Ends(q, x, fails), x \in {None, qlist[q][Server(q)]},
             x = None => fails \/ Lacked(q, Server(q), qepoch[q])
      PROVE  EndsWell(q)
  <2>1. x \in Revs \cup {None}
    BY <1>3, LeastVisited DEF Ends, SubTypeOK
  <2> QED
    BY <1>3, <2>1 DEF EndsWell
<1>1. ASSUME NEW fails \in BOOLEAN, Ends(q, None, fails), fails \/ Denied(q)
      PROVE  EndsWell(q)
  <2>1. todo[q] # {}
    BY <1>1 DEF Ends
  <2>2. fails \/ Lacked(q, Server(q), qepoch[q])
    BY <1>1, <2>1, DeniedIsLacked
  <2> QED
    BY <1>1, <2>2, <1>3
<1>2. ASSUME NEW v \in Given(q), NEW fails \in BOOLEAN, NEW x \in Listing(q, v), Ends(q, x, fails),
             v = None => fails \/ qpc[q] \in {"get", "join"}
      PROVE  EndsWell(q)
  <2>1. todo[q] # {}
    BY <1>2 DEF Ends
  <2>2. v = None => fails
    BY <1>2, <2>1, GivenIsListed
  <2>3. /\ x \in {None, qlist[q][Server(q)]}
        /\ x = None /\ v # None => Lacked(q, Server(q), qepoch[q])
    BY <2>1, ListingIsLacked
  <2> QED
    BY <1>2, <1>3, <2>2, <2>3
<1> QED
  BY <1>1, <1>2, ResolveKinds

LEMMA AnswerEnds ==
  ASSUME SubTypeOK, AnswersHold, NEW q \in Resolvers, EndsWell(q), lacked \subseteq lacked'
  PROVE  AnswerHolds(q)'
<1>0. PICK v \in Revs \cup {None}, fails \in BOOLEAN :
        /\ Ends(q, v, fails)
        /\ v \in {None, qlist[q][Server(q)]}
        /\ v = None => fails \/ Lacked(q, Server(q), qepoch[q])
  BY DEF EndsWell
<1>1. /\ qpc'[q] = "visit" /\ qlist'[q] = qlist[q] /\ outcome'[q] = outcome[q]
      /\ todo'[q] = todo[q] \ {Server(q)}
      /\ failed'[q] = (failed[q] \/ fails)
  BY <1>0 DEF Ends, Visited, Fixed, To, SubTypeOK
<1>2. \A s \in Servers : links'[q][s] = IF s = Server(q) THEN v ELSE links[q][s]
  BY <1>0 DEF Ends, Visited, SubTypeOK
<1>3. AnswerHolds(q) /\ outcome'[q] = "none"
  BY <1>0, <1>1 DEF AnswersHold, AnswerHolds, Ends
<1>4. \A s \in Servers : Lacked(q, s, 0) => Lacked(q, s, 0)'
  BY <1>1 DEF Lacked
<1>5. Lacked(q, Server(q), qepoch[q]) => Lacked(q, Server(q), 0)
  BY DEF Lacked, SubTypeOK, ClientRecords
<1>6. ASSUME NEW s \in Servers, qlist'[q][s] # None, s \notin todo'[q], links'[q][s] = None, ~failed'[q]
      PROVE  Lacked(q, s, 0)'
  <2>1. failed[q] \in BOOLEAN /\ ~failed[q] /\ ~fails
    BY <1>1, <1>6 DEF SubTypeOK
  <2>2. CASE s = Server(q)
    BY <1>0, <1>2, <1>4, <1>5, <1>6, <2>1, <2>2
  <2>3. CASE s # Server(q)
    BY <1>1, <1>2, <1>3, <1>4, <1>6, <2>1, <2>3 DEF AnswerHolds
  <2> QED
    BY <2>2, <2>3
<1>7. \A s \in Servers : links'[q][s] \in {None, qlist'[q][s]}
  BY <1>0, <1>1, <1>2, <1>3 DEF AnswerHolds
<1> QED
  BY <1>1, <1>3, <1>6, <1>7 DEF AnswerHolds, Is

LEMMA AnswerProceeds ==
  ASSUME SubTypeOK, VisitsHold, AnswersHold, NEW q \in Resolvers, Proceeds(q), lacked \subseteq lacked'
  PROVE  AnswerHolds(q)'
<1> USE DEF Is, To, GoesOn, Fixed, visitVars
<1>1. AnswerHolds(q)
  BY DEF AnswersHold
<1>9. UNCHANGED qlist => \A s \in Servers : Lacked(q, s, 0) => Lacked(q, s, 0)'
  BY DEF Lacked
<1>2. CASE ListServers(q)
  <2>1. qlist[q] = Nothing /\ todo[q] = {} /\ outcome[q] = "none" /\ UNCHANGED <<links, failed>>
    BY <1>1, <1>2 DEF ListServers, AnswerHolds
  <2>2. \A s \in Servers : links[q][s] = None
    BY <1>1, <2>1 DEF AnswerHolds, Nothing
  <2>3. CASE /\ qlist' = [qlist EXCEPT ![q] = row] /\ UNCHANGED outcome
             /\ todo' = [todo EXCEPT ![q] = {s \in Servers : row[s] # None}]
             /\ To(q, "load")
    <3>1. \A s \in Servers : qlist'[q][s] # None => s \in todo'[q]
      BY <2>3 DEF SubTypeOK
    <3>2. qpc'[q] = "load" /\ outcome'[q] = "none"
      BY <2>1, <2>3 DEF SubTypeOK
    <3> QED
      BY <2>1, <2>2, <3>1, <3>2 DEF AnswerHolds
  <2>4. CASE /\ outcome' = [outcome EXCEPT ![q] = "unavailable"]
             /\ To(q, "answered")
             /\ UNCHANGED <<qlist, todo>>
    <3>1. qpc'[q] = "answered" /\ outcome'[q] = "unavailable"
      BY <2>4 DEF SubTypeOK
    <3> QED
      BY <1>1, <1>9, <2>1, <2>4, <3>1 DEF AnswerHolds
  <2> QED
    BY <1>2, <2>3, <2>4 DEF ListServers
<1>3. CASE AnswerRequest(q)
  <2>1. /\ qpc'[q] = "answered" /\ outcome'[q] = Outcome(q) /\ todo[q] = {}
        /\ UNCHANGED <<qlist, todo, links, failed>>
    BY <1>3 DEF AnswerRequest, SubTypeOK
  <2>2. outcome'[q] \in {"links", "notfound"} => ~failed[q]
    BY <2>1 DEF Outcome
  <2> QED
    BY <1>1, <1>9, <2>1, <2>2 DEF AnswerHolds
<1>4. ASSUME UNCHANGED <<qlist, todo, links, outcome>>, qpc'[q] # "list", qpc[q] # "answered",
             failed'[q] \in BOOLEAN, failed[q] => failed'[q]
      PROVE  AnswerHolds(q)'
  BY <1>1, <1>4, <1>9 DEF AnswerHolds
<1>5. CASE GetMisses(q)
  <2>1. failed[q] \in BOOLEAN /\ Completed(q) \in BOOLEAN /\ Doubtful(q) \in BOOLEAN
    BY DEF SubTypeOK, Completed, Doubtful, SnapshotOK
  <2>2. failed'[q] = (failed[q] \/ (Completed(q) /\ Doubtful(q)))
    BY <1>5 DEF GetMisses, SubTypeOK
  <2> QED
    BY <1>4, <1>5, <2>1, <2>2 DEF GetMisses, SubTypeOK
<1>6. CASE LoadSnapshot(q) \/ LookupOK(q) \/ ReadEpoch(q) \/ SubConnectOK(q)
  BY <1>4, <1>6 DEF LoadSnapshot, LookupOK, ReadEpoch, SubConnectOK, SubTypeOK
<1>7. CASE Decide(q) /\ GoesOn(q, "get")
  BY <1>4, <1>7 DEF Decide, SubTypeOK
<1>8. CASE Asks(q)
  BY <1>4, <1>8 DEF Asks, AskingPlaces, SubTypeOK
<1> QED
  BY <1>2, <1>3, <1>5, <1>6, <1>7, <1>8 DEF Proceeds

LEMMA AnswersStep ==
  ASSUME RefreshInv, SubTypeOK, VisitsHold, SnapshotsCurrent, EntriesJustified, EpochsHold, FlightsShared,
         DiscoveriesTrue, AnswersHold, [SubNext]_allVars
  PROVE  AnswersHold'
<1>1. lacked \subseteq lacked'
  BY LackedGrows
<1>2. CASE UNCHANGED subVars
  <2>1. UNCHANGED <<qpc, qlist, todo, links, failed, outcome>>
    BY <1>2 DEF subVars
  <2>2. \A x \in Resolvers, s \in Servers : Lacked(x, s, 0) => Lacked(x, s, 0)'
    BY <1>1, <2>1 DEF Lacked
  <2> QED
    BY <2>1, <2>2 DEF AnswersHold, AnswerHolds, Is
<1>3. ASSUME NEW q \in Resolvers, Resolve(q) \/ HangsUp(q)
      PROVE  AnswersHold'
  <2>1. ASSUME NEW x \in Resolvers \ {q}
        PROVE  AnswerHolds(x)'
    <3>1. /\ qpc'[x] = qpc[x] /\ qlist'[x] = qlist[x] /\ todo'[x] = todo[x]
          /\ links'[x] = links[x] /\ failed'[x] = failed[x] /\ outcome'[x] = outcome[x]
      BY <1>3, OthersKeep
    <3>2. \A s \in Servers : Lacked(x, s, 0) => Lacked(x, s, 0)'
      BY <1>1, <3>1 DEF Lacked
    <3> QED
      BY <3>1, <3>2 DEF AnswersHold, AnswerHolds, Is
  <2>2. AnswerHolds(q)'
    BY <1>1, <1>3, StepEndsWell, AnswerProceeds, AnswerEnds
  <2> QED
    BY <2>1, <2>2 DEF AnswersHold
<1>4. UNCHANGED subVars \/ \E q \in Resolvers : Resolve(q) \/ HangsUp(q)
  BY DEF SubNext, allVars
<1> QED
  BY <1>2, <1>3, <1>4

-----------------------------------------------------------------------------
(* Types.                                                                    *)

VisitTypes ==
  /\ qpc \in [Resolvers -> Places]
  /\ qlist \in [Resolvers -> [Servers -> Revs \cup {None}]]
  /\ qsnap \in [Resolvers -> [Servers -> Entries \cup {None}]]
  /\ todo \in [Resolvers -> SUBSET Servers]
  /\ qepoch \in [Resolvers -> Nat]
  /\ qclient \in [Resolvers -> ClientRecords \cup {None}]
  /\ discovering \in [Resolvers -> BOOLEAN]
  /\ links \in [Resolvers -> [Servers -> Revs \cup {None}]]
  /\ failed \in [Resolvers -> BOOLEAN]
  /\ outcome \in [Resolvers -> {"none", "links", "partial", "notfound", "unavailable"}]

LEMMA EndTypes ==
  ASSUME SubTypeOK, NEW q \in Resolvers, NEW v \in Revs \cup {None}, NEW fails \in BOOLEAN,
         Ends(q, v, fails)
  PROVE  VisitTypes'
<1> DEFINE s == Server(q)
<1>1. s \in Servers
  BY LeastVisited DEF Ends
<1> HIDE DEF s
<1>2. /\ qpc' = [qpc EXCEPT ![q] = "visit"]
      /\ links' = [links EXCEPT ![q][s] = v]
      /\ failed' = [failed EXCEPT ![q] = @ \/ fails]
      /\ todo' = [todo EXCEPT ![q] = @ \ {s}]
      /\ qepoch' = [qepoch EXCEPT ![q] = 0]
      /\ qclient' = [qclient EXCEPT ![q] = None]
      /\ discovering' = [discovering EXCEPT ![q] = FALSE]
      /\ UNCHANGED <<qlist, qsnap, outcome>>
  BY DEF Ends, Visited, To, Fixed, s
<1>3. links' \in [Resolvers -> [Servers -> Revs \cup {None}]]
  BY <1>1, <1>2 DEF SubTypeOK
<1>4. failed' \in [Resolvers -> BOOLEAN]
  BY <1>2 DEF SubTypeOK
<1> QED
  BY <1>2, <1>3, <1>4 DEF SubTypeOK, VisitTypes, Places

LEMMA ProceedTypes ==
  ASSUME WorkInv, RefreshInv, SubTypeOK, VisitsHold, VisitsHold', NEW q \in Resolvers, Proceeds(q)
  PROVE  VisitTypes'
<1> USE DEF Is, To, GoesOn, Fixed, visitVars, VisitTypes, SubTypeOK, Places
<1>1. CASE ListServers(q)
  <2>1. CASE /\ qlist' = [qlist EXCEPT ![q] = row] /\ To(q, "load") /\ UNCHANGED outcome
             /\ todo' = [todo EXCEPT ![q] = {s \in Servers : row[s] # None}]
    <3>1. row \in [Servers -> Revs \cup {None}]
      BY DEF WorkInv, TypeOK, ConnTypeOK
    <3>2. qlist' \in [Resolvers -> [Servers -> Revs \cup {None}]] /\ todo' \in [Resolvers -> SUBSET Servers]
      BY <2>1, <3>1
    <3>3. qpc' \in [Resolvers -> Places]
      BY <2>1
    <3> QED
      BY <1>1, <2>1, <3>2, <3>3 DEF ListServers
  <2>2. CASE /\ outcome' = [outcome EXCEPT ![q] = "unavailable"] /\ To(q, "answered")
             /\ UNCHANGED <<qlist, todo>>
    <3>1. qpc' \in [Resolvers -> Places]
      BY <2>2
    <3>2. outcome' \in [Resolvers -> {"none", "links", "partial", "notfound", "unavailable"}]
      BY <2>2
    <3> QED
      BY <1>1, <2>2, <3>1, <3>2 DEF ListServers
  <2> QED
    BY <1>1, <2>1, <2>2 DEF ListServers
<1>2. CASE LoadSnapshot(q)
  BY <1>2 DEF LoadSnapshot, WorkInv, TypeOK
<1>3. CASE AnswerRequest(q)
  BY <1>3 DEF AnswerRequest, Outcome
<1>4. CASE LookupOK(q)
  BY <1>4 DEF LookupOK
<1>5. CASE ReadEpoch(q)
  <2>1. epochs[Server(q)] \in Nat
    BY <1>5, LeastVisited DEF ReadEpoch, VisitsHold, Visiting, RefreshInv, CacheInv, ConnInv
  <2> QED
    BY <1>5, <2>1 DEF ReadEpoch
<1>6. CASE GetMisses(q)
  <2>1. failed' \in [Resolvers -> BOOLEAN]
    BY <1>6 DEF GetMisses, Completed, Doubtful, SnapshotOK
  <2> QED
    BY <1>6, <2>1 DEF GetMisses
<1>7. ASSUME NEW c, qclient' = [qclient EXCEPT ![q] = c]
      PROVE  qclient' \in [Resolvers -> ClientRecords \cup {None}]
  <2>1. qclient'[q] = c
    BY <1>7
  <2>2. c = None \/ c \in ClientRecords
    BY <2>1 DEF VisitsHold, StillHeld
  <2> QED
    BY <1>7, <2>2
<1>8. CASE SubConnectOK(q)
  <2>1. qclient' \in [Resolvers -> ClientRecords \cup {None}]
    BY <1>7, <1>8 DEF SubConnectOK
  <2>2. qpc' \in [Resolvers -> Places]
    BY <1>8 DEF SubConnectOK
  <2> QED
    BY <1>8, <2>1, <2>2 DEF SubConnectOK
<1>9. CASE Decide(q) /\ GoesOn(q, "get")
  <2>1. ~Absent(q)
    BY <1>9 DEF Decide, Visited
  <2>2. /\ qclient' = [qclient EXCEPT ![q] = CachedClient(q)]
        /\ discovering' = [discovering EXCEPT ![q] = ~Completed(q)]
        /\ UNCHANGED qepoch
    BY <1>9, <2>1 DEF Decide
  <2>3. qclient' \in [Resolvers -> ClientRecords \cup {None}]
    BY <1>7, <2>2
  <2> QED
    BY <1>9, <2>2, <2>3 DEF Decide
<1>10. CASE Asks(q)
  <2>1. qpc' \in [Resolvers -> Places]
    BY <1>10 DEF Asks, AskingPlaces
  <2> QED
    BY <1>10, <2>1 DEF Asks
<1> QED
  BY <1>1, <1>2, <1>3, <1>4, <1>5, <1>6, <1>8, <1>9, <1>10 DEF Proceeds

LEMMA FlyTypes ==
  ASSUME SubTypeOK, DiscoveriesTrue, NEW q \in Resolvers, Resolve(q) \/ HangsUp(q)
  PROVE  /\ joined' \in [Resolvers -> Resolvers \cup {None}]
         /\ found' \in [Resolvers -> {"none", "present", "absent", "failed"}]
<1> USE DEF SubTypeOK, flyVars, subVars
<1>1. CASE Discover(q)
  BY <1>1 DEF Discover, DiscoveryOf, DiscoveriesTrue
<1>2. CASE DiscoveryReturns(q)
  BY <1>2 DEF DiscoveryReturns, Discovered
<1>3. CASE DiscoveryEnds(q)
  BY <1>3 DEF DiscoveryEnds
<1>4. CASE DiscoveryArrives(q) \/ HangsUp(q)
  BY <1>4 DEF DiscoveryArrives, HangsUp
<1>5. CASE ListServers(q) \/ LoadSnapshot(q) \/ AnswerRequest(q) \/ LookupOK(q) \/ ReadEpoch(q)
  BY <1>5 DEF ListServers, LoadSnapshot, AnswerRequest, LookupOK, ReadEpoch
<1>6. CASE LookupFails(q) \/ Decide(q) \/ GetHits(q) \/ GetMisses(q)
  BY <1>6 DEF LookupFails, Decide, GetHits, GetMisses
<1>7. CASE SubConnectOK(q) \/ SubConnectFails(q) \/ DiscoverStale(q)
  BY <1>7 DEF SubConnectOK, SubConnectFails, DiscoverStale
<1>8. CASE FetchHits(q) \/ FetchOrJoin(q) \/ PanelAnswers(q) \/ FetchEnds(q) \/ FetchArrives(q)
  BY <1>8 DEF FetchHits, FetchOrJoin, PanelAnswers, FetchEnds, FetchArrives
<1> QED
  BY <1>1, <1>2, <1>3, <1>4, <1>5, <1>6, <1>7, <1>8 DEF Resolve

LEMMA SubTypesStep ==
  ASSUME WorkInv, RefreshInv, SubTypeOK, VisitsHold, OneConnection, FlightsShared, DiscoveriesTrue,
         Watched, EpochsHold, [SubNext]_allVars
  PROVE  SubTypeOK'
<1>4. lacked' \subseteq ClientRecords
  <2>1. [ConnNext]_aggVars
    BY SubStepIsConn
  <2>2. \A s \in Servers : clients'[s] # None => clients'[s] \in ClientRecords
    BY <2>1, CacheStep DEF RefreshInv, CacheInv, ConnInv
  <2>3. Lacking' \subseteq ClientRecords
    BY <2>2 DEF Lacking
  <2> QED
    BY <2>3 DEF SubNext, Watch, SubTypeOK, allVars
<1>1. CASE UNCHANGED subVars
  BY <1>1, <1>4 DEF SubTypeOK, Is, subVars, visitVars, flyVars
<1>2. ASSUME NEW q \in Resolvers, Resolve(q) \/ HangsUp(q)
      PROVE  SubTypeOK'
  <2>1. VisitsHold' /\ DiscoveriesTrue'
    BY VisitsStep, DiscoveriesStep
  <2>2. ASSUME NEW v \in Given(q), NEW fails \in BOOLEAN, NEW x \in Listing(q, v), Ends(q, x, fails)
        PROVE  VisitTypes'
    <3>1. todo[q] # {}
      BY <2>2 DEF Ends
    <3>2. x \in {None, qlist[q][Server(q)]} /\ Server(q) \in Servers
      BY <3>1, ListingIsLacked, LeastVisited
    <3>3. x \in Revs \cup {None}
      BY <3>2 DEF SubTypeOK
    <3> QED
      BY <2>2, <3>3, EndTypes
  <2>3. VisitTypes'
    BY <1>2, <2>1, <2>2, ResolveKinds, ProceedTypes, EndTypes
  <2>4. /\ joined' \in [Resolvers -> Resolvers \cup {None}]
        /\ found' \in [Resolvers -> {"none", "present", "absent", "failed"}]
    BY <1>2, FlyTypes
  <2>5. \A x \in Resolvers : found'[x] # "none" => Is(x, "dfetch")' \/ Is(x, "dwait")'
    BY <2>1 DEF DiscoveriesTrue, Is
  <2> QED
    BY <1>4, <2>3, <2>4, <2>5 DEF VisitTypes, SubTypeOK
<1>3. UNCHANGED subVars \/ \E q \in Resolvers : Resolve(q) \/ HangsUp(q)
  BY DEF SubNext, allVars
<1> QED
  BY <1>1, <1>2, <1>3

\* A request uses up faults, and changes nothing else the refresher has.
LEMMA ResolveFaults ==
  ASSUME WorkInv, NEW q \in Resolvers, Resolve(q) \/ HangsUp(q)
  PROVE  faults' \in 0..MaxFaults
<1> USE MaxFaultsAssumption DEF Fault, WorkInv, TypeOK, vars, refreshVars, Fixed
<1>1. CASE ListServers(q) \/ LookupOK(q) \/ LookupFails(q) \/ SubConnectOK(q) \/ SubConnectFails(q)
  <2>1. UNCHANGED faults \/ Fault(1)
    BY <1>1 DEF ListServers, LookupOK, LookupFails, SubConnectOK, SubConnectFails
  <2>2. faults \in 0..MaxFaults
    OBVIOUS
  <2> QED
    BY <2>1, <2>2
<1>2. CASE FetchOrJoin(q) \/ PanelAnswers(q) \/ FetchEnds(q) \/ FetchArrives(q)
  BY <1>2 DEF FetchOrJoin, PanelAnswers, FetchEnds, FetchArrives
<1>3. CASE \/ LoadSnapshot(q) \/ ReadEpoch(q) \/ Decide(q) \/ GetHits(q) \/ GetMisses(q)
           \/ Discover(q) \/ DiscoverStale(q) \/ DiscoveryReturns(q) \/ DiscoveryEnds(q)
           \/ DiscoveryArrives(q) \/ HangsUp(q) \/ FetchHits(q) \/ AnswerRequest(q)
  BY <1>3 DEF LoadSnapshot, ReadEpoch, Decide, GetHits, GetMisses, Discover, DiscoverStale,
     DiscoveryReturns, DiscoveryEnds, DiscoveryArrives, HangsUp, FetchHits, AnswerRequest
<1> QED
  BY <1>1, <1>2, <1>3 DEF Resolve

LEMMA SubKeepsWorkInv ==
  ASSUME WorkInv, RefreshInv, RefreshInv', [SubNext]_allVars
  PROVE  WorkInv'
<1>1. CASE Refreshing \/ UNCHANGED allVars
  <2>1. [Next]_vars
    BY <1>1 DEF Next, allVars
  <2> QED
    BY <2>1, WorkStep
<1>2. ASSUME NEW q \in Resolvers, Resolve(q) \/ HangsUp(q)
      PROVE  WorkInv'
  <2>1. /\ UNCHANGED <<row, created, writes>>
        /\ UNCHANGED <<holders, moves, owed, trigger, pc, listed, alive, refreshMu, at, sc, fetched, has,
                       result, snap>>
    BY <1>2, ResolveKeepsRefresh DEF panelVars, workVars, storageVars
  <2>2. ConnTypeOK' /\ faults' \in 0..MaxFaults
    BY <1>2, ResolveFaults DEF RefreshInv, CacheInv, ConnInv, ConnTypeOK, CallTypes
  <2>3. TypeOK'
    BY <2>1, <2>2 DEF WorkInv, TypeOK
  <2>4. OwedAreWrites' /\ MuIsHeld' /\ WorksOnListed' /\ ResultsShowListed'
    BY <2>1 DEF WorkInv, OwedAreWrites, MuIsHeld, WorksOnListed, ResultsShowListed, Working
  <2> QED
    BY <2>3, <2>4 DEF WorkInv
<1> QED
  BY <1>1, <1>2 DEF SubNext

-----------------------------------------------------------------------------
SubInv ==
  RefreshInv /\ WorkInv /\ SubTypeOK /\ VisitsHold /\ OneConnection /\ SnapshotsCurrent
    /\ Watched /\ ReadJustified /\ EntriesJustified /\ EpochsHold
    /\ FlightsShared /\ DiscoveriesTrue /\ AnswersHold

LEMMA SubInitHolds == SubInit => SubInv
<1> SUFFICES ASSUME SubInit
             PROVE  SubInv
  OBVIOUS
<1> USE DEF SubInit, Is, Nothing
<1>1. RefreshInv /\ WorkInv
  BY RefreshStarts, WorkStarts
<1>2. SubTypeOK
  BY DEF SubTypeOK, Places
<1>3. VisitsHold
  BY DEF VisitsHold, Visiting, AskingPlaces
<1>4. OneConnection
  BY DEF OneConnection, HeldNow, Init, ConnInit
<1>5. SnapshotsCurrent
  BY DEF SnapshotsCurrent, SnapshotHolds, EntryHolds, EntryCurrent
<1>6. FlightsShared
  BY ResolversAssumption DEF FlightsShared, Init, ConnInit, LinkInit, Requests
<1>7. DiscoveriesTrue
  BY DEF DiscoveriesTrue
<1>8. AnswersHold
  BY DEF AnswersHold, AnswerHolds
<1>9. Watched
  BY DEF Watched, Lacking, Init, ConnInit
<1>10. ReadJustified /\ EntriesJustified
  BY DEF ReadJustified, EntriesJustified, EntryJustified, Init
<1>11. EpochsHold
  BY DEF EpochsHold, EpochHolds, Visiting
<1> QED
  BY <1>1, <1>2, <1>3, <1>4, <1>5, <1>6, <1>7, <1>8, <1>9, <1>10, <1>11 DEF SubInv

LEMMA SubStep ==
  ASSUME SubInv, [SubNext]_allVars
  PROVE  SubInv'
<1> USE DEF SubInv
<1>1. RefreshInv' /\ VisitsHold'
  BY SubKeepsRefreshInv, VisitsStep
<1>2. WorkInv' /\ SubTypeOK'
  BY <1>1, SubKeepsWorkInv, SubTypesStep
<1>3. OneConnection'
  BY <1>2, OneConnectionStep
<1>4. SnapshotsCurrent' /\ FlightsShared' /\ DiscoveriesTrue' /\ AnswersHold'
  BY SnapshotsStep, FlightsStep, DiscoveriesStep, AnswersStep
<1>5. Watched' /\ ReadJustified' /\ EntriesJustified' /\ EpochsHold'
  BY WatchedStep, ReadStep, JustifiedStep, EpochsStep
<1> QED
  BY <1>1, <1>2, <1>3, <1>4, <1>5

\* What every request and the refresher rely on together.
THEOREM SubInvariant == SubSpec => []SubInv
BY SubInitHolds, SubStep, PTL DEF SubSpec

\* The types, whatever the requests run into.
THEOREM SubTyping == SubSpec => []SubTypeOK
<1>1. SubInv => SubTypeOK
  BY DEF SubInv
<1> QED
  BY SubInvariant, <1>1, PTL

\* The links of a server in an answer were fetched over a connection to the row
\* that the request had listed, whatever happened to the row while the request
\* looked at snapshot, epochs, cache, discoveries and panel in turn.
THEOREM LinksAreOfListedRow == SubSpec => []LinksOfListedRow
<1>1. SubInv => LinksOfListedRow
  BY DEF SubInv, AnswersHold, AnswerHolds, LinksOfListedRow
<1> QED
  BY SubInvariant, <1>1, PTL

\* A visit ends without links and without a failure only if the panel of the
\* listed row had no links, at some moment, while a connection to that row was open
\* in the epoch the request read or in a later one (completedCurrentInventory,
\* discoverSubscription): never because of another row, or of an older connection.
\* Nothing bounds how long ago that was.
THEOREM AbsenceIsJustified == SubSpec => AbsenceJustified
<1>1. SubInv /\ [SubNext]_allVars =>
        [\A q \in Resolvers, s \in Servers :
           /\ s \in todo[q] /\ s \notin todo'[q]
           /\ links'[q][s] = None /\ ~failed'[q]
           => \E c \in lacked : c.server = s /\ c.rev = qlist[q][s] /\ c.epoch >= qepoch[q]]_allVars
  <2> SUFFICES ASSUME SubInv, [SubNext]_allVars, NEW q \in Resolvers, NEW s \in Servers,
                      s \in todo[q], s \notin todo'[q], links'[q][s] = None, ~failed'[q]
               PROVE  \E c \in lacked : c.server = s /\ c.rev = qlist[q][s] /\ c.epoch >= qepoch[q]
    OBVIOUS
  <2> USE DEF SubInv
  <2>1. Resolve(q) \/ HangsUp(q)
    <3>1. todo' # todo
      OBVIOUS
    <3>2. PICK x \in Resolvers : Resolve(x) \/ HangsUp(x)
      BY <3>1 DEF SubNext, allVars, subVars
    <3>3. x = q
      BY <3>2, OthersKeep
    <3> QED
      BY <3>2, <3>3
  <2>2. ~Proceeds(q)
    <3>1. ListServers(q) => todo[q] = {}
      BY DEF ListServers, AnswersHold, AnswerHolds
    <3>2. Proceeds(q) => ListServers(q) \/ UNCHANGED todo
      BY DEF Proceeds, LoadSnapshot, AnswerRequest, LookupOK, ReadEpoch, GetMisses, SubConnectOK, Decide,
         Asks, GoesOn
    <3> QED
      BY <3>1, <3>2
  <2>3. EndsWell(q)
    BY <2>1, <2>2, StepEndsWell
  <2>4. PICK v \in Revs \cup {None}, fails \in BOOLEAN :
          /\ Ends(q, v, fails)
          /\ v = None => fails \/ Lacked(q, Server(q), qepoch[q])
    BY <2>3 DEF EndsWell
  <2>5. /\ todo'[q] = todo[q] \ {Server(q)} /\ failed'[q] = (failed[q] \/ fails)
        /\ Server(q) \in Servers => links'[q][Server(q)] = v
    BY <2>4 DEF Ends, Visited, SubTypeOK
  <2>6. s = Server(q) /\ v = None /\ ~fails
    BY <2>5 DEF SubTypeOK
  <2> QED
    BY <2>4, <2>6 DEF Lacked
<1> QED
  BY SubInvariant, <1>1, PTL DEF SubSpec, AbsenceJustified

\* "Not found" and an unflagged answer leave a listed server out only if its panel
\* had no links at some moment while a connection to the listed row was open: what a
\* panel had all the time is never missing (resolveSubscriptionServers).
THEOREM FailuresAreFlagged == SubSpec => []FailureIsFlagged
<1>1. SubInv => FailureIsFlagged
  <2> SUFFICES ASSUME SubInv, NEW q \in Resolvers, outcome[q] \in {"links", "notfound"},
                      NEW s \in Servers, qlist[q][s] # None, links[q][s] # qlist[q][s]
               PROVE  \E c \in lacked : c.server = s /\ c.rev = qlist[q][s]
    BY DEF FailureIsFlagged
  <2>1. AnswerHolds(q)
    BY DEF SubInv, AnswersHold
  <2> QED
    BY <2>1 DEF AnswerHolds, Lacked
<1> QED
  BY SubInvariant, <1>1, PTL

\* Requests, too, use the connections and the link cache only as Connections
\* allows, so what is proved there holds of them.
THEOREM RequestsImplementConnections == SubSpec => ImplementsConnections
<1>1. SubInit => ConnInit
  BY DEF SubInit, Init
<1>2. SubInv /\ [SubNext]_allVars => [ConnNext]_aggVars
  BY SubStepIsConn DEF SubInv
<1> QED
  BY SubInvariant, <1>1, <1>2, PTL DEF SubSpec, ConnSpec, ImplementsConnections

\* Whatever requests share, the cache holds only links of open connections.
THEOREM RequestsKeepCacheFenced == SubSpec => []CacheFenced
<1>1. SubInv => CacheFenced
  BY DEF SubInv, RefreshInv, CacheInv
<1> QED
  BY SubInvariant, <1>1, PTL

=============================================================================
