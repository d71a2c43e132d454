-------------------------- MODULE ConnectionsProofs --------------------------
(***************************************************************************)
(* Proofs about Connections for any servers, revisions and callers.        *)
(***************************************************************************)
EXTENDS Connections, FiniteSetTheorems, WellFoundedInduction, TLAPS

USE RevsAssumption, RecordsAssumption, MaxWritesAssumption

-----------------------------------------------------------------------------
(* Ids are naturals, and whoever visits them in order takes the least one.  *)

\* A non-empty set of naturals has a least element.
LEMMA LeastNatural ==
  ASSUME NEW S \in SUBSET Nat, S # {}
  PROVE  \E m \in S : \A n \in S : m <= n
<1> DEFINE F == {0..n : n \in S}
<1>1. F \subseteq FiniteSubsetsOf(Nat) /\ F # {}
  <2>1. \A n \in S : 0..n \in SUBSET Nat /\ IsFiniteSet(0..n)
    BY FS_Interval
  <2> QED
    BY <2>1 DEF FiniteSubsetsOf
<1>2. PICK X \in F : \A Y \in F : <<Y, X>> \notin StrictSubsetOrdering(Nat)
  <2> HIDE DEF F
  <2> QED
    BY <1>1, WFMin, FS_StrictSubsetOrderingWellFounded
<1>3. PICK m \in S : X = 0..m
  BY <1>2
<1>4. ASSUME NEW n \in S, n < m
      PROVE  FALSE
  <2>1. 0..n \subseteq 0..m /\ 0..n # 0..m
    <3>1. m \in 0..m /\ m \notin 0..n
      BY <1>4
    <3> QED
      BY <1>4, <3>1
  <2>2. <<0..n, X>> \in StrictSubsetOrdering(Nat)
    BY <1>3, <2>1 DEF StrictSubsetOrdering
  <2> QED
    BY <1>2, <2>2
<1> QED
  BY <1>4

\* A finite set of naturals has a greatest element, or is empty.
LEMMA GreatestNatural ==
  ASSUME NEW S \in SUBSET Nat, IsFiniteSet(S), S # {}
  PROVE  \E m \in S : \A n \in S : m >= n
<1> DEFINE Bad == {T \in FiniteSubsetsOf(S) : T # {} /\ \A m \in T : \E n \in T : n > m}
<1>1. SUFFICES ASSUME S \in Bad
               PROVE  FALSE
  BY DEF FiniteSubsetsOf
<1>2. PICK X \in Bad : \A Y \in Bad : <<Y, X>> \notin StrictSubsetOrdering(S)
  <2>1. Bad \subseteq FiniteSubsetsOf(S) /\ Bad # {}
    BY <1>1
  <2> HIDE DEF Bad
  <2> QED
    BY <2>1, WFMin, FS_StrictSubsetOrderingWellFounded
<1>3. PICK x \in X : TRUE
  BY <1>2
<1>4. X \in SUBSET S /\ X \in SUBSET Nat /\ IsFiniteSet(X) /\ \A m \in X : \E n \in X : n > m
  BY <1>2 DEF FiniteSubsetsOf
<1> DEFINE Y == X \ {x}
<1>5. Y \in FiniteSubsetsOf(S) /\ <<Y, X>> \in StrictSubsetOrdering(S)
  BY <1>3, <1>4, FS_RemoveElement DEF FiniteSubsetsOf, StrictSubsetOrdering
<1>6. Y # {}
  <2>1. PICK n \in X : n > x
    BY <1>3, <1>4
  <2> QED
    BY <2>1, <1>3, <1>4
<1>7. ASSUME NEW m \in Y
      PROVE  \E n \in Y : n > m
  <2>1. PICK n \in X : n > m
    BY <1>4
  <2>2. PICK k \in X : k > n
    BY <1>4
  <2>3. n \in Nat /\ k \in Nat /\ m \in Nat /\ x \in Nat
    BY <1>3, <1>4
  <2> QED
    BY <2>1, <2>2, <2>3
<1>8. Y \in Bad
  BY <1>5, <1>6, <1>7
<1> QED
  BY <1>2, <1>5, <1>8

LEMMA ImageFinite ==
  ASSUME NEW C, IsFiniteSet(C), NEW f, NEW D, D = {f[c] : c \in C}
  PROVE  IsFiniteSet(D)
<1> DEFINE g == [c \in C |-> f[c]]
<1>1. g \in Surjection(C, D)
  BY DEF Surjection
<1> QED
  BY <1>1, FS_Surjection

-----------------------------------------------------------------------------
(* What holds of the connections alone.                                     *)

ConnTypes ==
  /\ row \in [Servers -> Revs \cup {None}]
  /\ created \subseteq Servers
  /\ writes \in 0..MaxWrites
  /\ epochs \in [Servers -> Nat]
  /\ observed \in [Servers -> Revs \cup {None, Unseen}]
  /\ clients \in [Servers -> ClientRecords \cup {None}]
  /\ \A s \in Servers : clients[s] # None => clients[s].server = s

\* A server has an epoch once it was observed, and no connection before.
UnseenHasNoClient ==
  \A s \in Servers :
    IF observed[s] = Unseen THEN clients[s] = None /\ epochs[s] = 0 ELSE epochs[s] > 0

ConnInv == ConnTypes /\ ClientMatchesRow /\ UnseenHasNoClient

USE DEF ConnTypes, ClientMatchesRow, UnseenHasNoClient, Client, Current

\* How a step changes the connections: the three ways there are.
Connecting(s) ==
  /\ Connectable(s)
  /\ ~Reusable(s)
  /\ ObserveAs(Found({s}), Replaced(s))
  /\ clients' = [clients EXCEPT ![s] = NewClient(s)]

LEMMA ObserveKeepsConn ==
  ASSUME ConnInv, NEW S \in SUBSET Servers, Observe(Found(S)), UNCHANGED storageVars
  PROVE  ConnInv'
BY DEF ConnInv, Observe, ObserveAs, Found, Changed, EpochsAfter, ClientsAfter, storageVars,
       ClientRecords

LEMMA ConnectKeepsConn ==
  ASSUME ConnInv, NEW s \in Servers, Connecting(s), UNCHANGED storageVars
  PROVE  ConnInv'
<1>1. /\ observed' = [x \in Servers |-> IF x = s THEN row[s] ELSE observed[x]]
      /\ row[s] \in Revs \ Unusable
  BY DEF Connecting, ObserveAs, Found, Connectable
<1>2. /\ epochs' \in [Servers -> Nat]
      /\ \A x \in Servers : epochs'[x] >= epochs[x]
      /\ epochs'[s] > 0
      /\ \A x \in Servers \ {s} : epochs'[x] = epochs[x]
  BY DEF Connecting, ObserveAs, Found, EpochsAfter, ConnInv, Replaced, Changed
<1>3. NewClient(s) = [server |-> s, rev |-> row[s], epoch |-> epochs'[s]]
  BY DEF NewClient, Connecting, ObserveAs, EpochsAfter, Found
<1>4. NewClient(s) \in ClientRecords
  BY <1>1, <1>2, <1>3 DEF ClientRecords
<1>5. clients' \in [Servers -> ClientRecords \cup {None}]
  BY <1>4 DEF Connecting, ConnInv
<1> QED
  BY <1>1, <1>2, <1>3, <1>5 DEF ConnInv, Connecting, storageVars

-----------------------------------------------------------------------------
(* What holds of the calls and of the cache.                                *)

\* A connection a caller uses is the open one or belongs to an earlier epoch;
\* an answer is its own.
CallsHeld ==
  \A w \in Callers : calls[w] # None =>
    LET c == calls[w].client IN
    /\ c.epoch <= epochs[c.server]
    /\ c.epoch = epochs[c.server] => Current(c)
    /\ calls[w].answer \in {None, Pending, c.rev}

\* A live flight is led by a caller, for the key of its connection, and once the
\* panel has answered that connection is still the open one.
LiveFlightsLed ==
  \A l \in live :
    LET w == l.flight IN
    /\ w \in Callers
    /\ calls[w] # None
    /\ l = Flying(KeyOf(calls[w].client), w)
    /\ calls[w].answer \notin {None, Pending} => Current(calls[w].client)

CallTypes == calls \in [Callers -> CallRecords \cup {None}]

StoreTypes == \A e \in store : e = Entry(e.key, e.val) /\ e.key.server \in Servers /\ e.val \in Revs

CacheInv == ConnInv /\ CallTypes /\ CallsHeld /\ LiveFlightsLed /\ StoreTypes /\ CacheFenced

USE DEF CallTypes, CallsHeld, LiveFlightsLed, StoreTypes, CacheFenced, Flying, Entry, KeyOf

LEMMA CacheInit == ConnInit => CacheInv
BY DEF ConnInit, CacheInv, ConnInv, LinkInit, ClientRecords

\* A look-up or a new connection drops the keys of the servers it invalidates.
LEMMA InvalidateKeepsCache ==
  ASSUME CacheInv, ConnInv', UNCHANGED <<storageVars, calls>>,
         NEW seen, NEW stale \in SUBSET Servers, ObserveAs(seen, stale),
         DOMAIN seen \subseteq Servers,
         \A s \in Servers \ stale : clients'[s] = clients[s] \/ clients[s] = None,
         \A s \in Servers \ stale : observed[s] # Unseen => observed'[s] = observed[s]
  PROVE  CacheInv'
<1>1. \A s \in Servers : epochs'[s] = IF s \in stale THEN epochs[s] + 1
                                      ELSE IF s \in DOMAIN seen /\ epochs[s] = 0 THEN 1
                                      ELSE epochs[s]
  BY DEF ObserveAs, EpochsAfter
<1>2. /\ store' = {e \in store : e.key.server \notin stale}
      /\ live' = {l \in live : l.key.server \notin stale}
  BY DEF ObserveAs, Drop, Pruned, KeysInUse
<1>3. CallsHeld'
  BY <1>1 DEF CacheInv, ConnInv, CallRecords, ClientRecords
<1>4. LiveFlightsLed'
  BY <1>1, <1>2 DEF CacheInv, ConnInv, CallRecords, ClientRecords
<1>5. CacheFenced' /\ StoreTypes'
  BY <1>1, <1>2 DEF CacheInv, ConnInv
<1> QED
  BY <1>3, <1>4, <1>5 DEF CacheInv

LEMMA LookupKeepsCache ==
  ASSUME CacheInv, NEW S \in SUBSET Servers, Lookup(S)
  PROVE  CacheInv'
<1>1. ConnInv'
  BY ObserveKeepsConn DEF Lookup, CacheInv
<1>2. Changed(Found(S)) \in SUBSET Servers /\ DOMAIN Found(S) = S
  BY DEF Changed, Found
<1>3. \A s \in Servers \ Changed(Found(S)) :
        /\ clients'[s] = clients[s]
        /\ observed[s] # Unseen => observed'[s] = observed[s]
  BY <1>2 DEF Lookup, Observe, ObserveAs, ClientsAfter, Changed, Found
<1> QED
  BY <1>1, <1>2, <1>3, InvalidateKeepsCache DEF Lookup, Observe

LEMMA ConnectKeepsCache ==
  ASSUME CacheInv, NEW s \in Servers, Connect(s)
  PROVE  CacheInv'
<1>1. CASE Reusable(s)
  BY <1>1 DEF Connect, storageVars, connVars, linkVars, CacheInv, ConnInv
<1>2. CASE ~Reusable(s)
  <2>1. Connecting(s) /\ UNCHANGED storageVars
    BY <1>2 DEF Connect, Connecting
  <2>2. ConnInv'
    BY <2>1, ConnectKeepsConn DEF CacheInv
  <2>3. /\ Replaced(s) \in SUBSET Servers
        /\ Replaced(s) = {} => clients[s] = None
        /\ s \notin Replaced(s) => observed[s] \in {Unseen, row[s]}
        /\ DOMAIN Found({s}) \subseteq Servers
    BY <1>2 DEF Replaced, Changed, Found
  <2>4. Replaced(s) \subseteq {s}
    BY DEF Replaced, Changed, Found
  <2>5. \A x \in Servers \ Replaced(s) :
          /\ clients'[x] = clients[x] \/ clients[x] = None
          /\ observed[x] # Unseen => observed'[x] = observed[x]
    BY <2>1, <2>3, <2>4 DEF Connecting, ObserveAs, Found, CacheInv, ConnInv
  <2> QED
    BY <2>1, <2>2, <2>3, <2>5, InvalidateKeepsCache DEF Connect, Connecting
<1> QED
  BY <1>1, <1>2

LEMMA CacheStep ==
  ASSUME CacheInv, [ConnNext]_aggVars
  PROVE  CacheInv'
<1> USE DEF storageVars, connVars
<1>1. CASE UNCHANGED aggVars
  BY <1>1 DEF aggVars, linkVars, CacheInv, ConnInv
<1>2. ASSUME NEW s \in Servers, Write(s)
      PROVE  CacheInv'
  BY <1>2 DEF Write, linkVars, CacheInv, ConnInv
<1>3. ASSUME NEW s \in Servers, Connect(s)
      PROVE  CacheInv'
  BY <1>3, ConnectKeepsCache
<1>4. ASSUME NEW S \in SUBSET Servers, Lookup(S)
      PROVE  CacheInv'
  BY <1>4, LookupKeepsCache
<1>5. ASSUME NEW w \in Callers, NEW c \in ClientRecords, Held(c), Lead(w, c)
      PROVE  CacheInv'
  <2>1. /\ c \in ClientRecords /\ c.epoch <= epochs[c.server]
        /\ c.epoch = epochs[c.server] => Current(c)
        /\ Call(c, Pending) \in CallRecords /\ calls[w] = None
    BY <1>5 DEF Held, ClientRecords, CallRecords, Call, Lead, Free, CacheInv, ConnInv
  <2>2. calls' = [calls EXCEPT ![w] = Call(c, Pending)]
    BY <1>5 DEF Lead
  <2>3. live' = live \cup {Flying(KeyOf(c), w)} /\ store' = store
    BY <1>5 DEF Lead, BeginFlight
  <2>4. ConnInv' /\ CallTypes'
    BY <1>5, <2>1, <2>2 DEF Lead, CacheInv, ConnInv
  <2>5. CallsHeld'
    BY <1>5, <2>1, <2>2 DEF Lead, CacheInv, Call
  <2>6. LiveFlightsLed'
    BY <1>5, <2>1, <2>2, <2>3 DEF Lead, CacheInv, Call
  <2> QED
    BY <1>5, <2>3, <2>4, <2>5, <2>6 DEF CacheInv, Lead
<1>6. ASSUME NEW w \in Callers, NEW c, Join(w, c) \/ Leave(w)
      PROVE  CacheInv'
  BY <1>6 DEF Join, JoinFlight, Leave, LeaveFlight, CacheInv, ConnInv
<1>7. ASSUME NEW w \in Callers, FetchLinks(w)
      PROVE  CacheInv'
  <2>1. PICK v : /\ v = None \/ (v = calls[w].client.rev /\ Current(calls[w].client))
                 /\ calls' = [calls EXCEPT ![w].answer = v]
    BY <1>7 DEF FetchLinks
  <2>2. calls[w] \in CallRecords /\ calls[w].client.rev \in Revs
    BY <1>7 DEF FetchLinks, CacheInv, CallRecords, ClientRecords
  <2>3. /\ CallTypes'
        /\ calls'[w].client = calls[w].client /\ calls'[w].answer = v
        /\ \A x \in Callers \ {w} : calls'[x] = calls[x]
        /\ calls'[w] # None
    BY <2>1, <2>2 DEF CacheInv, CallRecords
  <2> QED
    BY <1>7, <2>1, <2>2, <2>3 DEF FetchLinks, linkVars, CacheInv, ConnInv
<1>8. ASSUME NEW w \in Callers, FinishFlight(w)
      PROVE  CacheInv'
  <2> DEFINE c == calls[w].client
             v == calls[w].answer
  <2>1. /\ calls[w] # None /\ v # Pending /\ c \in ClientRecords
        /\ v \in {None, c.rev} /\ c.rev \in Revs
    BY <1>8 DEF FinishFlight, CacheInv, CallRecords, ClientRecords
  <2>2. calls' = [calls EXCEPT ![w] = None]
    BY <1>8 DEF FinishFlight
  <2>3. live' = live \ {Flying(KeyOf(c), w)}
    BY <1>8 DEF FinishFlight, EndFlight
  <2>4. store' = IF Flying(KeyOf(c), w) \in live /\ v # None
                   THEN {e \in store : e.key # KeyOf(c)} \cup {Entry(KeyOf(c), v)}
                   ELSE store
    BY <1>8 DEF FinishFlight, EndFlight
  <2>5. Flying(KeyOf(c), w) \in live /\ v # None => Current(c)
    BY <2>1 DEF CacheInv
  <2>6. ConnInv' /\ CallTypes' /\ CallsHeld'
    BY <1>8, <2>2 DEF FinishFlight, CacheInv, ConnInv
  <2>7. LiveFlightsLed'
    BY <1>8, <2>2, <2>3 DEF FinishFlight, CacheInv
  <2>8. CacheFenced' /\ StoreTypes'
    BY <1>8, <2>1, <2>4, <2>5 DEF FinishFlight, CacheInv, ConnInv, ClientRecords
  <2> QED
    BY <2>6, <2>7, <2>8 DEF CacheInv
<1>9. ASSUME NEW keys \in SUBSET KeysInUse, Prune(keys)
      PROVE  CacheInv'
  BY <1>9 DEF Prune, Drop, CacheInv, ConnInv
<1>10. \A s \in Servers, r \in Revs \ Unusable : \A e \in 1..epochs[s] :
         Client(s, r, e) \in ClientRecords
  BY DEF ClientRecords, CacheInv, ConnInv
<1> QED
  BY <1>1, <1>2, <1>3, <1>4, <1>5, <1>6, <1>7, <1>8, <1>9, <1>10 DEF ConnNext, CallerStep

-----------------------------------------------------------------------------
(* Theorems.                                                                *)

THEOREM CacheInvariant == ConnSpec => []CacheInv
BY CacheInit, CacheStep, PTL DEF ConnSpec

\* Every variable keeps its type.
THEOREM Typing == ConnSpec => []ConnTypeOK
<1>1. CacheInv => ConnTypeOK
  BY DEF CacheInv, ConnInv, ConnTypeOK
<1> QED
  BY CacheInvariant, <1>1, PTL

\* The open connection always belongs to the row last observed.
THEOREM ClientsMatchRows == ConnSpec => []ClientMatchesRow
<1>1. CacheInv => ClientMatchesRow
  BY DEF CacheInv, ConnInv
<1> QED
  BY CacheInvariant, <1>1, PTL

\* Within an epoch there is one connection.
THEOREM OneClientPerEpoch == ConnSpec => []EpochNamesClient
<1>1. CacheInv => EpochNamesClient
  BY DEF CacheInv, EpochNamesClient
<1> QED
  BY CacheInvariant, <1>1, PTL

\* Links fetched over a replaced connection never are in the cache.
THEOREM LinksAreFenced == ConnSpec => []CacheFenced
<1>1. CacheInv => CacheFenced
  BY DEF CacheInv
<1> QED
  BY CacheInvariant, <1>1, PTL

EpochStep ==
  \A s \in Servers :
    /\ epochs'[s] >= epochs[s]
    /\ clients[s] # None /\ clients'[s] # clients[s] => epochs'[s] > epochs[s]
    /\ observed[s] # Unseen /\ observed'[s] # observed[s] => epochs'[s] > epochs[s]

LEMMA EpochsAdvance ==
  ASSUME CacheInv, [ConnNext]_aggVars
  PROVE  EpochStep
<1> USE DEF EpochStep
<1>1. CASE UNCHANGED connVars
  BY <1>1 DEF CacheInv, ConnInv, connVars
<1>2. ASSUME NEW S \in SUBSET Servers, Lookup(S)
      PROVE  EpochStep
  BY <1>2 DEF Lookup, Observe, ObserveAs, EpochsAfter, ClientsAfter, Changed, Found, CacheInv,
              ConnInv
<1>3. ASSUME NEW s \in Servers, Connect(s), ~Reusable(s)
      PROVE  EpochStep
  <2>1. /\ clients[s] # None => s \in Replaced(s)
        /\ observed[s] \notin {Unseen, row[s]} => s \in Replaced(s)
    BY <1>3 DEF Replaced, Changed, Found
  <2>2. \A x \in Servers : epochs'[x] = IF x \in Replaced(s) THEN epochs[x] + 1
                                        ELSE IF x = s /\ epochs[x] = 0 THEN 1
                                        ELSE epochs[x]
    BY <1>3 DEF Connect, ObserveAs, EpochsAfter, Found
  <2>3. /\ \A x \in Servers \ {s} : clients'[x] = clients[x]
        /\ \A x \in Servers : observed'[x] = IF x = s THEN row[x] ELSE observed[x]
    BY <1>3 DEF Connect, ObserveAs, Found, CacheInv, ConnInv
  <2> QED
    BY <2>1, <2>2, <2>3 DEF CacheInv, ConnInv
<1>4. ASSUME NEW s \in Servers, Connect(s), Reusable(s)
      PROVE  UNCHANGED connVars
  BY <1>4 DEF Connect
<1>5. ASSUME NEW s \in Servers, Write(s)
      PROVE  UNCHANGED connVars
  BY <1>5 DEF Write
<1>6. ASSUME NEW w \in Callers, CallerStep(w)
      PROVE  UNCHANGED connVars
  BY <1>6 DEF CallerStep, Lead, Join, FetchLinks, FinishFlight, Leave
<1>7. ASSUME NEW keys \in SUBSET KeysInUse, Prune(keys)
      PROVE  UNCHANGED connVars
  BY <1>7 DEF Prune
<1>8. CASE UNCHANGED aggVars
  BY <1>8, <1>1 DEF aggVars
<1> HIDE DEF EpochStep
<1> QED
  BY <1>1, <1>2, <1>3, <1>4, <1>5, <1>6, <1>7, <1>8 DEF ConnNext

\* A connection is closed only together with its epoch, and epochs only grow.
THEOREM EpochsOnlyGrow == ConnSpec => EpochsGrow
<1>1. CacheInv /\ [ConnNext]_aggVars =>
        [\A s \in Servers :
           /\ epochs'[s] >= epochs[s]
           /\ clients[s] # None /\ clients'[s] # clients[s] => epochs'[s] > epochs[s]]_aggVars
  BY EpochsAdvance DEF EpochStep
<1> QED
  BY CacheInvariant, <1>1, PTL DEF ConnSpec, EpochsGrow

-----------------------------------------------------------------------------
(* The connections somebody holds.                                          *)

\* A connection that somebody still holds is open or of an earlier epoch.
StillHeld(s, c) ==
  /\ c \in ClientRecords
  /\ c.server = s
  /\ c.epoch <= epochs[s]
  /\ c.epoch = epochs[s] => clients[s] = c

LEMMA HeldStays ==
  ASSUME CacheInv, [ConnNext]_aggVars, NEW s \in Servers, NEW c, StillHeld(s, c)
  PROVE  StillHeld(s, c)'
<1>1. EpochStep /\ CacheInv'
  BY EpochsAdvance, CacheStep
<1> QED
  BY <1>1 DEF EpochStep, StillHeld, CacheInv, ConnInv, ClientRecords

\* A connection stays held, whichever state names it.
LEMMA AllHeldStay ==
  ASSUME CacheInv, [ConnNext]_aggVars
  PROVE  \A s \in Servers : \A c : StillHeld(s, c) =>
           /\ c \in ClientRecords
           /\ c.server = s
           /\ c.epoch <= epochs'[s]
           /\ c.epoch = epochs'[s] => clients'[s] = c
<1> SUFFICES ASSUME NEW s \in Servers, NEW c, StillHeld(s, c)
             PROVE  StillHeld(s, c)'
  BY DEF StillHeld
<1> QED
  BY HeldStays

LEMMA OpenHeld ==
  ASSUME CacheInv, NEW s \in Servers, clients[s] # None
  PROVE  StillHeld(s, clients[s])
BY DEF CacheInv, ConnInv, StillHeld

LEMMA ConnectGives ==
  ASSUME CacheInv, NEW s \in Servers, Connect(s), NEW c, c = Connected(s)
  PROVE  StillHeld(s, c)'
<1>1. CacheInv'
  BY CacheStep DEF ConnNext
<1>2. CASE Reusable(s)
  <2>1. clients[s] # None
    BY <1>2 DEF Reusable
  <2>2. UNCHANGED connVars
    BY <1>2 DEF Connect
  <2> QED
    BY <1>2, <2>1, <2>2, OpenHeld DEF Connected, StillHeld, connVars
<1>3. CASE ~Reusable(s)
  <2>1. c = NewClient(s) /\ clients' = [clients EXCEPT ![s] = c]
    BY <1>3 DEF Connect, Connected
  <2>2. clients'[s] = c /\ c # None
    BY <2>1, <1>1, <1>3 DEF CacheInv, ConnInv, Connect, NewClient, ClientRecords,
       EpochsAfter, Connectable, Found
  <2> QED
    BY <1>1, <2>2 DEF CacheInv, ConnInv, StillHeld
<1> QED
  BY <1>2, <1>3

=============================================================================
