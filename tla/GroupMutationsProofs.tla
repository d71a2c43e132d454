------------------------ MODULE GroupMutationsProofs ------------------------
(***************************************************************************)
(* Proofs about GroupMutations for any servers, panels, groups, inbounds   *)
(* and requests: a repeated attachment creates one record, and, as long as *)
(* each panel is reached by one server only, a mutation that reports       *)
(* success has made it so, and the snapshot shows it.                      *)
(***************************************************************************)
EXTENDS GroupMutations, ConnectionsProofs

USE OpsAssumption, RevsAssumption, RecordsAssumption

-----------------------------------------------------------------------------
(* A mutation changes its own variables only.                               *)

OpPlaces == {"idle", "open", "gate", "connect", "list", "decide", "post", "detach", "await", "confirm",
             "refresh", "read", "publish", "release", "next"}

\* The places where a mutation has a connection, and where it has a gate.
Connecteds == {"list", "decide", "post", "detach", "await", "confirm", "refresh", "read", "publish"}
Gated      == Connecteds \cup {"connect", "release"}

OpTypes ==
  /\ opc \in [Ops -> OpPlaces]
  /\ plan \in [Ops -> PlanRecords \cup {None}]
  /\ conn \in [Ops -> ClientRecords \cup {None}]
  /\ DOMAIN inventory = Ops /\ DOMAIN emails = Ops /\ DOMAIN sent = Ops
  /\ result \in [Ops -> {"none", "ok", "noop", "error"}]
  /\ DOMAIN view = Ops /\ fresh \in [Ops -> BOOLEAN] /\ DOMAIN shown = Servers

\* Somebody else's step leaves mutation x as it is.
OpStays(x) ==
  /\ opc'[x] = opc[x] /\ plan'[x] = plan[x] /\ conn'[x] = conn[x]
  /\ inventory'[x] = inventory[x] /\ emails'[x] = emails[x] /\ sent'[x] = sent[x]
  /\ result'[x] = result[x] /\ view'[x] = view[x] /\ fresh'[x] = fresh[x]

LEMMA OthersStay ==
  ASSUME OpTypes, NEW o \in Ops, Mutate(o), NEW x \in Ops \ {o}
  PROVE  OpStays(x) /\ (x \in orphaned' <=> x \in orphaned)
<1> USE DEF OpTypes, OpStays, To, Ends, snapVars, opVars, panelVars, undoVars
<1>1. CASE Start(o) \/ TakeGate(o) \/ LeaveGate(o) \/ OpenCopy(o) \/ OpenConnection(o)
  BY <1>1 DEF Start, TakeGate, LeaveGate, OpenCopy, OpenConnection
<1>2. CASE ListClients(o) \/ ReadFails(o) \/ DecideNoop(o) \/ DecideAttach(o) \/ DecideDetach(o)
  BY <1>2 DEF ListClients, ReadFails, DecideNoop, DecideAttach, DecideDetach
<1>3. CASE SendAttachment(o) \/ SendDetachment(o) \/ DetachEnds(o) \/ Confirm(o)
  BY <1>3 DEF SendAttachment, SendDetachment, DetachEnds, Confirm
<1>4. CASE PanelAnswers(o) \/ PostFails(o) \/ PostDelayed(o)
  BY <1>4 DEF PanelAnswers, PostFails, PostDelayed, Returns
<1>5. CASE Refresh(o) \/ RefreshReads(o) \/ RefreshEnds(o) \/ RefreshFails(o)
  BY <1>5 DEF Refresh, RefreshReads, RefreshEnds, RefreshFails, Publishes
<1>6. CASE Release(o) \/ Return(o)
  BY <1>6 DEF Release, Return
<1> QED
  BY <1>1, <1>2, <1>3, <1>4, <1>5, <1>6 DEF Mutate, Proceeds

\* What happens to the mutations from outside.
Outside == Elsewhere \/ InboundMutation \/ (\E x \in late : PostArrives(x)) \/ UNCHANGED groupVars

LEMMA OutsideStays ==
  ASSUME Outside
  PROVE  /\ UNCHANGED <<owned, opVars, snapVars>>
         /\ late' \subseteq late /\ orphaned \subseteq orphaned'
         /\ UNCHANGED delays \/ (UNCHANGED late /\ delays' = delays + 1)
<1> USE DEF panelVars, undoVars
<1>1. CASE Elsewhere \/ UNCHANGED groupVars
  BY <1>1 DEF Elsewhere, groupVars
<1>2. CASE InboundMutation
  BY <1>2 DEF InboundMutation, DeleteInbound, CopyTakesBack
<1>3. CASE \E x \in late : PostArrives(x)
  BY <1>3 DEF PostArrives
<1> QED
  BY <1>1, <1>2, <1>3 DEF Outside

LEMMA EveryoneStays ==
  ASSUME OpTypes, Outside, NEW x \in Ops
  PROVE  OpStays(x)
BY OutsideStays DEF opVars, snapVars, OpStays

LEMMA StepIs ==
  ASSUME [GroupNext]_groupVars, ~Outside
  PROVE  \E o \in Ops : Mutate(o)
BY DEF GroupNext, Outside

-----------------------------------------------------------------------------
(* Connections.                                                             *)

ConnHeld(o) ==
  /\ opc[o] # "idle" => plan[o] \in PlanRecords
  /\ opc[o] \in Connecteds => conn[o] # None
  /\ conn[o] # None => opc[o] \in Connecteds \cup {"release", "next"} /\ StillHeld(ServerOf(o), conn[o])
  /\ opc[o] \in {"read", "publish"} =>
       /\ view[o] = [from |-> view[o].from, links |-> view[o].links]
       /\ StillHeld(ServerOf(o), view[o].from)

ConnsHeld == \A o \in Ops : ConnHeld(o)

LEMMA PlanIsTyped ==
  ASSUME NEW p \in PlanRecords
  PROVE  p.server \in Servers /\ p.inbound \in Inbounds /\ Head(p.subs) \in Subs
BY DEF PlanRecords

LEMMA UnfencedIsConn ==
  ASSUME NEW o \in Ops, ServerOf(o) \in Servers, Unfenced(o)
  PROVE  ConnNext \/ UNCHANGED aggVars
BY DEF Unfenced, ConnNext

LEMMA MutateIsConn ==
  ASSUME OpTypes, ConnsHeld, NEW o \in Ops, Mutate(o)
  PROVE  ConnNext \/ UNCHANGED aggVars
<1> USE DEF Is
<1>1. opc[o] # "idle" => ServerOf(o) \in Servers /\ {ServerOf(o)} \in SUBSET Servers
  BY PlanIsTyped DEF ConnsHeld, ConnHeld, ServerOf
<1>2. CASE OpenCopy(o) \/ OpenConnection(o) \/ Refresh(o)
  BY <1>1, <1>2 DEF OpenCopy, OpenConnection, Refresh, ConnNext
<1>3. CASE ReadFails(o) \/ SendAttachment(o) \/ SendDetachment(o) \/ Confirm(o)
  BY <1>1, <1>3, UnfencedIsConn DEF ReadFails, SendAttachment, SendDetachment, Confirm
<1>4. CASE RefreshEnds(o)
  BY <1>1, <1>4 DEF RefreshEnds, Publishes, ConnNext
<1>5. CASE \/ Start(o) \/ TakeGate(o) \/ LeaveGate(o) \/ ListClients(o) \/ DecideNoop(o)
           \/ DecideAttach(o) \/ DecideDetach(o) \/ DetachEnds(o) \/ PanelAnswers(o) \/ PostFails(o)
           \/ PostDelayed(o) \/ RefreshReads(o) \/ RefreshFails(o) \/ Release(o) \/ Return(o)
  BY <1>5 DEF Start, TakeGate, LeaveGate, ListClients, DecideNoop, DecideAttach, DecideDetach,
     DetachEnds, PanelAnswers, PostFails, PostDelayed, Returns, RefreshReads, RefreshFails, Release, Return
<1> QED
  BY <1>2, <1>3, <1>4, <1>5 DEF Mutate, Proceeds

LEMMA GroupIsConn ==
  ASSUME OpTypes, ConnsHeld, [GroupNext]_groupVars
  PROVE  [ConnNext]_aggVars
<1>1. CASE Elsewhere
  <2>1. PICK s \in Servers : Write(s) \/ Lookup({s}) \/ Connect(s)
    BY <1>1 DEF Elsewhere
  <2>2. {s} \in SUBSET Servers
    OBVIOUS
  <2> QED
    BY <2>1, <2>2 DEF ConnNext
<1>2. CASE UNCHANGED groupVars
  BY <1>2 DEF groupVars
<1>3. CASE InboundMutation \/ (\E x \in late : PostArrives(x))
  BY <1>3 DEF InboundMutation, DeleteInbound, CopyTakesBack, PostArrives
<1> QED
  BY <1>1, <1>2, <1>3, MutateIsConn DEF GroupNext

-----------------------------------------------------------------------------
(* The client records of the panels, and the names of new ones.  Nothing is *)
(* said of a name once a record of that name was taken back.                *)

\* Each panel keeps finitely many records, one of an email.
PanelsOK ==
  /\ DOMAIN panel = Panels
  /\ \A p \in Panels :
       /\ IsFiniteSet(panel[p])
       /\ \A c \in panel[p] : IsRecord(c)
       /\ \A c, d \in panel[p] : c.email = d.email => c = d

IsPost(m) == m.panel \in Panels /\ m.sub \in Subs /\ m.inbound \in Inbounds

SameClient(c, d) == c.email = d.email /\ c.sub = d.sub

\* A record of the beginning keeps its email and its group.
StoredStay == \A p \in Panels : \A y \in Stored[p] : \E c \in panel[p] : SameClient(c, y)

\* The email is that of the first name which no record of another group has, and
\* the group had no record in the beginning.
IsNew(p, C, g, e) ==
  /\ \A y \in Stored[p] : y.sub # g
  /\ \E n \in Nat \ {0} :
       /\ e = <<e[1], n>>
       /\ \A j \in 1..(n - 1) : \E d \in C : d.email = <<e[1], j>> /\ d.sub # g

Freed(p, e) == <<p, e[1]>> \in freed

\* So is every record made since, and every record a post under way would make.
AddedInOrder ==
  \A p \in Panels : \A c \in panel[p] :
    \/ \E y \in Stored[p] : y.email = c.email
    \/ Freed(p, c.email) \/ IsNew(p, panel[p], c.sub, c.email)

AsksInOrder(m) ==
  /\ IsPost(m)
  /\ m.kind = "add" => Freed(m.panel, m.email) \/ IsNew(m.panel, panel[m.panel], m.sub, m.email)

PostsInOrder ==
  /\ \A o \in Ops : opc[o] \in {"post", "await"} => AsksInOrder(sent[o])
  /\ \A x \in late : AsksInOrder(x[2])

PanelAt(o) == PanelOf[conn[o].rev]

\* The clients a mutation decides from are still there, but for their inbounds.
InventorySeen ==
  \A o \in Ops : opc[o] = "decide" =>
    /\ IsFiniteSet(inventory[o])
    /\ \A c \in inventory[o] :
         IsRecord(c) /\ (Freed(PanelAt(o), c.email) \/ \E d \in panel[PanelAt(o)] : SameClient(c, d))
    /\ \A y \in Stored[PanelAt(o)] : \E c \in inventory[o] : SameClient(c, y)

RecordsInv ==
  /\ CacheInv /\ OpTypes /\ ConnsHeld /\ PanelsOK
  /\ StoredStay /\ AddedInOrder /\ PostsInOrder /\ InventorySeen

-----------------------------------------------------------------------------
(* New ids, and names that are free.                                       *)

LEMMA NextIdIsNatural ==
  ASSUME PanelsOK, NEW p \in Panels
  PROVE  NextId(p) \in Nat
<1> DEFINE f == [c \in panel[p] |-> c.id]
           D == {f[c] : c \in panel[p]}
           S == {0} \cup D
<1>1. IsFiniteSet(D)
  <2>1. IsFiniteSet(panel[p])
    BY DEF PanelsOK
  <2> HIDE DEF f
  <2> QED
    BY <2>1, ImageFinite
<1>2. S = {0} \cup {c.id : c \in panel[p]} /\ S \in SUBSET Nat
  <2>1. D = {c.id : c \in panel[p]}
    OBVIOUS
  <2>2. \A c \in panel[p] : c.id \in Nat
    BY DEF PanelsOK, IsRecord
  <2> HIDE DEF D
  <2> QED
    BY <2>1, <2>2
<1>3. IsFiniteSet(S)
  BY <1>1, FS_Union, FS_Singleton
<1>4. PICK m \in S : \A n \in S : m >= n
  <2> HIDE DEF S
  <2>1. 0 \in S
    BY <1>2
  <2> QED
    BY <2>1, <1>2, <1>3, GreatestNatural
<1>5. Max(S) \in S
  <2> HIDE DEF S
  <2> QED
    BY <1>4 DEF Max
<1> HIDE DEF S
<1> QED
  BY <1>2, <1>5 DEF NextId

\* The name a new client gets is the first one free in the inventory.
LEMMA FreeEmailIsFirst ==
  ASSUME NEW o \in Ops, IsFiniteSet(inventory[o])
  PROVE  \E n \in Nat \ {0} :
           /\ FreeEmail(o) = <<Base[<<Group(o), Target(o)>>], n>>
           /\ ~Taken(o, n)
           /\ \A j \in 1..(n - 1) : Taken(o, j)
<1> DEFINE C == inventory[o]
           k == Cardinality(C)
           S == {n \in 1..(k + 1) : ~Taken(o, n)}
<1>1. k \in Nat
  BY FS_CardinalityType
<1>2. S # {}
  <2> SUFFICES ASSUME \A n \in 1..(k + 1) : Taken(o, n)
               PROVE  FALSE
    OBVIOUS
  <2> DEFINE f == [n \in 1..(k + 1) |-> CHOOSE c \in C : c.email = <<Base[<<Group(o), Target(o)>>], n>>]
  <2>1. \A n \in 1..(k + 1) : f[n] \in C /\ f[n].email = <<Base[<<Group(o), Target(o)>>], n>>
    <3>1. \A n \in 1..(k + 1) : \E c \in C : c.email = <<Base[<<Group(o), Target(o)>>], n>>
      BY DEF Taken
    <3> QED
      BY <3>1
  <2>2. f \in [1..(k + 1) -> C]
    BY <2>1
  <2>3. IsFiniteSet(1..(k + 1)) /\ Cardinality(1..(k + 1)) = k + 1
    BY <1>1, FS_Interval
  <2> HIDE DEF f
  <2>4. PICK x, y \in 1..(k + 1) : x # y /\ f[x] = f[y]
    <3>1. k < Cardinality(1..(k + 1))
      BY <1>1, <2>3
    <3> HIDE DEF k
    <3> QED
      BY <2>2, <2>3, <3>1, FS_PigeonHole DEF k
  <2> QED
    BY <2>1, <2>4
<1>3. S \in SUBSET Nat
  BY <1>1
<1> DEFINE n == Min(S)
<1>4. n \in 1..(k + 1) /\ ~Taken(o, n) /\ \A j \in 1..(k + 1) : ~Taken(o, j) => n <= j
  <2>1. n \in S /\ \A j \in S : n <= j
    <3> HIDE DEF S
    <3> QED
      BY <1>2, <1>3, LeastNatural DEF Min
  <2> QED
    BY <2>1
<1>5. FreeEmail(o) = <<Base[<<Group(o), Target(o)>>], n>>
  BY DEF FreeEmail
<1> HIDE DEF n, S
<1>6. n \in Nat \ {0} /\ ~Taken(o, n)
  BY <1>4, <1>1
<1>7. ASSUME NEW j \in 1..(n - 1), ~Taken(o, j)
      PROVE  FALSE
  <2>1. j \in 1..(k + 1)
    BY <1>1, <1>4
  <2>2. n <= j
    BY <2>1, <1>4, <1>7
  <2> QED
    BY <2>2, <1>6
<1> QED
  BY <1>5, <1>6, <1>7

LEMMA CanonicalIsOne ==
  ASSUME NEW C, C # {}, \A c \in C : IsRecord(c)
  PROVE  Canonical(C) \in C
<1> DEFINE S == {c.id : c \in C}
<1>1. PICK m \in S : \A n \in S : m <= n
  <2>1. S \in SUBSET Nat /\ S # {}
    BY DEF IsRecord
  <2> HIDE DEF S
  <2> QED
    BY <2>1, LeastNatural
<1> QED
  BY <1>1 DEF Canonical

-----------------------------------------------------------------------------
(* What a post does to a panel.                                             *)

\* No client is lost whose name is not freed, and none of the beginning; a client
\* that was not there is the one m asks for.
PanelKeeps ==
  /\ freed \subseteq freed'
  /\ \A p \in Panels : \A c \in panel[p] :
       \/ \E d \in panel'[p] : SameClient(d, c)
       \/ <<p, c.email[1]>> \in freed' /\ \A y \in Stored[p] : y.email # c.email

KeepsAll == \A p \in Panels : \A c \in panel[p] : \E d \in panel'[p] : SameClient(d, c)

PanelAdds(m) ==
  \A p \in Panels : \A d \in panel'[p] :
    \/ \E c \in panel[p] : SameClient(c, d)
    \/ p = m.panel /\ m.kind = "add" /\ d.email = m.email /\ d.sub = m.sub

LEMMA AddChanges ==
  ASSUME PanelsOK, NEW m, IsPost(m), Executes(m), Accepts(m), m.kind = "add"
  PROVE  /\ PanelsOK' /\ KeepsAll /\ PanelAdds(m)
         /\ \A p \in Panels \ {m.panel} : panel'[p] = panel[p]
         /\ panel'[m.panel] = panel[m.panel] \cup {Record(m.email, m.sub, {m.inbound}, NextId(m.panel))}
<1> DEFINE p == m.panel
           r == Record(m.email, m.sub, {m.inbound}, NextId(p))
<1>1. p \in Panels /\ NextId(p) \in Nat
  BY NextIdIsNatural DEF IsPost
<1>2. DOMAIN panel' = Panels /\ panel'[p] = panel[p] \cup {r} /\ \A q \in Panels \ {p} : panel'[q] = panel[q]
  BY <1>1 DEF PanelsOK, Executes, Changes
<1>3. IsRecord(r) /\ r.email = m.email /\ r.sub = m.sub
  BY <1>1 DEF IsRecord, Record, IsPost
<1>4. \A c \in panel[p] : c.email # r.email
  BY <1>3 DEF Accepts, Named
<1> HIDE DEF r
<1>5. IsFiniteSet(panel'[p])
  BY <1>1, <1>2, FS_AddElement DEF PanelsOK
<1>6. PanelsOK'
  <2>1. \A c \in panel'[p] : IsRecord(c)
    BY <1>1, <1>2, <1>3 DEF PanelsOK
  <2>2. \A c, e \in panel'[p] : c.email = e.email => c = e
    BY <1>1, <1>2, <1>4 DEF PanelsOK
  <2> QED
    BY <1>2, <1>5, <2>1, <2>2 DEF PanelsOK
<1>7. KeepsAll
  BY <1>2 DEF KeepsAll, SameClient
<1>8. PanelAdds(m)
  BY <1>2, <1>3 DEF PanelAdds, SameClient
<1> QED
  BY <1>2, <1>6, <1>7, <1>8 DEF r

LEMMA TurnChanges ==
  ASSUME PanelsOK, NEW m, IsPost(m), Executes(m), Accepts(m), m.kind # "add"
  PROVE  /\ PanelsOK' /\ KeepsAll /\ PanelAdds(m)
         /\ \A p \in Panels \ {m.panel} : panel'[p] = panel[p]
         /\ \E d \in panel[m.panel] :
              /\ Named(m) = {d}
              /\ panel'[m.panel] = (panel[m.panel] \ {d}) \cup {[d EXCEPT !.on = On(m, d)]}
<1> DEFINE p == m.panel
<1>1. PICK d \in panel[p] : d.email = m.email
  BY DEF Accepts, Named
<1>2. p \in Panels /\ Named(m) = {d}
  BY <1>1 DEF PanelsOK, Named, IsPost
<1> DEFINE r == [d EXCEPT !.on = On(m, d)]
<1>3. DOMAIN panel' = Panels /\ panel'[p] = (panel[p] \ {d}) \cup {r} /\ \A q \in Panels \ {p} : panel'[q] = panel[q]
  <2>1. {[c EXCEPT !.on = On(m, c)] : c \in Named(m)} = {r}
    BY <1>2
  <2>2. Changes(m) = (panel[p] \ {d}) \cup {r}
    BY <2>1, <1>2 DEF Changes
  <2> HIDE DEF r
  <2> QED
    BY <1>2, <2>2 DEF PanelsOK, Executes
<1>4. IsRecord(d) /\ IsRecord(r) /\ SameClient(r, d)
  <2>1. IsRecord(d)
    BY <1>1, <1>2 DEF PanelsOK
  <2>2. r = Record(d.email, d.sub, On(m, d), d.id)
    BY <2>1 DEF IsRecord, Record
  <2>3. On(m, d) \subseteq Inbounds
    BY <2>1 DEF On, IsRecord, IsPost
  <2> QED
    BY <2>1, <2>2, <2>3 DEF IsRecord, Record, SameClient
<1> HIDE DEF r
<1>5. IsFiniteSet(panel'[p])
  <2>1. IsFiniteSet(panel[p])
    BY <1>2 DEF PanelsOK
  <2>2. IsFiniteSet(panel[p] \ {d})
    BY <2>1, FS_RemoveElement
  <2>3. IsFiniteSet((panel[p] \ {d}) \cup {r})
    BY <2>2, FS_AddElement
  <2> QED
    BY <1>3, <2>3
<1>6. PanelsOK'
  <2>1. \A c \in panel'[p] : IsRecord(c)
    BY <1>2, <1>3, <1>4 DEF PanelsOK
  <2>2. \A c, e \in panel'[p] : c.email = e.email => c = e
    BY <1>1, <1>2, <1>3, <1>4 DEF PanelsOK, SameClient
  <2> QED
    BY <1>2, <1>3, <1>5, <2>1, <2>2 DEF PanelsOK
<1>7. KeepsAll
  BY <1>3, <1>4 DEF KeepsAll, SameClient
<1>8. PanelAdds(m)
  BY <1>1, <1>3, <1>4 DEF PanelAdds, SameClient
<1> QED
  BY <1>1, <1>2, <1>3, <1>6, <1>7, <1>8 DEF r

LEMMA PostChanges ==
  ASSUME PanelsOK, NEW m, IsPost(m), Executes(m)
  PROVE  PanelsOK' /\ KeepsAll /\ PanelAdds(m)
<1>1. CASE ~Accepts(m)
  <2>1. panel' = panel
    BY <1>1 DEF Executes
  <2> QED
    BY <2>1 DEF PanelsOK, KeepsAll, PanelAdds, SameClient
<1> QED
  BY <1>1, AddChanges, TurnChanges

AddsNone == \A p \in Panels : \A d \in panel'[p] : \E c \in panel[p] : SameClient(c, d)

\* Deleting an inbound leaves every client, on fewer inbounds.
LEMMA DeletionChanges ==
  ASSUME PanelsOK, NEW q \in Panels, NEW i \in Inbounds, DeleteInbound(q, i)
  PROVE  PanelsOK' /\ KeepsAll /\ AddsNone
<1> DEFINE f == [c \in panel[q] |-> [c EXCEPT !.on = @ \ {i}]]
<1>1. /\ DOMAIN panel' = Panels /\ \A p \in Panels \ {q} : panel'[p] = panel[p]
      /\ panel'[q] = {f[c] : c \in panel[q]}
  <2> DEFINE S == {[c EXCEPT !.on = @ \ {i}] : c \in panel[q]}
  <2>1. panel' = [panel EXCEPT ![q] = S]
    BY DEF DeleteInbound
  <2>2. S = {f[c] : c \in panel[q]}
    OBVIOUS
  <2> HIDE DEF S, f
  <2> QED
    BY <2>1, <2>2 DEF PanelsOK
<1>2. \A c \in panel[q] : IsRecord(f[c]) /\ SameClient(f[c], c) /\ SameClient(c, f[c])
  <2> SUFFICES ASSUME NEW c \in panel[q]
               PROVE  IsRecord(f[c]) /\ SameClient(f[c], c) /\ SameClient(c, f[c])
    OBVIOUS
  <2>1. IsRecord(c)
    BY DEF PanelsOK
  <2>2. f[c] = Record(c.email, c.sub, c.on \ {i}, c.id)
    BY <2>1 DEF IsRecord, Record
  <2> QED
    BY <2>1, <2>2 DEF IsRecord, Record, SameClient
<1>3. IsFiniteSet({f[c] : c \in panel[q]})
  <2>1. IsFiniteSet(panel[q])
    BY DEF PanelsOK
  <2> HIDE DEF f
  <2> QED
    BY <2>1, ImageFinite
<1> HIDE DEF f
<1>4. KeepsAll /\ AddsNone
  BY <1>1, <1>2 DEF KeepsAll, AddsNone, SameClient
<1>5. PanelsOK'
  <2>1. \A c \in panel'[q] : IsRecord(c)
    BY <1>1, <1>2
  <2>2. \A c, e \in panel'[q] : c.email = e.email => c = e
    BY <1>1, <1>2 DEF PanelsOK, SameClient
  <2> QED
    BY <1>1, <1>3, <2>1, <2>2 DEF PanelsOK
<1> QED
  BY <1>4, <1>5

\* Taking back a record frees its name.
LEMMA TakeBackChanges ==
  ASSUME PanelsOK, NEW q \in Panels, NEW r \in panel[q], CopyTakesBack(q, r)
  PROVE  PanelsOK' /\ PanelKeeps /\ AddsNone
<1>1. /\ DOMAIN panel' = Panels /\ \A p \in Panels \ {q} : panel'[p] = panel[p]
      /\ panel'[q] = panel[q] \ {r}
      /\ freed' = freed \cup {<<q, r.email[1]>>} /\ \A y \in Stored[q] : y.email # r.email
  BY DEF CopyTakesBack, PanelsOK
<1>2. IsFiniteSet(panel'[q])
  BY <1>1, FS_RemoveElement DEF PanelsOK
<1>3. PanelsOK'
  BY <1>1, <1>2 DEF PanelsOK
<1>4. PanelKeeps /\ AddsNone
  BY <1>1 DEF PanelKeeps, AddsNone, SameClient
<1> QED
  BY <1>3, <1>4

\* The panel changes what it keeps by executing a post.
PanelStep ==
  \/ InboundMutation
  \/ UNCHANGED freed /\ \/ panel' = panel
                        \/ \E o \in Ops : Is(o, "await") /\ Executes(sent[o])
                        \/ \E x \in late : Executes(x[2])

LEMMA PanelSteps ==
  ASSUME [GroupNext]_groupVars
  PROVE  PanelStep
<1> USE DEF PanelStep, panelVars, undoVars, groupVars
<1>1. ASSUME NEW o \in Ops, Mutate(o)
      PROVE  PanelStep
  <2>1. CASE PanelAnswers(o)
    BY <2>1 DEF PanelAnswers
  <2>2. CASE ~PanelAnswers(o)
    BY <1>1, <2>2 DEF Mutate, Proceeds, Start, TakeGate, LeaveGate, OpenCopy, OpenConnection, ListClients,
       ReadFails, DecideNoop, DecideAttach, DecideDetach, SendAttachment, SendDetachment, DetachEnds,
       PostFails, PostDelayed, Confirm, Refresh, RefreshReads, RefreshEnds, RefreshFails, Release, Return
  <2> QED
    BY <2>1, <2>2
<1> QED
  BY <1>1 DEF GroupNext, Elsewhere, PostArrives

\* The names taken before one stay taken, unless one is freed.
LEMMA NewStays ==
  ASSUME PanelKeeps, NEW p \in Panels, NEW g, NEW e, Freed(p, e) \/ IsNew(p, panel[p], g, e)
  PROVE  Freed(p, e)' \/ IsNew(p, panel'[p], g, e)
<1>1. CASE <<p, e[1]>> \in freed'
  BY <1>1 DEF Freed
<1>2. CASE <<p, e[1]>> \notin freed'
  <2>1. IsNew(p, panel[p], g, e)
    BY <1>2 DEF PanelKeeps, Freed
  <2>2. \A d \in panel[p] : \A j : d.email = <<e[1], j>> => \E c \in panel'[p] : SameClient(c, d)
    BY <1>2 DEF PanelKeeps
  <2> QED
    BY <2>1, <2>2 DEF IsNew, SameClient
<1> QED
  BY <1>1, <1>2

\* A client of the beginning is never lost, for none of its emails is taken back.
LEMMA StoredStays ==
  ASSUME StoredStay, PanelKeeps
  PROVE  StoredStay'
<1> SUFFICES ASSUME NEW p \in Panels, NEW y \in Stored[p]
             PROVE  \E d \in panel'[p] : SameClient(d, y)
  BY DEF StoredStay
<1>1. PICK c \in panel[p] : SameClient(c, y)
  BY DEF StoredStay
<1>2. PICK d \in panel'[p] : SameClient(d, c)
  BY <1>1 DEF PanelKeeps, SameClient
<1> QED
  BY <1>1, <1>2 DEF SameClient

LEMMA RecordsStep ==
  ASSUME PanelsOK, StoredStay, AddedInOrder, PostsInOrder, PanelStep
  PROVE  PanelsOK' /\ StoredStay' /\ AddedInOrder' /\ PanelKeeps
<1>1. CASE UNCHANGED freed /\ panel' = panel
  BY <1>1 DEF PanelsOK, StoredStay, AddedInOrder, Freed, PanelKeeps, SameClient
<1>2. ASSUME NEW m, AsksInOrder(m), Executes(m), UNCHANGED freed
      PROVE  PanelsOK' /\ StoredStay' /\ AddedInOrder' /\ PanelKeeps
  <2>1. PanelsOK' /\ KeepsAll /\ PanelAdds(m)
    BY <1>2, PostChanges DEF AsksInOrder
  <2>2. PanelKeeps
    BY <1>2, <2>1 DEF KeepsAll, PanelKeeps
  <2>3. ASSUME NEW p \in Panels, NEW d \in panel'[p]
        PROVE  \/ \E y \in Stored[p] : y.email = d.email
               \/ Freed(p, d.email)' \/ IsNew(p, panel'[p], d.sub, d.email)
    <3>1. \A g, e : Freed(p, e) \/ IsNew(p, panel[p], g, e) => Freed(p, e)' \/ IsNew(p, panel'[p], g, e)
      BY <2>2, NewStays
    <3>2. CASE \E c \in panel[p] : SameClient(c, d)
      BY <3>1, <3>2 DEF AddedInOrder, SameClient
    <3>3. CASE p = m.panel /\ m.kind = "add" /\ d.email = m.email /\ d.sub = m.sub
      BY <1>2, <3>1, <3>3 DEF AsksInOrder
    <3> QED
      BY <2>1, <3>2, <3>3 DEF PanelAdds
  <2> QED
    BY <2>1, <2>2, <2>3, StoredStays DEF AddedInOrder, Freed
<1>3. CASE InboundMutation
  <2>1. PICK p \in Panels : \/ \E i \in Inbounds : DeleteInbound(p, i)
                            \/ \E c \in panel[p] : CopyTakesBack(p, c)
    BY <1>3 DEF InboundMutation
  <2>2. PanelsOK' /\ PanelKeeps /\ AddsNone
    <3>1. ASSUME NEW i \in Inbounds, DeleteInbound(p, i)
          PROVE  PanelsOK' /\ PanelKeeps /\ AddsNone
      BY <3>1, DeletionChanges DEF DeleteInbound, KeepsAll, PanelKeeps
    <3> QED
      BY <2>1, <3>1, TakeBackChanges
  <2>3. ASSUME NEW q \in Panels, NEW d \in panel'[q]
        PROVE  \/ \E y \in Stored[q] : y.email = d.email
               \/ Freed(q, d.email)' \/ IsNew(q, panel'[q], d.sub, d.email)
    <3>1. PICK c \in panel[q] : SameClient(c, d)
      BY <2>2 DEF AddsNone
    <3>2. \A g, e : Freed(q, e) \/ IsNew(q, panel[q], g, e) => Freed(q, e)' \/ IsNew(q, panel'[q], g, e)
      BY <2>2, NewStays
    <3> QED
      BY <3>1, <3>2 DEF AddedInOrder, SameClient
  <2> QED
    BY <2>2, <2>3, StoredStays DEF AddedInOrder, Freed
<1> QED
  BY <1>1, <1>2, <1>3 DEF PanelStep, PostsInOrder, Is

-----------------------------------------------------------------------------
(* A step keeps the types.                                                  *)

LEMMA PlanGoesOn ==
  ASSUME NEW p \in PlanRecords, Len(p.subs) > 1
  PROVE  [p EXCEPT !.subs = Tail(@)] \in PlanRecords
<1>1. p.subs \in Seq(Subs) \ {<<>>}
  BY DEF PlanRecords
<1>2. Tail(p.subs) \in Seq(Subs) /\ Len(Tail(p.subs)) = Len(p.subs) - 1 /\ Len(p.subs) \in Nat
  BY <1>1
<1>3. Tail(p.subs) # <<>>
  <2>1. \A q : q = <<>> => Len(q) = 0
    OBVIOUS
  <2>2. \A m, n : n \in Nat /\ n > 1 /\ m = n - 1 => m # 0
    OBVIOUS
  <2>3. Len(Tail(p.subs)) # 0
    BY <1>2, <2>2
  <2> QED
    BY <2>1, <2>3
<1> QED
  BY <1>2, <1>3 DEF PlanRecords

LEMMA ConnectedIsHeld ==
  ASSUME CacheInv, ConnsHeld, NEW o \in Ops, opc[o] # "idle", Connect(ServerOf(o))
  PROVE  /\ Connected(ServerOf(o)) \in ClientRecords
         /\ \A s, c : s = ServerOf(o) /\ c = Connected(s) => StillHeld(s, c)'
<1>1. ServerOf(o) \in Servers
  BY PlanIsTyped DEF ConnsHeld, ConnHeld, ServerOf
<1>2. ASSUME NEW s \in Servers, s = ServerOf(o), NEW c, c = Connected(s)
      PROVE  StillHeld(s, c)' /\ c \in ClientRecords
  <2>1. Connect(s)
    BY <1>2
  <2>2. StillHeld(s, c)'
    BY <1>2, <2>1, ConnectGives
  <2> QED
    BY <2>2 DEF StillHeld
<1>3. Connected(ServerOf(o)) \in ClientRecords
  BY <1>1, <1>2
<1> QED
  BY <1>1, <1>2, <1>3

LEMMA MutateKeepsTypes ==
  ASSUME CacheInv, OpTypes, ConnsHeld, NEW o \in Ops, Mutate(o)
  PROVE  OpTypes'
<1> USE DEF OpTypes, To, Ends, snapVars, opVars, OpPlaces
<1>1. CASE Start(o)
  <2>1. PICK p \in Plans : plan' = [plan EXCEPT ![o] = p]
    BY <1>1 DEF Start
  <2> QED
    BY <1>1, <2>1, PlansAssumption DEF Start
<1>2. CASE TakeGate(o) \/ LeaveGate(o)
  BY <1>2 DEF TakeGate, LeaveGate
<1>10. CASE OpenCopy(o)
  BY <1>10 DEF OpenCopy
<1>3. CASE OpenConnection(o)
  BY <1>3, ConnectedIsHeld DEF OpenConnection, Is
<1>4. CASE ListClients(o) \/ ReadFails(o) \/ DecideNoop(o) \/ DecideAttach(o) \/ DecideDetach(o)
  BY <1>4 DEF ListClients, ReadFails, DecideNoop, DecideAttach, DecideDetach
<1>5. CASE SendAttachment(o) \/ SendDetachment(o) \/ DetachEnds(o) \/ Confirm(o)
  BY <1>5 DEF SendAttachment, SendDetachment, DetachEnds, Confirm
<1>6. CASE PanelAnswers(o) \/ PostFails(o) \/ PostDelayed(o)
  BY <1>6 DEF PanelAnswers, PostFails, PostDelayed, Returns
<1>7. CASE Refresh(o) \/ RefreshReads(o) \/ RefreshFails(o) \/ Release(o)
  BY <1>7 DEF Refresh, RefreshReads, RefreshFails, Release
<1>8. CASE RefreshEnds(o)
  <2>1. fresh' \in [Ops -> BOOLEAN] /\ DOMAIN shown' = Servers
    BY <1>8 DEF RefreshEnds, Publishes
  <2> QED
    BY <1>8, <2>1 DEF RefreshEnds
<1>9. CASE Return(o)
  <2>1. plan[o] \in PlanRecords
    BY <1>9 DEF Return, Is, ConnsHeld, ConnHeld
  <2>2. plan' \in [Ops -> PlanRecords \cup {None}]
    <3>1. CASE Len(plan[o].subs) > 1 /\ plan' = [plan EXCEPT ![o].subs = Tail(@)]
      BY <2>1, <3>1, PlanGoesOn
    <3> QED
      BY <1>9, <3>1 DEF Return
  <2> QED
    BY <1>9, <2>2 DEF Return
<1> QED
  BY <1>1, <1>2, <1>3, <1>4, <1>5, <1>6, <1>7, <1>8, <1>9, <1>10 DEF Mutate, Proceeds

LEMMA TypesStep ==
  ASSUME CacheInv, OpTypes, ConnsHeld, [GroupNext]_groupVars
  PROVE  OpTypes'
<1>1. CASE Outside
  BY <1>1, OutsideStays DEF opVars, snapVars, OpTypes
<1> QED
  BY <1>1, StepIs, MutateKeepsTypes

LEMMA StayerHolds ==
  ASSUME CacheInv, [ConnNext]_aggVars, NEW x \in Ops, ConnHeld(x), OpStays(x)
  PROVE  ConnHeld(x)'
<1>1. ServerOf(x)' = ServerOf(x) /\ (opc[x] # "idle" => ServerOf(x) \in Servers)
  BY PlanIsTyped DEF ConnHeld, OpStays, ServerOf
<1>2. opc[x] # "idle" => \A c : StillHeld(ServerOf(x), c) => StillHeld(ServerOf(x), c)'
  <2> SUFFICES ASSUME opc[x] # "idle", NEW s \in Servers, s = ServerOf(x), NEW c, StillHeld(s, c)
               PROVE  StillHeld(ServerOf(x), c)'
    BY <1>1
  <2>1. StillHeld(s, c)'
    BY HeldStays
  <2> QED
    BY <2>1, <1>1 DEF StillHeld
<1>3. conn[x] # None => StillHeld(ServerOf(x), conn[x])'
  BY <1>1, <1>2 DEF ConnHeld, OpStays, Connecteds, StillHeld
<1>4. opc[x] \in {"read", "publish"} => StillHeld(ServerOf(x), view[x].from)'
  BY <1>1, <1>2 DEF ConnHeld, OpStays, StillHeld
<1> QED
  BY <1>1, <1>3, <1>4 DEF ConnHeld, OpStays

LEMMA MoverHolds ==
  ASSUME CacheInv, [ConnNext]_aggVars, NEW o \in Ops, ConnHeld(o), opc[o] # "idle",
         plan'[o] = plan[o], conn'[o] = conn[o],
         opc'[o] \in Connecteds => opc[o] \in Connecteds,
         opc[o] \in Connecteds \cup {"release"} => opc'[o] \in Connecteds \cup {"release", "next"},
         opc[o] # "next",
         opc'[o] \in {"read", "publish"} =>
           /\ view'[o] = [from |-> view'[o].from, links |-> view'[o].links]
           /\ StillHeld(ServerOf(o), view[o].from)'
  PROVE  ConnHeld(o)'
<1>1. ServerOf(o)' = ServerOf(o) /\ ServerOf(o) \in Servers
  BY PlanIsTyped DEF ConnHeld, ServerOf
<1>2. \A c : StillHeld(ServerOf(o), c) => StillHeld(ServerOf(o), c)'
  <2> SUFFICES ASSUME NEW s \in Servers, s = ServerOf(o), NEW c, StillHeld(s, c)
               PROVE  StillHeld(ServerOf(o), c)'
    BY <1>1
  <2>1. StillHeld(s, c)'
    BY HeldStays
  <2> QED
    BY <2>1, <1>1 DEF StillHeld
<1>3. conn[o] # None => StillHeld(ServerOf(o), conn[o])'
  BY <1>1, <1>2 DEF ConnHeld, StillHeld
<1> QED
  BY <1>1, <1>3 DEF ConnHeld

LEMMA MutateHolds ==
  ASSUME CacheInv, OpTypes, ConnsHeld, NEW o \in Ops, Mutate(o)
  PROVE  ConnHeld(o)'
<1> USE DEF To, Ends, snapVars, opVars, Is, Connecteds
<1>1. ConnHeld(o) /\ [ConnNext]_aggVars
  BY MutateIsConn DEF ConnsHeld
<1>2. CASE Start(o)
  <2>1. PICK p \in Plans : plan' = [plan EXCEPT ![o] = p]
    BY <1>2 DEF Start
  <2>2. conn[o] = None
    BY <1>1, <1>2 DEF Start, ConnHeld
  <2> QED
    BY <1>2, <2>1, <2>2, PlansAssumption DEF Start, OpTypes, ConnHeld
<1>3. CASE TakeGate(o) \/ LeaveGate(o)
  BY <1>1, <1>3, MoverHolds DEF TakeGate, LeaveGate, OpTypes
<1>4. CASE OpenCopy(o)
  <2>1. CASE opc' = [opc EXCEPT ![o] = "gate"] /\ UNCHANGED plan
    BY <1>1, <1>4, <2>1, MoverHolds DEF OpenCopy, OpTypes
  <2>2. CASE opc' = [opc EXCEPT ![o] = "idle"]
    BY <1>1, <1>4, <2>2 DEF OpenCopy, OpTypes, ConnHeld
  <2> QED
    BY <1>4, <2>1, <2>2 DEF OpenCopy
<1>5. CASE OpenConnection(o)
  <2>1. CASE Connect(ServerOf(o)) /\ conn' = [conn EXCEPT ![o] = Connected(ServerOf(o))] /\ To(o, "list")
    <3>1. \A s, c : s = ServerOf(o) /\ c = Connected(s) => StillHeld(s, c)'
      BY <1>5, <2>1, ConnectedIsHeld DEF OpenConnection
    <3>2. ServerOf(o)' = ServerOf(o) /\ conn'[o] = Connected(ServerOf(o)) /\ opc'[o] = "list" /\ plan'[o] = plan[o]
      BY <1>5, <2>1 DEF OpenConnection, OpTypes, ServerOf
    <3>3. StillHeld(ServerOf(o), conn[o])'
      BY <3>1, <3>2 DEF StillHeld
    <3> QED
      BY <1>1, <1>5, <3>2, <3>3, RecordsAssumption DEF OpenConnection, ConnHeld, StillHeld
  <2>2. CASE opc' = [opc EXCEPT ![o] = "release"] /\ UNCHANGED conn
    BY <1>1, <1>5, <2>2, MoverHolds DEF OpenConnection, OpTypes
  <2> QED
    BY <1>5, <2>1, <2>2 DEF OpenConnection
<1>6. CASE ListClients(o) \/ ReadFails(o) \/ DecideNoop(o) \/ DecideAttach(o) \/ DecideDetach(o)
  <2>1. /\ opc[o] \in {"list", "decide"} /\ opc'[o] \in {"decide", "release", "refresh", "post", "detach"}
        /\ plan'[o] = plan[o] /\ conn'[o] = conn[o]
    BY <1>6 DEF ListClients, ReadFails, DecideNoop, DecideAttach, DecideDetach, Decides, OpTypes
  <2> QED
    BY <1>1, <2>1, MoverHolds
<1>7. CASE SendAttachment(o) \/ SendDetachment(o) \/ DetachEnds(o) \/ Confirm(o)
  BY <1>1, <1>7, MoverHolds DEF SendAttachment, SendDetachment, DetachEnds, Confirm, OpTypes
<1>8. CASE PanelAnswers(o) \/ PostFails(o) \/ PostDelayed(o)
  BY <1>1, <1>8, MoverHolds DEF PanelAnswers, PostFails, PostDelayed, Returns, OpTypes
<1>9. CASE Refresh(o)
  <2>1. \A s, c : s = ServerOf(o) /\ c = Connected(s) => StillHeld(s, c)'
    BY <1>9, ConnectedIsHeld DEF Refresh
  <2>2. /\ ServerOf(o)' = ServerOf(o) /\ plan'[o] = plan[o] /\ opc'[o] = "read" /\ opc[o] = "refresh"
        /\ view'[o] = [from |-> Connected(ServerOf(o)), links |-> {}] /\ conn'[o] = conn[o]
    BY <1>9 DEF Refresh, OpTypes, ServerOf
  <2>3. StillHeld(ServerOf(o), view[o].from)'
    BY <2>1, <2>2 DEF StillHeld
  <2> QED
    BY <1>1, <2>2, <2>3, MoverHolds
<1>10. CASE RefreshReads(o)
  <2>1. /\ ServerOf(o)' = ServerOf(o) /\ plan'[o] = plan[o] /\ opc'[o] = "publish" /\ opc[o] = "read"
        /\ view'[o] = [view[o] EXCEPT !.links = Attachments(PanelOf[view[o].from.rev])]
        /\ conn'[o] = conn[o] /\ UNCHANGED aggVars
    BY <1>10 DEF RefreshReads, OpTypes, ServerOf
  <2>2. view[o] = [from |-> view[o].from, links |-> view[o].links] /\ StillHeld(ServerOf(o), view[o].from)
    BY <1>1, <2>1 DEF ConnHeld
  <2>3. view'[o] = [from |-> view[o].from, links |-> view'[o].links]
    BY <2>1, <2>2
  <2>4. StillHeld(ServerOf(o), view[o].from)'
    BY <2>1, <2>2, <2>3 DEF StillHeld, aggVars, connVars
  <2> QED
    BY <1>1, <2>1, <2>3, <2>4, MoverHolds
<1>11. CASE RefreshEnds(o) \/ RefreshFails(o) \/ Release(o)
  BY <1>1, <1>11, MoverHolds DEF RefreshEnds, RefreshFails, Release, OpTypes
<1>12. CASE Return(o)
  <2>1. conn'[o] = None
    BY <1>12 DEF Return, OpTypes
  <2>2. opc'[o] # "idle" => plan'[o] \in PlanRecords
    BY <1>1, <1>12, PlanGoesOn DEF Return, OpTypes, ConnHeld
  <2>3. opc'[o] \in {"idle", "gate"}
    BY <1>12 DEF Return, OpTypes
  <2> QED
    BY <2>1, <2>2, <2>3 DEF ConnHeld
<1> QED
  BY <1>2, <1>3, <1>4, <1>5, <1>6, <1>7, <1>8, <1>9, <1>10, <1>11, <1>12 DEF Mutate, Proceeds

LEMMA HeldStep ==
  ASSUME CacheInv, OpTypes, ConnsHeld, [GroupNext]_groupVars
  PROVE  ConnsHeld'
<1>1. [ConnNext]_aggVars
  BY GroupIsConn
<1>2. CASE Outside
  BY <1>1, <1>2, EveryoneStays, StayerHolds DEF ConnsHeld
<1>3. ASSUME NEW o \in Ops, Mutate(o)
      PROVE  ConnsHeld'
  BY <1>1, <1>3, MutateHolds, OthersStay, StayerHolds DEF ConnsHeld
<1> QED
  BY <1>2, <1>3, StepIs

-----------------------------------------------------------------------------
(* A step keeps the posts in order, and what the mutations read.            *)

LEMMA PanelAtIsPanel ==
  ASSUME ConnsHeld, NEW o \in Ops, opc[o] \in Connecteds
  PROVE  PanelAt(o) \in Panels /\ ServerOf(o) \in Servers /\ Target(o) \in Inbounds /\ Group(o) \in Subs
<1>1. conn[o] \in ClientRecords /\ plan[o] \in PlanRecords
  BY DEF ConnsHeld, ConnHeld, StillHeld, Connecteds
<1> QED
  BY <1>1, PlanIsTyped, PanelOfAssumption DEF PanelAt, ClientRecords, ServerOf, Target, Group

LEMMA AskStays ==
  ASSUME PanelKeeps, NEW m, AsksInOrder(m)
  PROVE  AsksInOrder(m)'
<1>1. m.panel \in Panels
  BY DEF AsksInOrder, IsPost
<1>2. \A p \in Panels : \A g, e : Freed(p, e) \/ IsNew(p, panel[p], g, e)
        => <<p, e[1]>> \in freed' \/ IsNew(p, panel'[p], g, e)
  BY NewStays DEF Freed
<1> QED
  BY <1>1, <1>2 DEF AsksInOrder, Freed

\* The attachment AttachGroup decides on is in order: nobody of the group is in
\* the inventory, and so nobody was there in the beginning.
LEMMA DecidesInOrder ==
  ASSUME ConnsHeld, InventorySeen, NEW o \in Ops, Is(o, "decide")
  PROVE  AsksInOrder(Attachment(o))
<1>1. PanelAt(o) \in Panels /\ Target(o) \in Inbounds /\ Group(o) \in Subs
  BY PanelAtIsPanel DEF Is, Connecteds
<1>2. CASE Exact(o) # {}
  BY <1>1, <1>2 DEF Attachment, Post, PanelAt, AsksInOrder, IsPost
<1>3. CASE Exact(o) = {}
  <2> DEFINE p == PanelAt(o)
             m == Post("add", p, FreeEmail(o), Group(o), Target(o))
             b == Base[<<Group(o), Target(o)>>]
  <2>1. Attachment(o) = m
    BY <1>3 DEF Attachment, PanelAt
  <2>2. /\ IsFiniteSet(inventory[o])
        /\ \A c \in inventory[o] : c.sub # Group(o) /\ (Freed(p, c.email) \/ \E d \in panel[p] : SameClient(c, d))
        /\ \A y \in Stored[p] : \E c \in inventory[o] : SameClient(c, y)
    BY <1>3 DEF InventorySeen, Exact, Is
  <2>3. \A y \in Stored[p] : y.sub # Group(o)
    BY <2>2 DEF SameClient
  <2>4. PICK n \in Nat \ {0} : /\ FreeEmail(o) = <<b, n>>
                               /\ \A j \in 1..(n - 1) : Taken(o, j)
    BY <2>2, FreeEmailIsFirst
  <2>5. ASSUME NEW j \in 1..(n - 1), ~Freed(p, FreeEmail(o))
        PROVE  \E d \in panel[p] : d.email = <<b, j>> /\ d.sub # Group(o)
    <3>1. PICK c \in inventory[o] : c.email = <<b, j>>
      BY <2>4 DEF Taken
    <3>2. ~Freed(p, c.email)
      BY <2>4, <2>5, <3>1 DEF Freed
    <3> QED
      BY <3>1, <3>2, <2>2 DEF SameClient
  <2> HIDE DEF p, b
  <2>6. Freed(p, FreeEmail(o)) \/ IsNew(p, panel[p], Group(o), FreeEmail(o))
    BY <2>3, <2>4, <2>5 DEF IsNew
  <2> QED
    BY <1>1, <2>1, <2>6 DEF Post, AsksInOrder, IsPost, p
<1> QED
  BY <1>2, <1>3

LEMMA MutateAsks ==
  ASSUME OpTypes, ConnsHeld, InventorySeen, PostsInOrder, PanelKeeps, NEW o \in Ops, Mutate(o)
  PROVE  /\ opc'[o] \in {"post", "await"} => AsksInOrder(sent[o])'
         /\ \A x \in late' : x \in late \/ (opc[o] = "await" /\ x = <<o, sent[o]>>)
<1> USE DEF To, Ends, snapVars, opVars, panelVars, Is, OpTypes
<1>1. CASE DecideAttach(o)
  <2>1. opc[o] = "decide" /\ late' = late
    BY <1>1 DEF DecideAttach, Decides
  <2>2. opc'[o] \in {"post", "await"} => sent'[o] = Attachment(o)
    BY <1>1 DEF DecideAttach
  <2>3. \A m : AsksInOrder(m) => AsksInOrder(m)'
    BY AskStays
  <2> QED
    BY <2>1, <2>2, <2>3, DecidesInOrder DEF AsksInOrder
<1>2. CASE SendDetachment(o)
  <2>1. late' = late
    BY <1>2 DEF SendDetachment
  <2>2. opc'[o] \in {"post", "await"} =>
          \E e : sent'[o] = Post("detach", PanelAt(o), e, Group(o), Target(o))
    BY <1>2 DEF SendDetachment, PanelAt
  <2>3. PanelAt(o) \in Panels /\ Target(o) \in Inbounds /\ Group(o) \in Subs
    BY <1>2, PanelAtIsPanel DEF SendDetachment, Connecteds
  <2>4. ASSUME NEW e, sent'[o] = Post("detach", PanelAt(o), e, Group(o), Target(o))
        PROVE  AsksInOrder(sent[o])'
    <3>1. /\ sent'[o].panel = PanelAt(o) /\ sent'[o].sub = Group(o)
          /\ sent'[o].inbound = Target(o) /\ sent'[o].kind = "detach"
      BY <2>4 DEF Post
    <3> QED
      BY <2>3, <3>1 DEF AsksInOrder, IsPost
  <2> QED
    BY <2>1, <2>2, <2>4
<1>3. CASE SendAttachment(o)
  <2>1. opc[o] = "post" /\ late' = late
    BY <1>3 DEF SendAttachment
  <2>2. opc'[o] \in {"post", "await"} => sent'[o] = sent[o]
    BY <1>3 DEF SendAttachment
  <2>3. \A m : AsksInOrder(m) => AsksInOrder(m)'
    BY AskStays
  <2> QED
    BY <2>1, <2>2, <2>3 DEF AsksInOrder, PostsInOrder
<1>4. CASE Start(o) \/ TakeGate(o) \/ LeaveGate(o) \/ OpenCopy(o) \/ OpenConnection(o) \/ ListClients(o)
  BY <1>4 DEF Start, TakeGate, LeaveGate, OpenCopy, OpenConnection, ListClients
<1>5. CASE ReadFails(o) \/ DecideNoop(o) \/ DecideDetach(o) \/ DetachEnds(o)
  BY <1>5 DEF ReadFails, DecideNoop, DecideDetach, DetachEnds
<1>6. CASE Confirm(o) \/ PanelAnswers(o) \/ PostFails(o) \/ PostDelayed(o)
  <2>1. opc'[o] \notin {"post", "await"}
    BY <1>6 DEF Confirm, PanelAnswers, PostFails, PostDelayed, Returns
  <2>2. opc[o] = "await" \/ late' = late
    BY <1>6 DEF Confirm, PanelAnswers, PostFails, PostDelayed, Returns
  <2>3. late' = late \/ late' = late \cup {<<o, sent[o]>>}
    BY <1>6 DEF Confirm, PanelAnswers, PostFails, PostDelayed, Returns
  <2> QED
    BY <2>1, <2>2, <2>3
<1>7. CASE Refresh(o) \/ RefreshReads(o) \/ RefreshEnds(o) \/ RefreshFails(o) \/ Release(o) \/ Return(o)
  BY <1>7 DEF Refresh, RefreshReads, RefreshEnds, RefreshFails, Release, Return
<1> QED
  BY <1>1, <1>2, <1>3, <1>4, <1>5, <1>6, <1>7 DEF Mutate, Proceeds

LEMMA PostsStep ==
  ASSUME OpTypes, ConnsHeld, InventorySeen, PostsInOrder, PanelKeeps, [GroupNext]_groupVars
  PROVE  PostsInOrder'
<1>1. \A m : AsksInOrder(m) => AsksInOrder(m)'
  BY AskStays
<1>2. \A x \in Ops : OpStays(x) /\ opc'[x] \in {"post", "await"} => AsksInOrder(sent[x])'
  BY <1>1 DEF OpStays, PostsInOrder, AsksInOrder
<1>3. CASE Outside
  <2>1. \A x \in Ops : OpStays(x)
    BY <1>3, EveryoneStays
  <2>2. late' \subseteq late
    BY <1>3, OutsideStays
  <2> QED
    BY <1>1, <1>2, <2>1, <2>2 DEF PostsInOrder
<1>4. ASSUME NEW o \in Ops, Mutate(o)
      PROVE  PostsInOrder'
  <2>1. \A x \in Ops \ {o} : OpStays(x)
    BY <1>4, OthersStay
  <2>2. /\ opc'[o] \in {"post", "await"} => AsksInOrder(sent[o])'
        /\ \A x \in late' : x \in late \/ (opc[o] = "await" /\ x = <<o, sent[o]>>)
    BY <1>4, MutateAsks
  <2>3. \A x \in late' : AsksInOrder(x[2])
    BY <2>2 DEF PostsInOrder
  <2> QED
    BY <1>1, <1>2, <2>1, <2>2, <2>3 DEF PostsInOrder
<1> QED
  BY <1>3, <1>4, StepIs

LEMMA InventoryStep ==
  ASSUME OpTypes, ConnsHeld, PanelsOK, StoredStay, InventorySeen, PanelKeeps, [GroupNext]_groupVars
  PROVE  InventorySeen'
<1> DEFINE Seen(x) == opc[x] = "decide" =>
             /\ IsFiniteSet(inventory[x])
             /\ \A c \in inventory[x] :
                  IsRecord(c) /\ (Freed(PanelAt(x), c.email) \/ \E d \in panel[PanelAt(x)] : SameClient(c, d))
             /\ \A y \in Stored[PanelAt(x)] : \E c \in inventory[x] : SameClient(c, y)
<1>1. \A x \in Ops : Seen(x)
  BY DEF InventorySeen
<1>2. ASSUME NEW x \in Ops, OpStays(x)
      PROVE  Seen(x)'
  <2>1. SUFFICES ASSUME opc[x] = "decide"
                 PROVE  Seen(x)'
    BY <1>2 DEF OpStays
  <2>2. PanelAt(x) \in Panels /\ PanelAt(x)' = PanelAt(x)
    BY <1>2, <2>1, PanelAtIsPanel DEF OpStays, PanelAt, Connecteds
  <2>3. inventory'[x] = inventory[x]
    BY <1>2 DEF OpStays
  <2>4. ASSUME NEW c \in inventory[x]
        PROVE  Freed(PanelAt(x), c.email)' \/ \E d \in panel'[PanelAt(x)] : SameClient(c, d)
    <3>1. CASE Freed(PanelAt(x), c.email)
      BY <2>2, <3>1 DEF Freed, PanelKeeps
    <3>2. ASSUME NEW d \in panel[PanelAt(x)], SameClient(c, d)
          PROVE  Freed(PanelAt(x), c.email)' \/ \E e \in panel'[PanelAt(x)] : SameClient(c, e)
      BY <2>2, <3>2 DEF Freed, PanelKeeps, SameClient
    <3> QED
      BY <1>1, <2>1, <3>1, <3>2
  <2>5. \A y \in Stored[PanelAt(x)] : \E c \in inventory[x] : SameClient(c, y)
    BY <1>1, <2>1
  <2>6. IsFiniteSet(inventory[x]) /\ \A c \in inventory[x] : IsRecord(c)
    BY <1>1, <2>1
  <2> QED
    BY <2>2, <2>3, <2>4, <2>5, <2>6
<1>3. CASE Outside
  BY <1>2, <1>3, EveryoneStays DEF InventorySeen
<1>4. ASSUME NEW o \in Ops, Mutate(o)
      PROVE  InventorySeen'
  <2>1. Seen(o)'
    <3>1. CASE ListClients(o)
      <4>1. /\ inventory'[o] = panel[PanelAt(o)] /\ panel' = panel
            /\ PanelAt(o)' = PanelAt(o) /\ opc[o] = "list"
        BY <3>1 DEF ListClients, OpTypes, PanelAt, panelVars, Is
      <4>2. PanelAt(o) \in Panels
        BY <4>1, PanelAtIsPanel DEF Connecteds
      <4>3. inventory'[o] = panel'[PanelAt(o)']
        BY <4>1
      <4>4. /\ IsFiniteSet(panel[PanelAt(o)])
            /\ \A c \in panel[PanelAt(o)] : IsRecord(c) /\ \E d \in panel[PanelAt(o)] : SameClient(c, d)
            /\ \A y \in Stored[PanelAt(o)] : \E c \in panel[PanelAt(o)] : SameClient(c, y)
        BY <4>2 DEF PanelsOK, StoredStay, SameClient
      <4> QED
        BY <4>1, <4>3, <4>4
    <3>2. CASE ~ListClients(o)
      <4>1. opc'[o] # "decide"
        BY <1>4, <3>2 DEF Mutate, Proceeds, Start, TakeGate, LeaveGate, OpenCopy, OpenConnection,
           ReadFails, DecideNoop, DecideAttach, DecideDetach, Decides, SendAttachment, SendDetachment,
           DetachEnds, PanelAnswers, PostFails, PostDelayed, Returns, Confirm, Refresh, RefreshReads,
           RefreshEnds, RefreshFails, Release, Return, To, Ends, Is, OpTypes
      <4> QED
        BY <4>1
    <3> QED
      BY <3>1, <3>2
  <2>2. \A x \in Ops \ {o} : Seen(x)'
    BY <1>2, <1>4, OthersStay
  <2> HIDE DEF Seen
  <2>3. \A x \in Ops : Seen(x)'
    BY <2>1, <2>2
  <2> QED
    BY <2>3 DEF InventorySeen, Seen
<1> QED
  BY <1>3, <1>4, StepIs

-----------------------------------------------------------------------------
(* A repeated attachment creates one record.                                *)

LEMMA RecordsStart == GroupInit => RecordsInv
<1> SUFFICES ASSUME GroupInit
             PROVE  RecordsInv
  OBVIOUS
<1> USE DEF GroupInit
<1>1. CacheInv
  BY CacheInit
<1>2. OpTypes
  BY DEF OpTypes, OpPlaces
<1>3. ConnsHeld
  BY DEF ConnsHeld, ConnHeld, Connecteds
<1>4. PanelsOK
  BY StoredAssumption DEF PanelsOK
<1>5. StoredStay /\ AddedInOrder
  BY DEF StoredStay, AddedInOrder, SameClient
<1>6. PostsInOrder /\ InventorySeen
  BY DEF PostsInOrder, InventorySeen
<1> QED
  BY <1>1, <1>2, <1>3, <1>4, <1>5, <1>6 DEF RecordsInv

LEMMA RecordsGoOn ==
  ASSUME RecordsInv, [GroupNext]_groupVars
  PROVE  RecordsInv' /\ PanelKeeps /\ [ConnNext]_aggVars
<1> USE DEF RecordsInv
<1>1. [ConnNext]_aggVars
  BY GroupIsConn
<1>2. CacheInv' /\ OpTypes' /\ ConnsHeld'
  BY <1>1, CacheStep, TypesStep, HeldStep
<1>3. PanelsOK' /\ StoredStay' /\ AddedInOrder' /\ PanelKeeps
  BY RecordsStep, PanelSteps
<1>4. PostsInOrder' /\ InventorySeen'
  BY <1>3, PostsStep, InventoryStep
<1> QED
  BY <1>1, <1>2, <1>3, <1>4

\* The records keep their order whatever posts are lost, repeated or late.
THEOREM RecordsInvariant == GroupSpec => []RecordsInv
<1>1. RecordsInv /\ [GroupNext]_groupVars => RecordsInv'
  BY RecordsGoOn
<1> QED
  BY RecordsStart, <1>1, PTL DEF GroupSpec

\* A record made under one name never precedes another of its group: the name
\* after it is taken only when nobody of the group has the one before.
LEMMA NamesDiffer ==
  ASSUME PanelsOK, NEW p \in Panels, NEW c \in panel[p], NEW d \in panel[p],
         IsNew(p, panel[p], c.sub, c.email), IsNew(p, panel[p], d.sub, d.email),
         c.sub = d.sub, c.email[1] = d.email[1]
  PROVE  c = d
<1>1. PICK n \in Nat \ {0} :
        /\ c.email = <<c.email[1], n>>
        /\ \A j \in 1..(n - 1) : \E r \in panel[p] : r.email = <<c.email[1], j>> /\ r.sub # c.sub
  BY DEF IsNew
<1>2. PICK m \in Nat \ {0} :
        /\ d.email = <<d.email[1], m>>
        /\ \A j \in 1..(m - 1) : \E r \in panel[p] : r.email = <<d.email[1], j>> /\ r.sub # d.sub
  BY DEF IsNew
<1>3. \A r \in panel[p] : (r.email = c.email => r = c) /\ (r.email = d.email => r = d)
  BY DEF PanelsOK
<1>4. ~(n < m)
  <2>1. SUFFICES ASSUME n < m
                 PROVE  FALSE
    OBVIOUS
  <2>2. n \in 1..(m - 1)
    BY <2>1
  <2>3. PICK r \in panel[p] : r.email = <<d.email[1], n>> /\ r.sub # d.sub
    BY <1>2, <2>2
  <2> QED
    BY <2>3, <1>1, <1>3
<1>5. ~(m < n)
  <2>1. SUFFICES ASSUME m < n
                 PROVE  FALSE
    OBVIOUS
  <2>2. m \in 1..(n - 1)
    BY <2>1
  <2>3. PICK r \in panel[p] : r.email = <<c.email[1], m>> /\ r.sub # c.sub
    BY <1>1, <2>2
  <2> QED
    BY <2>3, <1>2, <1>3
<1>6. n = m
  BY <1>4, <1>5
<1>7. c.email = d.email
  BY <1>1, <1>2, <1>6
<1> QED
  BY <1>3, <1>7

LEMMA OneRecordOfName == RecordsInv => RetryCreatesOnce
<1> SUFFICES ASSUME RecordsInv, NEW p \in Panels, NEW c \in panel[p], NEW d \in panel[p],
                    c.sub = d.sub, c.email[1] = d.email[1], c # d, ~Freed(p, c.email),
                    \/ ~\E y \in Stored[p] : y.email = c.email
                    \/ ~\E y \in Stored[p] : y.email = d.email
             PROVE  FALSE
  BY DEF RetryCreatesOnce, Freed
<1>1. PanelsOK /\ AddedInOrder /\ StoredStay
  BY DEF RecordsInv
<1>2. \A x \in panel[p] : \A y \in Stored[p] : y.email = x.email => y.sub = x.sub
  <2> SUFFICES ASSUME NEW x \in panel[p], NEW y \in Stored[p], y.email = x.email
               PROVE  y.sub = x.sub
    OBVIOUS
  <2>1. PICK r \in panel[p] : SameClient(r, y)
    BY <1>1 DEF StoredStay
  <2>2. r = x
    BY <1>1, <2>1 DEF PanelsOK, SameClient
  <2> QED
    BY <2>1, <2>2 DEF SameClient
<1>6. ~Freed(p, d.email)
  BY DEF Freed
<1>3. IsNew(p, panel[p], c.sub, c.email) \/ IsNew(p, panel[p], d.sub, d.email)
  BY <1>1, <1>6 DEF AddedInOrder
<1>4. \A y \in Stored[p] : y.sub # c.sub
  BY <1>3 DEF IsNew
<1>5. IsNew(p, panel[p], c.sub, c.email) /\ IsNew(p, panel[p], d.sub, d.email)
  BY <1>1, <1>2, <1>4, <1>6 DEF AddedInOrder
<1> QED
  BY <1>1, <1>5, NamesDiffer

\* AttachGroup: however often it is repeated, and whatever posts are still under
\* way, a group has one record under the name of an inbound, but for those it had,
\* and unless a copy of an inbound took back a record of that name.
THEOREM OneRecordPerName == GroupSpec => []RetryCreatesOnce
BY RecordsInvariant, OneRecordOfName, PTL

-----------------------------------------------------------------------------
(* Success.  Two servers with the same address and token are two gates for  *)
(* one panel; nothing in storage forbids them.  What follows assumes that a *)
(* panel is only ever reached by one server, Site[panel].                   *)

OneServer(Site) == \A s \in Servers : row[s] # None => Site[PanelOf[row[s]]] = s

\* The gates of the mutations that have one are their own.
GatesExclude ==
  /\ \A o \in Ops : opc[o] \in Gated => <<o, GateOf(o)>> \in owned
  /\ \A o, x \in Ops : opc[o] \in Gated /\ opc[x] \in Gated /\ GateOf(o) = GateOf(x) => o = x

\* A post is late only if it was counted.
LateCounted == delays \in Nat /\ (delays = 0 => late = {})

\* A connection leads to a panel of the server it was opened for.
Leads(o, Site) ==
  /\ conn[o] # None => Site[PanelAt(o)] = ServerOf(o)
  /\ opc[o] = "release" /\ result[o] # "error" => conn[o] # None

\* The records of the group on that panel.
Own(o)      == {c \in panel[PanelAt(o)] : c.sub = Group(o)}
HasOwn(o)   == \E c \in Own(o) : Target(o) \in c.on
IsOwn(e, o) == \E c \in Own(o) : c.email = e
Detaches(o) == plan[o].kind = "detach"

\* A mutation posts changes of its own group and inbound.
AsksOwn(o) ==
  /\ opc[o] = "detach" => Detaches(o)
  /\ opc[o] = "post" => ~Detaches(o)
  /\ opc[o] \in {"post", "await"} =>
       /\ sent[o].panel = PanelAt(o) /\ sent[o].sub = Group(o) /\ sent[o].inbound = Target(o)
       /\ sent[o].kind = "detach" <=> Detaches(o)

\* The clients it has read and names in its posts are records of the group.
Concerns(o) ==
  /\ opc[o] = "decide" => \A c \in Exact(o) : IsOwn(c.email, o)
  /\ opc[o] \in {"post", "await"} /\ sent[o].kind # "add" => IsOwn(sent[o].email, o)
  /\ opc[o] \in {"detach", "await", "confirm"} /\ Detaches(o) => \A e \in emails[o] : IsOwn(e, o)

\* The group is on the inbound, or the inbound was deleted.
HasOrLost(o) == HasOwn(o) \/ o \in orphaned

\* Unless it fails, it has read every record on its inbound, what it still has to
\* detach is on its list, and what it reports is so.
Settles(o) ==
  /\ opc[o] = "decide" =>
       /\ \A c \in Own(o) : Target(o) \in c.on => \E d \in Attached(o) : d.email = c.email
       /\ Attached(o) # {} => HasOrLost(o)
  /\ result[o] # "error" =>
       /\ opc[o] = "confirm" /\ ~Detaches(o) => HasOrLost(o)
       /\ opc[o] \in {"detach", "await", "confirm"} /\ Detaches(o) =>
            \A c \in Own(o) : Target(o) \in c.on =>
              c.email \in emails[o] \/ (opc[o] = "await" /\ c.email = sent[o].email)
       /\ opc[o] \in {"refresh", "read", "publish", "release"} =>
            IF Detaches(o) THEN ~HasOwn(o) ELSE HasOrLost(o)

MutationsInv(Site) ==
  /\ RecordsInv /\ GatesExclude /\ LateCounted
  /\ \A o \in Ops : Leads(o, Site) /\ AsksOwn(o) /\ (delays = 0 => Concerns(o) /\ Settles(o))

LEMMA MutateActs ==
  ASSUME OpTypes, NEW o \in Ops, Mutate(o)
  PROVE  /\ panel' = panel \/ PanelAnswers(o)
         /\ UNCHANGED <<late, delays>> \/ delays' = delays + 1
         /\ UNCHANGED owned \/ TakeGate(o) \/ Release(o)
         /\ UNCHANGED orphaned \/ Return(o)
<1> USE DEF panelVars, undoVars
<1>1. CASE PanelAnswers(o) \/ PostDelayed(o) \/ TakeGate(o) \/ Release(o)
  BY <1>1 DEF PanelAnswers, PostDelayed, Returns, TakeGate, Release
<1>2. CASE Start(o) \/ LeaveGate(o) \/ OpenCopy(o) \/ OpenConnection(o) \/ ListClients(o) \/ ReadFails(o)
  BY <1>2 DEF Start, LeaveGate, OpenCopy, OpenConnection, ListClients, ReadFails
<1>3. CASE \/ DecideNoop(o) \/ DecideAttach(o) \/ DecideDetach(o) \/ SendAttachment(o) \/ SendDetachment(o)
           \/ DetachEnds(o) \/ PostFails(o) \/ Confirm(o)
  BY <1>3 DEF DecideNoop, DecideAttach, DecideDetach, SendAttachment, SendDetachment, DetachEnds, PostFails,
     Returns, Confirm
<1>4. CASE Refresh(o) \/ RefreshReads(o) \/ RefreshEnds(o) \/ RefreshFails(o) \/ Return(o)
  BY <1>4 DEF Refresh, RefreshReads, RefreshEnds, RefreshFails, Return
<1> QED
  BY <1>1, <1>2, <1>3, <1>4 DEF Mutate, Proceeds

LEMMA LateStep ==
  ASSUME OpTypes, LateCounted, [GroupNext]_groupVars
  PROVE  LateCounted' /\ (delays' = 0 => delays = 0)
<1>1. ASSUME NEW o \in Ops, Mutate(o)
      PROVE  LateCounted' /\ (delays' = 0 => delays = 0)
  BY <1>1, MutateActs DEF LateCounted
<1>2. CASE Outside
  BY <1>2, OutsideStays DEF LateCounted
<1> QED
  BY <1>1, <1>2, StepIs

LEMMA GatesStep ==
  ASSUME OpTypes, GatesExclude, [GroupNext]_groupVars
  PROVE  GatesExclude'
<1> USE DEF GatesExclude
<1>1. CASE Outside
  <2>1. UNCHANGED <<opc, plan, owned>>
    BY <1>1, OutsideStays DEF opVars
  <2> QED
    BY <2>1 DEF GateOf, ServerOf, Group
<1>2. ASSUME NEW o \in Ops, Mutate(o)
      PROVE  GatesExclude'
  <2> USE DEF To, Ends, Is, OpTypes, opVars
  <2>1. \A x \in Ops \ {o} : opc'[x] = opc[x] /\ GateOf(x)' = GateOf(x)
    BY <1>2, OthersStay DEF OpStays, GateOf, ServerOf, Group
  <2>2. CASE TakeGate(o)
    <3>1. GateOf(o)' = GateOf(o) /\ opc' = [opc EXCEPT ![o] = "connect"]
      BY <2>2 DEF TakeGate, GateOf, ServerOf, Group
    <3>2. /\ \A x \in Ops : <<x, GateOf(o)>> \notin owned
          /\ owned' = owned \cup {<<o, GateOf(o)>>}
      BY <2>2 DEF TakeGate, Gate!Acquire
    <3> HIDE DEF GatesExclude
    <3>3. \A x \in Ops \ {o} : opc[x] \in Gated => GateOf(x) # GateOf(o)
      BY <3>2 DEF GatesExclude
    <3>4. \A x \in Ops : opc'[x] \in Gated => <<x, GateOf(x)'>> \in owned'
      BY <2>1, <3>1, <3>2 DEF GatesExclude
    <3>5. \A x, y \in Ops : opc'[x] \in Gated /\ opc'[y] \in Gated /\ GateOf(x)' = GateOf(y)' => x = y
      BY <2>1, <3>1, <3>3 DEF GatesExclude
    <3> QED
      BY <3>4, <3>5 DEF GatesExclude
  <2>3. CASE Release(o)
    <3>1. opc' = [opc EXCEPT ![o] = "next"] /\ owned' = owned \ {<<o, GateOf(o)>>}
      BY <2>3 DEF Release, Gate!Release
    <3>2. opc'[o] \notin Gated
      BY <3>1 DEF Gated, Connecteds
    <3> QED
      BY <2>1, <3>1, <3>2
  <2>4. CASE UNCHANGED owned /\ ~TakeGate(o)
    <3>1. opc'[o] \in Gated => opc[o] \in Gated /\ GateOf(o)' = GateOf(o)
      <4> USE DEF Gated, Connecteds, GateOf, ServerOf, Group
      <4>1. CASE Start(o) \/ LeaveGate(o) \/ OpenCopy(o) \/ OpenConnection(o) \/ ListClients(o) \/ ReadFails(o)
        BY <4>1 DEF Start, LeaveGate, OpenCopy, OpenConnection, ListClients, ReadFails
      <4>2. CASE DecideNoop(o) \/ DecideAttach(o) \/ DecideDetach(o) \/ SendAttachment(o)
        BY <4>2 DEF DecideNoop, DecideAttach, DecideDetach, Decides, SendAttachment
      <4>3. CASE \/ SendDetachment(o) \/ DetachEnds(o) \/ PanelAnswers(o) \/ PostFails(o) \/ PostDelayed(o)
                 \/ Confirm(o)
        BY <4>3 DEF SendDetachment, DetachEnds, PanelAnswers, PostFails, PostDelayed, Returns, Confirm
      <4>4. CASE Refresh(o) \/ RefreshReads(o) \/ RefreshEnds(o) \/ RefreshFails(o) \/ Release(o) \/ Return(o)
        BY <4>4 DEF Refresh, RefreshReads, RefreshEnds, RefreshFails, Release, Return
      <4> QED
        BY <1>2, <2>4, <4>1, <4>2, <4>3, <4>4 DEF Mutate, Proceeds
    <3> QED
      BY <2>1, <2>4, <3>1
  <2> QED
    BY <1>2, <2>2, <2>3, <2>4, MutateActs
<1> QED
  BY <1>1, <1>2, StepIs

LEMMA ConnectedLeads ==
  ASSUME NEW Site, OneServer(Site), NEW s \in Servers, Connect(s)
  PROVE  Site[PanelOf[Connected(s).rev]] = s
<1>1. row[s] # None /\ Connected(s).rev = row[s]
  BY DEF Connect, Connectable, Reusable, Connected, NewClient, Client
<1> QED
  BY <1>1 DEF OneServer

\* Most steps leave a mutation its plan and its connection.
LEMMA MutateKeepsConn ==
  ASSUME OpTypes, NEW o \in Ops, Mutate(o), ~Start(o), ~OpenCopy(o), ~OpenConnection(o), ~Return(o)
  PROVE  /\ plan'[o] = plan[o] /\ conn'[o] = conn[o] /\ UNCHANGED <<plan, conn>>
         /\ opc'[o] = "release" => opc[o] \in Connecteds
         /\ opc[o] \in Connecteds \/ ~(opc'[o] \in Connecteds \cup {"release"})
<1> USE DEF To, Ends, Is, OpTypes, opVars, Connecteds
<1>1. CASE TakeGate(o) \/ LeaveGate(o) \/ ListClients(o) \/ ReadFails(o)
  BY <1>1 DEF TakeGate, LeaveGate, ListClients, ReadFails
<1>2. CASE DecideNoop(o) \/ DecideAttach(o) \/ DecideDetach(o) \/ SendAttachment(o)
  BY <1>2 DEF DecideNoop, DecideAttach, DecideDetach, Decides, SendAttachment
<1>3. CASE SendDetachment(o) \/ DetachEnds(o) \/ PanelAnswers(o) \/ PostFails(o) \/ PostDelayed(o) \/ Confirm(o)
  BY <1>3 DEF SendDetachment, DetachEnds, PanelAnswers, PostFails, PostDelayed, Returns, Confirm
<1>4. CASE Refresh(o) \/ RefreshReads(o) \/ RefreshEnds(o) \/ RefreshFails(o) \/ Release(o)
  BY <1>4 DEF Refresh, RefreshReads, RefreshEnds, RefreshFails, Release
<1> QED
  BY <1>1, <1>2, <1>3, <1>4 DEF Mutate, Proceeds

LEMMA MutateLeads ==
  ASSUME CacheInv, OpTypes, ConnsHeld, NEW Site, OneServer(Site), NEW o \in Ops, Mutate(o), Leads(o, Site)
  PROVE  Leads(o, Site)'
<1> USE DEF To, Ends, Is, OpTypes, opVars
<1>1. CASE Start(o)
  BY <1>1 DEF Start, Leads, PanelAt, ConnsHeld, ConnHeld, Connecteds
<1>2. CASE OpenCopy(o)
  BY <1>2 DEF OpenCopy, Leads, PanelAt, ConnsHeld, ConnHeld, Connecteds
<1>3. CASE OpenConnection(o)
  <2>1. CASE Connect(ServerOf(o)) /\ conn' = [conn EXCEPT ![o] = Connected(ServerOf(o))] /\ To(o, "list")
    <3>1. /\ ServerOf(o)' = ServerOf(o) /\ conn'[o] = Connected(ServerOf(o)) /\ opc'[o] = "list"
          /\ ServerOf(o) \in Servers
      BY <1>3, <2>1, PlanIsTyped DEF OpenConnection, ServerOf, ConnsHeld, ConnHeld
    <3>2. Site[PanelAt(o)'] = ServerOf(o)
      BY <2>1, <3>1, ConnectedLeads DEF PanelAt
    <3> QED
      BY <3>1, <3>2 DEF Leads
  <2>2. CASE Ends(o, "error", "release") /\ UNCHANGED conn
    BY <1>3, <2>2 DEF OpenConnection, Leads, PanelAt, ServerOf
  <2> QED
    BY <1>3, <2>1, <2>2 DEF OpenConnection
<1>4. CASE Return(o)
  BY <1>4 DEF Return, Leads
<1>5. CASE ~Start(o) /\ ~OpenCopy(o) /\ ~OpenConnection(o) /\ ~Return(o)
  <2>1. /\ plan'[o] = plan[o] /\ conn'[o] = conn[o]
        /\ opc'[o] = "release" => opc[o] \in Connecteds
    BY <1>5, MutateKeepsConn
  <2> QED
    BY <2>1 DEF Leads, PanelAt, ServerOf, ConnsHeld, ConnHeld
<1> QED
  BY <1>1, <1>2, <1>3, <1>4, <1>5

-----------------------------------------------------------------------------
(* Others leave the records of a group alone while its gate is taken, but   *)
(* for those that delete an inbound.                                        *)

OwnNext(o) == {c \in panel'[PanelAt(o)] : c.sub = Group(o)}

\* The records of the group stay, on no more inbounds, and on the target unless
\* it is deleted.
OwnLasts(o) ==
  /\ \A c \in Own(o) : \E d \in OwnNext(o) : d.email = c.email
  /\ \A d \in OwnNext(o) : Target(o) \in d.on =>
       \E c \in Own(o) : c.email = d.email /\ Target(o) \in c.on
  /\ HasOwn(o) => (\E d \in OwnNext(o) : Target(o) \in d.on) \/ o \in orphaned'

LEMMA HasIsOwn ==
  ASSUME NEW o \in Ops
  PROVE  Has(PanelAt(o), Group(o), Target(o)) <=> HasOwn(o)
BY DEF Has, Attachments, HasOwn, Own

\* A post that is not the mutation's own concerns another group, or another panel.
LEMMA OthersPostElsewhere ==
  ASSUME NEW Site, MutationsInv(Site), NEW o \in Ops, opc[o] \in Gated, conn[o] # None, delays = 0,
         NEW x \in Ops \ {o}, Is(x, "await"), Executes(sent[x])
  PROVE  OwnNext(o) = Own(o)
<1> DEFINE m == sent[x]
<1>1. /\ m.panel = PanelAt(x) /\ m.sub = Group(x)
      /\ m.kind # "add" => IsOwn(m.email, x)
  BY DEF MutationsInv, AsksOwn, Concerns, Is
<1> USE DEF OwnNext
<1>2. IsPost(m) /\ PanelsOK /\ m.panel \in Panels
  BY DEF MutationsInv, RecordsInv, PostsInOrder, AsksInOrder, Is, IsPost
<1>3. conn[x] # None /\ Site[PanelAt(x)] = ServerOf(x) /\ Site[PanelAt(o)] = ServerOf(o)
  BY DEF MutationsInv, Leads, RecordsInv, ConnsHeld, ConnHeld, Is, Connecteds
<1>4. PanelAt(o) = PanelAt(x) => Group(o) # Group(x)
  BY <1>3 DEF MutationsInv, GatesExclude, GateOf, Is, Gated, Connecteds
<1>5. PanelAt(o) \in Panels
  <2>1. conn[o] \in ClientRecords
    BY DEF MutationsInv, RecordsInv, ConnsHeld, ConnHeld, StillHeld
  <2> QED
    BY <2>1, PanelOfAssumption DEF PanelAt, ClientRecords
<1> HIDE DEF m
<1>6. Executes(m)
  BY DEF m
<1>7. CASE ~Accepts(m)
  BY <1>6, <1>7 DEF Executes, Own
<1>8. CASE Accepts(m) /\ m.kind = "add"
  <2>1. /\ \A p \in Panels \ {m.panel} : panel'[p] = panel[p]
        /\ panel'[m.panel] = panel[m.panel] \cup {Record(m.email, m.sub, {m.inbound}, NextId(m.panel))}
    BY <1>2, <1>6, <1>8, AddChanges
  <2> QED
    BY <2>1, <1>1, <1>4, <1>5 DEF Own, Record
<1>9. CASE Accepts(m) /\ m.kind # "add"
  <2>1. PICK d \in panel[m.panel] :
          /\ Named(m) = {d}
          /\ panel'[m.panel] = (panel[m.panel] \ {d}) \cup {[d EXCEPT !.on = On(m, d)]}
    BY <1>2, <1>6, <1>9, TurnChanges
  <2>2. \A p \in Panels \ {m.panel} : panel'[p] = panel[p]
    BY <1>2, <1>6, <1>9, TurnChanges
  <2>3. d.sub = Group(x)
    <3>1. PICK c \in panel[m.panel] : c.email = m.email /\ c.sub = Group(x)
      BY <1>1, <1>9 DEF IsOwn, Own
    <3> QED
      BY <2>1, <3>1 DEF Named
  <2>4. [d EXCEPT !.on = On(m, d)].sub = Group(x)
    <3>1. IsRecord(d)
      BY <1>2 DEF PanelsOK
    <3> QED
      BY <2>3, <3>1 DEF IsRecord, Record
  <2> QED
    BY <2>1, <2>2, <2>3, <2>4, <1>1, <1>4, <1>5 DEF Own
<1> QED
  BY <1>7, <1>8, <1>9

LEMMA ConnectedPanel ==
  ASSUME ConnsHeld, NEW o \in Ops, conn[o] # None
  PROVE  PanelAt(o) \in Panels
<1>1. conn[o] \in ClientRecords
  BY DEF ConnsHeld, ConnHeld, StillHeld
<1> QED
  BY <1>1, PanelOfAssumption DEF PanelAt, ClientRecords

LEMMA DeletionLasts ==
  ASSUME PanelsOK, ConnsHeld, NEW o \in Ops, conn[o] # None,
         NEW p \in Panels, NEW i \in Inbounds, DeleteInbound(p, i)
  PROVE  OwnLasts(o)
<1>1. PanelAt(o) \in Panels
  BY ConnectedPanel
<1>2. CASE PanelAt(o) # p
  <2>1. OwnNext(o) = Own(o)
    BY <1>1, <1>2 DEF DeleteInbound, PanelsOK, OwnNext, Own
  <2> QED
    BY <2>1 DEF OwnLasts, HasOwn
<1>3. CASE PanelAt(o) = p
  <2> DEFINE f(c) == [c EXCEPT !.on = @ \ {i}]
  <2>1. panel'[p] = {f(c) : c \in panel[p]}
    BY DEF DeleteInbound, PanelsOK
  <2>2. \A c \in panel[p] : f(c).email = c.email /\ f(c).sub = c.sub /\ f(c).on = c.on \ {i}
    <3> SUFFICES ASSUME NEW c \in panel[p]
                 PROVE  f(c).email = c.email /\ f(c).sub = c.sub /\ f(c).on = c.on \ {i}
      OBVIOUS
    <3>1. IsRecord(c)
      BY DEF PanelsOK
    <3> QED
      BY <3>1 DEF IsRecord, Record
  <2>3. Target(o) = i => o \in orphaned'
    BY <1>3 DEF DeleteInbound, PanelAt
  <2> HIDE DEF f
  <2>4. /\ \A c \in Own(o) : f(c) \in OwnNext(o) /\ f(c).email = c.email /\ f(c).on = c.on \ {i}
        /\ \A d \in OwnNext(o) : \E c \in Own(o) : d.email = c.email /\ d.on = c.on \ {i}
    BY <1>3, <2>1, <2>2 DEF Own, OwnNext
  <2> QED
    BY <2>3, <2>4 DEF OwnLasts, HasOwn
<1> QED
  BY <1>2, <1>3

\* A copy that takes back a record of the group in time holds its gate.
LEMMA TakeBackElsewhere ==
  ASSUME NEW Site, MutationsInv(Site), OneServer(Site), NEW o \in Ops, opc[o] \in Gated, conn[o] # None,
         delays = 0, delays' = 0, NEW p \in Panels, NEW c \in panel[p], CopyTakesBack(p, c)
  PROVE  OwnNext(o) = Own(o)
<1>1. PanelsOK /\ ConnsHeld
  BY DEF MutationsInv, RecordsInv
<1>2. PanelAt(o) \in Panels
  BY <1>1, ConnectedPanel
<1>3. HeldByCopy(p, c.sub)
  BY DEF CopyTakesBack
<1>4. PICK s \in Servers : /\ row[s] # None /\ PanelOf[row[s]] = p
                           /\ \A x \in Ops : <<x, <<s, c.sub>>>> \notin owned
  BY <1>3 DEF HeldByCopy
<1>5. Site[p] = s
  BY <1>4 DEF OneServer
<1>6. Site[PanelAt(o)] = ServerOf(o) /\ <<o, GateOf(o)>> \in owned
  BY DEF MutationsInv, Leads, GatesExclude
<1>7. PanelAt(o) = p => c.sub # Group(o)
  BY <1>4, <1>5, <1>6 DEF GateOf
<1>8. panel'[p] = panel[p] \ {c} /\ \A q \in Panels \ {p} : panel'[q] = panel[q]
  BY <1>1 DEF CopyTakesBack, PanelsOK
<1> QED
  BY <1>2, <1>7, <1>8 DEF OwnNext, Own

\* What a mutation knows of its records stays true while others act, unless a
\* post is executed late.
LEMMA OthersLeaveOwn ==
  ASSUME NEW Site, MutationsInv(Site), OneServer(Site), NEW o \in Ops, opc[o] \in Gated, conn[o] # None,
         delays = 0, delays' = 0, [GroupNext]_groupVars, \A x \in Ops : Mutate(x) => x # o
  PROVE  OwnLasts(o)
<1>1. OwnNext(o) = Own(o) => OwnLasts(o)
  BY DEF OwnLasts, HasOwn
<1>2. PanelsOK /\ ConnsHeld /\ OpTypes /\ late = {}
  BY DEF MutationsInv, RecordsInv, LateCounted
<1>3. CASE Elsewhere \/ UNCHANGED groupVars
  BY <1>1, <1>3 DEF Elsewhere, groupVars, panelVars, Own, OwnNext
<1>4. CASE InboundMutation
  <2>1. PICK p \in Panels : \/ \E i \in Inbounds : DeleteInbound(p, i)
                            \/ \E c \in panel[p] : CopyTakesBack(p, c)
    BY <1>4 DEF InboundMutation
  <2>2. CASE \E i \in Inbounds : DeleteInbound(p, i)
    BY <1>2, <2>2, DeletionLasts
  <2>3. CASE \E c \in panel[p] : CopyTakesBack(p, c)
    BY <1>1, <2>3, TakeBackElsewhere
  <2> QED
    BY <2>1, <2>2, <2>3
<1>5. ASSUME NEW x \in Ops, Mutate(x)
      PROVE  OwnLasts(o)
  <2>1. CASE panel' = panel
    BY <1>1, <2>1 DEF Own, OwnNext
  <2>2. CASE PanelAnswers(x)
    <3>1. x \in Ops \ {o} /\ Is(x, "await") /\ Executes(sent[x])
      BY <1>5, <2>2 DEF PanelAnswers
    <3> QED
      BY <1>1, <3>1, OthersPostElsewhere
  <2> QED
    BY <1>2, <1>5, <2>1, <2>2, MutateActs
<1> QED
  BY <1>2, <1>3, <1>4, <1>5 DEF GroupNext

LEMMA StayerAsks ==
  ASSUME NEW o \in Ops, OpStays(o), AsksOwn(o)
  PROVE  AsksOwn(o)'
BY DEF OpStays, AsksOwn, Detaches, PanelAt, Group, Target

LEMMA StayerSettles ==
  ASSUME NEW o \in Ops, OpStays(o), Concerns(o), Settles(o), o \in orphaned => o \in orphaned',
         opc[o] \in Gated /\ conn[o] # None => OwnLasts(o),
         opc[o] \in Connecteds \/ (opc[o] = "release" /\ result[o] # "error") => conn[o] # None
  PROVE  Concerns(o)' /\ Settles(o)'
<1>1. /\ Detaches(o)' = Detaches(o) /\ Group(o)' = Group(o) /\ Target(o)' = Target(o)
      /\ opc'[o] = opc[o] /\ result'[o] = result[o] /\ emails'[o] = emails[o] /\ sent'[o] = sent[o]
      /\ inventory'[o] = inventory[o] /\ PanelAt(o)' = PanelAt(o)
  BY DEF OpStays, Detaches, Group, Target, PanelAt
<1>2. Exact(o)' = Exact(o) /\ Attached(o)' = Attached(o) /\ Own(o)' = OwnNext(o)
  BY <1>1 DEF Exact, Attached, Own, OwnNext
<1>3. opc[o] \in Connecteds \/ (opc[o] = "release" /\ result[o] # "error") =>
        /\ OwnLasts(o)
        /\ \A e : IsOwn(e, o) => IsOwn(e, o)'
        /\ HasOrLost(o) => HasOrLost(o)'
        /\ HasOwn(o)' => HasOwn(o)
  BY <1>1, <1>2 DEF OwnLasts, IsOwn, HasOwn, HasOrLost, Gated
<1>4. Concerns(o)'
  <2>1. opc[o] = "decide" => \A c \in Exact(o) : IsOwn(c.email, o)'
    BY <1>3 DEF Concerns, Connecteds
  <2>2. opc[o] \in {"post", "await"} /\ sent[o].kind # "add" => IsOwn(sent[o].email, o)'
    <3>1. \A e : e = sent[o].email /\ IsOwn(e, o)' => IsOwn(sent[o].email, o)'
      BY <1>1 DEF IsOwn
    <3> QED
      BY <1>3, <3>1 DEF Concerns, Connecteds
  <2>3. opc[o] \in {"detach", "await", "confirm"} /\ Detaches(o) => \A e \in emails[o] : IsOwn(e, o)'
    BY <1>3 DEF Concerns, Connecteds
  <2> QED
    BY <1>1, <1>2, <2>1, <2>2, <2>3 DEF Concerns, IsOwn
<1>5. Settles(o)'
  <2>1. opc[o] = "decide" =>
          /\ \A c \in OwnNext(o) : Target(o) \in c.on => \E d \in Attached(o) : d.email = c.email
          /\ Attached(o) # {} => HasOrLost(o)'
    BY <1>3 DEF Settles, OwnLasts, Connecteds
  <2>2. result[o] # "error" =>
          /\ opc[o] = "confirm" /\ ~Detaches(o) => HasOrLost(o)'
          /\ opc[o] \in {"detach", "await", "confirm"} /\ Detaches(o) =>
               \A c \in OwnNext(o) : Target(o) \in c.on =>
                 c.email \in emails[o] \/ (opc[o] = "await" /\ c.email = sent[o].email)
          /\ opc[o] \in {"refresh", "read", "publish", "release"} =>
               IF Detaches(o) THEN ~HasOwn(o)' ELSE HasOrLost(o)'
    BY <1>3 DEF Settles, OwnLasts, Connecteds
  <2> QED
    BY <1>1, <1>2, <2>1, <2>2 DEF Settles
<1> QED
  BY <1>4, <1>5

-----------------------------------------------------------------------------
(* What a mutation posts concerns its own records.                          *)

LEMMA AttachmentIsOwn ==
  ASSUME InventorySeen, NEW o \in Ops, Is(o, "decide")
  PROVE  /\ Attachment(o).panel = PanelAt(o) /\ Attachment(o).sub = Group(o)
         /\ Attachment(o).inbound = Target(o) /\ Attachment(o).kind \in {"add", "attach"}
         /\ Concerns(o) /\ Attachment(o).kind # "add" => IsOwn(Attachment(o).email, o)
<1>1. CASE Exact(o) = {}
  BY <1>1 DEF Attachment, Post, PanelAt
<1>2. CASE Exact(o) # {}
  <2>1. Canonical(Exact(o)) \in Exact(o)
    <3>1. \A c \in Exact(o) : IsRecord(c)
      BY DEF InventorySeen, Exact, Is
    <3> QED
      BY <1>2, <3>1, CanonicalIsOne
  <2>2. Concerns(o) => IsOwn(Canonical(Exact(o)).email, o)
    BY <2>1 DEF Concerns, Is
  <2> QED
    BY <1>2, <2>2 DEF Attachment, Post, PanelAt
<1> QED
  BY <1>1, <1>2

LEMMA MutateAsksOwn ==
  ASSUME OpTypes, InventorySeen, NEW o \in Ops, Mutate(o), AsksOwn(o)
  PROVE  AsksOwn(o)'
<1> USE DEF To, Ends, Is, OpTypes, opVars, panelVars
<1> DEFINE Busy == {"detach", "post", "await"}
<1>1. CASE Start(o) \/ OpenCopy(o) \/ OpenConnection(o) \/ Return(o)
  <2>1. opc'[o] \notin Busy
    BY <1>1 DEF Start, OpenCopy, OpenConnection, Return
  <2> QED
    BY <2>1 DEF AsksOwn
<1>2. CASE ~(Start(o) \/ OpenCopy(o) \/ OpenConnection(o) \/ Return(o))
  <2>1. /\ plan'[o] = plan[o] /\ conn'[o] = conn[o]
        /\ Detaches(o)' = Detaches(o) /\ PanelAt(o)' = PanelAt(o)
        /\ Group(o)' = Group(o) /\ Target(o)' = Target(o)
    BY <1>2, MutateKeepsConn DEF Detaches, PanelAt, Group, Target
  <2>2. CASE DecideAttach(o)
    <3>1. opc[o] = "decide" /\ ~Detaches(o) /\ opc'[o] \in {"post", "release"}
          /\ (opc'[o] = "post" => sent'[o] = Attachment(o))
      BY <2>2 DEF DecideAttach, Decides, Detaches
    <3> QED
      BY <2>1, <3>1, AttachmentIsOwn DEF AsksOwn
  <2>3. CASE DecideDetach(o)
    <3>1. Detaches(o) /\ opc'[o] = "detach"
      BY <2>3 DEF DecideDetach, Decides, Detaches
    <3> QED
      BY <2>1, <3>1 DEF AsksOwn
  <2>4. CASE SendAttachment(o)
    <3>1. /\ opc[o] = "post" /\ opc'[o] \in {"await", "refresh"}
          /\ (opc'[o] = "await" => sent'[o] = sent[o])
      BY <2>4 DEF SendAttachment
    <3> QED
      BY <2>1, <3>1 DEF AsksOwn
  <2>5. CASE SendDetachment(o)
    <3>1. PICK e \in emails[o] :
            \/ /\ sent' = [sent EXCEPT ![o] = Post("detach", PanelAt(o), e, Group(o), Target(o))]
               /\ opc' = [opc EXCEPT ![o] = "await"]
            \/ opc' = [opc EXCEPT ![o] = "detach"]
      BY <2>5 DEF SendDetachment, PanelAt
    <3>2. opc[o] = "detach" /\ Detaches(o)
      BY <2>5 DEF SendDetachment, AsksOwn
    <3>3. CASE opc'[o] = "await"
      <4>1. sent'[o] = Post("detach", PanelAt(o), e, Group(o), Target(o))
        BY <3>1, <3>3
      <4>2. /\ sent'[o].panel = PanelAt(o) /\ sent'[o].sub = Group(o) /\ sent'[o].inbound = Target(o)
            /\ sent'[o].kind = "detach"
        BY <4>1 DEF Post
      <4> QED
        BY <2>1, <3>2, <3>3, <4>2 DEF AsksOwn
    <3>4. CASE opc'[o] = "detach"
      BY <2>1, <3>2, <3>4 DEF AsksOwn
    <3> QED
      BY <3>1, <3>3, <3>4
  <2>6. CASE PanelAnswers(o) \/ PostFails(o) \/ PostDelayed(o) \/ Confirm(o)
    <3>1. /\ opc'[o] \in {"confirm", "refresh", "detach"}
          /\ (opc'[o] = "detach" => Detaches(o))
      BY <2>6 DEF PanelAnswers, PostFails, PostDelayed, Returns, Confirm, Detaches
    <3> QED
      BY <2>1, <3>1 DEF AsksOwn
  <2>7. CASE \/ TakeGate(o) \/ LeaveGate(o) \/ ListClients(o) \/ ReadFails(o) \/ DecideNoop(o) \/ DetachEnds(o)
             \/ Refresh(o) \/ RefreshReads(o) \/ RefreshEnds(o) \/ RefreshFails(o) \/ Release(o)
    <3>1. opc'[o] \notin Busy
      BY <2>7 DEF TakeGate, LeaveGate, ListClients, ReadFails, DecideNoop, DetachEnds, Refresh, RefreshReads,
         RefreshEnds, RefreshFails, Release
    <3> QED
      BY <3>1 DEF AsksOwn
  <2> QED
    BY <1>2, <2>2, <2>3, <2>4, <2>5, <2>6, <2>7 DEF Mutate, Proceeds
<1> QED
  BY <1>1, <1>2

LEMMA MutateKeepsAll ==
  ASSUME OpTypes, PanelsOK, PostsInOrder, NEW o \in Ops, Mutate(o)
  PROVE  KeepsAll
<1>1. CASE panel' = panel
  BY <1>1 DEF KeepsAll, SameClient
<1>2. CASE PanelAnswers(o)
  <2>1. Executes(sent[o]) /\ IsPost(sent[o])
    BY <1>2 DEF PanelAnswers, PostsInOrder, AsksInOrder, Is
  <2> QED
    BY <2>1, PostChanges
<1> QED
  BY <1>1, <1>2, MutateActs

LEMMA MutateConcerns ==
  ASSUME OpTypes, ConnsHeld, InventorySeen, KeepsAll, NEW o \in Ops, Mutate(o), AsksOwn(o), Concerns(o)
  PROVE  Concerns(o)'
<1> USE DEF To, Ends, Is, OpTypes, opVars, panelVars
<1> DEFINE Busy == {"decide", "detach", "post", "await", "confirm"}
           Names == {c.email : c \in OwnNext(o)}
<1>1. CASE Start(o) \/ OpenCopy(o) \/ OpenConnection(o) \/ Return(o)
  <2>1. opc'[o] \notin Busy
    BY <1>1 DEF Start, OpenCopy, OpenConnection, Return
  <2> QED
    BY <2>1 DEF Concerns
<1>2. CASE ~(Start(o) \/ OpenCopy(o) \/ OpenConnection(o) \/ Return(o))
  <2>1. /\ plan'[o] = plan[o] /\ conn'[o] = conn[o]
        /\ Detaches(o)' = Detaches(o) /\ PanelAt(o)' = PanelAt(o)
        /\ Group(o)' = Group(o) /\ Target(o)' = Target(o)
    BY <1>2, MutateKeepsConn DEF Detaches, PanelAt, Group, Target
  <2>2. opc[o] \in Connecteds => \A e : IsOwn(e, o) => e \in Names
    BY <2>1, PanelAtIsPanel DEF IsOwn, Own, OwnNext, KeepsAll, SameClient
  <2>3. /\ sent'[o].email \in Names => IsOwn(sent[o].email, o)'
        /\ (\A e \in emails'[o] : e \in Names) => \A e \in emails[o]' : IsOwn(e, o)'
    BY <2>1 DEF IsOwn, Own, OwnNext
  <2> HIDE DEF Names
  <2>4. CASE ListClients(o)
    <3>1. opc'[o] = "decide" /\ inventory'[o] = panel[PanelAt(o)] /\ panel' = panel
      BY <2>4 DEF ListClients, PanelAt
    <3>2. \A c \in Exact(o)' : c \in Own(o)'
      BY <2>1, <3>1 DEF Exact, Own
    <3>3. \A c \in Exact(o)' : IsOwn(c.email, o)'
      BY <3>2 DEF IsOwn
    <3> QED
      BY <3>1, <3>3 DEF Concerns
  <2>5. CASE DecideAttach(o)
    <3>1. opc[o] = "decide" /\ opc'[o] \in {"post", "release"}
          /\ (opc'[o] = "post" => sent'[o] = Attachment(o))
      BY <2>5 DEF DecideAttach, Decides
    <3>2. opc'[o] = "post" /\ sent'[o].kind # "add" => sent'[o].email \in Names
      BY <2>2, <3>1, AttachmentIsOwn DEF Connecteds
    <3> QED
      BY <2>3, <3>1, <3>2 DEF Concerns
  <2>6. CASE DecideDetach(o)
    <3>1. /\ opc[o] = "decide" /\ opc'[o] = "detach"
          /\ emails'[o] = {c.email : c \in Attached(o)}
      BY <2>6 DEF DecideDetach, Decides
    <3>2. \A e \in emails'[o] : e \in Names
      BY <2>2, <3>1 DEF Concerns, Attached, Connecteds
    <3> QED
      BY <2>3, <3>1, <3>2 DEF Concerns
  <2>7. CASE SendAttachment(o)
    <3>1. /\ opc[o] = "post" /\ opc'[o] \in {"await", "refresh"}
          /\ (opc'[o] = "await" => sent'[o] = sent[o]) /\ emails'[o] = emails[o]
      BY <2>7 DEF SendAttachment
    <3>2. opc'[o] = "await" /\ sent'[o].kind # "add" => sent'[o].email \in Names
      BY <2>2, <3>1 DEF Concerns, Connecteds
    <3>3. ~Detaches(o)
      BY <3>1 DEF AsksOwn
    <3> QED
      BY <2>1, <2>3, <3>1, <3>2, <3>3 DEF Concerns
  <2>8. CASE SendDetachment(o)
    <3>1. PICK e \in emails[o] :
            /\ emails' = [emails EXCEPT ![o] = @ \ {e}]
            /\ \/ /\ sent' = [sent EXCEPT ![o] = Post("detach", PanelAt(o), e, Group(o), Target(o))]
                  /\ opc' = [opc EXCEPT ![o] = "await"]
               \/ opc' = [opc EXCEPT ![o] = "detach"]
      BY <2>8 DEF SendDetachment, PanelAt
    <3>2. opc[o] = "detach" /\ Detaches(o)
      BY <2>8 DEF SendDetachment, AsksOwn
    <3>3. \A f \in emails[o] : f \in Names
      BY <2>2, <3>2 DEF Concerns, Connecteds
    <3>4. \A f \in emails'[o] : f \in Names
      BY <3>1, <3>3
    <3>5. CASE opc'[o] = "await"
      <4>1. sent'[o] = Post("detach", PanelAt(o), e, Group(o), Target(o))
        BY <3>1, <3>5
      <4>2. sent'[o].email = e
        BY <4>1 DEF Post
      <4> QED
        BY <2>3, <3>3, <3>4, <3>5, <4>2 DEF Concerns
    <3>6. CASE opc'[o] = "detach"
      BY <2>3, <3>4, <3>6 DEF Concerns
    <3> QED
      BY <3>1, <3>5, <3>6
  <2>9. CASE PanelAnswers(o) \/ PostFails(o) \/ PostDelayed(o) \/ Confirm(o)
    <3>1. /\ opc[o] \in {"await", "confirm"} /\ emails'[o] = emails[o]
          /\ opc'[o] \in {"confirm", "refresh", "detach"}
      BY <2>9 DEF PanelAnswers, PostFails, PostDelayed, Returns, Confirm
    <3>2. Detaches(o) => \A e \in emails'[o] : e \in Names
      BY <2>2, <3>1 DEF Concerns, Connecteds
    <3> QED
      BY <2>1, <2>3, <3>1, <3>2 DEF Concerns
  <2>10. CASE \/ TakeGate(o) \/ LeaveGate(o) \/ ReadFails(o) \/ DecideNoop(o) \/ DetachEnds(o)
              \/ Refresh(o) \/ RefreshReads(o) \/ RefreshEnds(o) \/ RefreshFails(o) \/ Release(o)
    <3>1. opc'[o] \notin Busy
      BY <2>10 DEF TakeGate, LeaveGate, ReadFails, DecideNoop, DetachEnds, Refresh, RefreshReads,
         RefreshEnds, RefreshFails, Release
    <3> QED
      BY <3>1 DEF Concerns
  <2> QED
    BY <1>2, <2>4, <2>5, <2>6, <2>7, <2>8, <2>9, <2>10 DEF Mutate, Proceeds
<1> QED
  BY <1>1, <1>2

-----------------------------------------------------------------------------
(* A mutation that does not fail gets on with its work.                     *)

\* The panel executed the post of the mutation.
LEMMA AnswerSettles ==
  ASSUME PanelsOK, NEW o \in Ops, Is(o, "await"), IsPost(sent[o]), AsksOwn(o), Concerns(o), Settles(o),
         result[o] # "error", Executes(sent[o]), Accepts(sent[o])
  PROVE  LET Now == {c \in panel'[PanelAt(o)] : c.sub = Group(o)} IN
         /\ ~Detaches(o) => \E c \in Now : Target(o) \in c.on
         /\ Detaches(o) => \A c \in Now : Target(o) \in c.on => c.email \in emails[o]
<1> DEFINE m == sent[o]
<1>1. /\ m.panel = PanelAt(o) /\ m.sub = Group(o) /\ m.inbound = Target(o)
      /\ m.kind = "detach" <=> Detaches(o)
  BY DEF AsksOwn, Is
<1>2. CASE m.kind = "add"
  <2>1. panel'[m.panel] = panel[m.panel] \cup {Record(m.email, m.sub, {m.inbound}, NextId(m.panel))}
    BY <1>2, AddChanges
  <2>2. Record(m.email, m.sub, {m.inbound}, NextId(m.panel)) \in panel'[m.panel] /\ ~Detaches(o)
    BY <1>1, <1>2, <2>1
  <2> QED
    BY <1>1, <2>2 DEF Record
<1>3. CASE m.kind # "add"
  <2>1. PICK d \in panel[m.panel] :
          /\ Named(m) = {d}
          /\ panel'[m.panel] = (panel[m.panel] \ {d}) \cup {[d EXCEPT !.on = On(m, d)]}
    BY <1>3, TurnChanges
  <2> DEFINE r == [d EXCEPT !.on = On(m, d)]
  <2>2. r.on = On(m, d) /\ r.sub = d.sub /\ r.email = d.email
    <3>1. IsRecord(d)
      BY <2>1 DEF PanelsOK, IsPost
    <3> QED
      BY <3>1 DEF IsRecord, Record
  <2>3. d.email = m.email /\ d.sub = Group(o)
    <3>1. PICK c \in panel[m.panel] : c.email = m.email /\ c.sub = Group(o)
      BY <1>1, <1>3 DEF Concerns, Is, IsOwn, Own
    <3> QED
      BY <2>1, <3>1 DEF Named
  <2>4. r \in panel'[m.panel] /\ \A c \in panel'[m.panel] : c = r \/ (c \in panel[m.panel] /\ c # d)
    BY <2>1
  <2> HIDE DEF r
  <2>5. CASE ~Detaches(o)
    <3>1. On(m, d) = d.on \cup {m.inbound}
      BY <1>1, <2>5 DEF On
    <3> QED
      BY <1>1, <2>2, <2>3, <2>4, <2>5, <3>1
  <2>6. CASE Detaches(o)
    <3>1. Target(o) \notin r.on
      BY <1>1, <2>2, <2>6 DEF On
    <3>2. \A c \in panel[m.panel] : c # d => c.email # m.email
      BY <2>1 DEF Named
    <3>3. \A c \in panel[m.panel] : c.sub = Group(o) /\ Target(o) \in c.on /\ c # d => c.email \in emails[o]
      BY <1>1, <2>6, <3>2 DEF Settles, Own, Is
    <3> QED
      BY <1>1, <2>4, <2>6, <3>1, <3>3
  <2> QED
    BY <2>5, <2>6
<1> QED
  BY <1>2, <1>3

LEMMA MutateSettles ==
  ASSUME OpTypes, ConnsHeld, PanelsOK, PostsInOrder, NEW o \in Ops, Mutate(o),
         AsksOwn(o), Concerns(o), Settles(o)
  PROVE  Settles(o)'
<1> USE DEF To, Ends, Is, OpTypes, opVars, panelVars
<1> DEFINE Over == {"refresh", "read", "publish", "release"}
<1>1. CASE Start(o) \/ OpenCopy(o) \/ OpenConnection(o) \/ Return(o)
  <2>1. opc'[o] \in {"idle", "gate", "open", "list"} \/ (opc'[o] = "release" /\ result'[o] = "error")
    BY <1>1 DEF Start, OpenCopy, OpenConnection, Return
  <2> QED
    BY <2>1 DEF Settles
<1>2. CASE ~(Start(o) \/ OpenCopy(o) \/ OpenConnection(o) \/ Return(o))
  <2>1. /\ Detaches(o)' = Detaches(o) /\ PanelAt(o)' = PanelAt(o)
        /\ Group(o)' = Group(o) /\ Target(o)' = Target(o)
    BY <1>2, MutateKeepsConn DEF Detaches, PanelAt, Group, Target
  <2>2. /\ orphaned' = orphaned
        /\ panel' = panel =>
             Own(o)' = Own(o) /\ (HasOwn(o)' <=> HasOwn(o)) /\ (HasOrLost(o)' <=> HasOrLost(o))
    BY <1>2, <2>1, MutateActs DEF Own, HasOwn, HasOrLost
  <2>3. CASE PanelAnswers(o)
    <3>1. /\ opc[o] = "await" /\ opc'[o] = "confirm" /\ emails'[o] = emails[o] /\ Executes(sent[o])
          /\ result'[o] # "error" => result'[o] = result[o] /\ Accepts(sent[o])
      <4>1. CASE Returns(o, Accepts(sent[o]))
        BY <2>3, <4>1 DEF PanelAnswers, Returns
      <4>2. CASE Returns(o, FALSE)
        BY <2>3, <4>2 DEF PanelAnswers, Returns
      <4> QED
        BY <2>3, <4>1, <4>2 DEF PanelAnswers
    <3>2. Own(o)' = {c \in panel'[PanelAt(o)] : c.sub = Group(o)}
      BY <2>1 DEF Own
    <3>3. IsPost(sent[o])
      BY <3>1 DEF PostsInOrder, AsksInOrder
    <3>4. result'[o] # "error" =>
            /\ ~Detaches(o) => \E c \in Own(o)' : Target(o) \in c.on
            /\ Detaches(o) => \A c \in Own(o)' : Target(o) \in c.on => c.email \in emails[o]
      BY <3>1, <3>2, <3>3, AnswerSettles
    <3> QED
      BY <2>1, <3>1, <3>4 DEF Settles, HasOwn, HasOrLost
  <2>4. CASE PostFails(o) \/ PostDelayed(o)
    <3>1. opc'[o] = "confirm" /\ result'[o] = "error"
      BY <2>4 DEF PostFails, PostDelayed, Returns
    <3> QED
      BY <3>1 DEF Settles
  <2>5. CASE ListClients(o)
    <3>1. opc'[o] = "decide" /\ inventory'[o] = panel[PanelAt(o)] /\ panel' = panel
      BY <2>5 DEF ListClients, PanelAt
    <3>2. Attached(o)' = {c \in Own(o)' : Target(o)' \in c.on}
      BY <2>1, <3>1 DEF Attached, Exact, Own
    <3> QED
      BY <3>1, <3>2 DEF Settles, HasOrLost, HasOwn
  <2>6. CASE ReadFails(o)
    <3>1. opc'[o] = "release" /\ result'[o] = "error"
      BY <2>6 DEF ReadFails
    <3> QED
      BY <3>1 DEF Settles
  <2>7. CASE DecideNoop(o)
    <3>1. opc[o] = "decide" /\ opc'[o] = "refresh" /\ panel' = panel /\ (Detaches(o) <=> Attached(o) = {})
      BY <2>7 DEF DecideNoop, Decides, Detaches
    <3>2. IF Detaches(o) THEN ~HasOwn(o) ELSE HasOrLost(o)
      BY <3>1 DEF HasOwn, Settles
    <3> QED
      BY <2>1, <2>2, <3>1, <3>2 DEF Settles
  <2>8. CASE DecideAttach(o)
    <3>1. opc'[o] = "post" \/ (opc'[o] = "release" /\ result'[o] = "error")
      BY <2>8 DEF DecideAttach
    <3> QED
      BY <3>1 DEF Settles
  <2>9. CASE DecideDetach(o)
    <3>1. /\ opc[o] = "decide" /\ opc'[o] = "detach" /\ panel' = panel /\ Detaches(o)
          /\ emails'[o] = {c.email : c \in Attached(o)}
      BY <2>9 DEF DecideDetach, Decides, Detaches
    <3>2. \A c \in Own(o) : Target(o) \in c.on => c.email \in emails'[o]
      BY <3>1 DEF Settles
    <3> QED
      BY <2>1, <2>2, <3>1, <3>2 DEF Settles
  <2>10. CASE SendAttachment(o)
    <3>1. opc[o] = "post" /\ (opc'[o] = "await" \/ (opc'[o] = "refresh" /\ result'[o] = "error"))
      BY <2>10 DEF SendAttachment
    <3> QED
      BY <2>1, <3>1 DEF Settles, AsksOwn
  <2>11. CASE SendDetachment(o)
    <3>1. PICK e \in emails[o] :
            /\ emails' = [emails EXCEPT ![o] = @ \ {e}]
            /\ \/ /\ sent' = [sent EXCEPT ![o] = Post("detach", PanelAt(o), e, Group(o), Target(o))]
                  /\ opc' = [opc EXCEPT ![o] = "await"]
                  /\ UNCHANGED result
               \/ opc' = [opc EXCEPT ![o] = "detach"] /\ result' = [result EXCEPT ![o] = "error"]
      BY <2>11 DEF SendDetachment, PanelAt
    <3>2. opc[o] = "detach" /\ Detaches(o) /\ panel' = panel
      BY <2>11 DEF SendDetachment, AsksOwn
    <3>3. CASE opc'[o] = "await"
      <4>1. sent'[o].email = e /\ emails'[o] = emails[o] \ {e} /\ result'[o] = result[o]
        BY <3>1, <3>3 DEF Post
      <4> QED
        BY <2>1, <2>2, <3>2, <3>3, <4>1 DEF Settles
    <3>4. CASE opc'[o] = "detach"
      <4>1. result'[o] = "error"
        BY <3>1, <3>4
      <4> QED
        BY <3>4, <4>1 DEF Settles
    <3> QED
      BY <3>1, <3>3, <3>4
  <2>12. CASE DetachEnds(o)
    <3>1. /\ opc[o] = "detach" /\ opc'[o] = "refresh" /\ panel' = panel /\ emails[o] = {}
          /\ result'[o] = result[o] /\ Detaches(o)
      BY <2>12 DEF DetachEnds, AsksOwn
    <3>2. result[o] # "error" => ~HasOwn(o)
      BY <3>1 DEF Settles, HasOwn
    <3> QED
      BY <2>1, <2>2, <3>1, <3>2 DEF Settles
  <2>13. CASE Confirm(o)
    <3>1. /\ opc[o] = "confirm" /\ panel' = panel /\ emails'[o] = emails[o]
          /\ result'[o] # "error" => result'[o] = result[o]
          /\ opc'[o] = IF Detaches(o) THEN "detach" ELSE "refresh"
      BY <2>13 DEF Confirm, Detaches
    <3> QED
      BY <2>1, <2>2, <3>1 DEF Settles
  <2>14. CASE Refresh(o) \/ RefreshReads(o) \/ RefreshEnds(o) \/ RefreshFails(o)
    <3>1. /\ opc[o] \in Over /\ opc'[o] \in Over /\ panel' = panel /\ result'[o] = result[o]
      BY <2>14 DEF Refresh, RefreshReads, RefreshEnds, RefreshFails
    <3> QED
      BY <2>1, <2>2, <3>1 DEF Settles
  <2>15. CASE TakeGate(o) \/ LeaveGate(o) \/ Release(o)
    <3>1. opc'[o] \in {"connect", "next"}
      BY <2>15 DEF TakeGate, LeaveGate, Release
    <3> QED
      BY <3>1 DEF Settles
  <2> QED
    BY <1>2, <2>3, <2>4, <2>5, <2>6, <2>7, <2>8, <2>9, <2>10, <2>11, <2>12, <2>13, <2>14, <2>15
       DEF Mutate, Proceeds
<1> QED
  BY <1>1, <1>2

-----------------------------------------------------------------------------
(* Success is as reported.                                                  *)

LEMMA MutationsGoOn ==
  ASSUME NEW Site, MutationsInv(Site), OneServer(Site), [GroupNext]_groupVars
  PROVE  MutationsInv(Site)'
<1>1. RecordsInv'
  BY RecordsGoOn DEF MutationsInv
<1>2. /\ CacheInv /\ OpTypes /\ ConnsHeld /\ PanelsOK
      /\ PostsInOrder /\ InventorySeen
  BY DEF MutationsInv, RecordsInv
<1>3. GatesExclude' /\ LateCounted' /\ (delays' = 0 => delays = 0)
  BY <1>2, GatesStep, LateStep DEF MutationsInv
<1> DEFINE Goal(o) == Leads(o, Site) /\ AsksOwn(o) /\ (delays = 0 => Concerns(o) /\ Settles(o))
<1>4. ASSUME NEW o \in Ops, OpStays(o), o \in orphaned => o \in orphaned', \A x \in Ops : Mutate(x) => x # o
      PROVE  Goal(o)'
  <2>1. Leads(o, Site)'
    BY <1>4 DEF MutationsInv, OpStays, Leads, PanelAt, ServerOf
  <2>2. AsksOwn(o)'
    BY <1>4, StayerAsks DEF MutationsInv
  <2>3. ASSUME delays' = 0
        PROVE  Concerns(o)' /\ Settles(o)'
    <3>1. delays = 0 /\ Concerns(o) /\ Settles(o)
      BY <1>3, <2>3 DEF MutationsInv
    <3>2. opc[o] \in Gated /\ conn[o] # None => OwnLasts(o)
      BY <1>4, <2>3, <3>1, OthersLeaveOwn
    <3>3. opc[o] \in Connecteds \/ (opc[o] = "release" /\ result[o] # "error") => conn[o] # None
      BY <1>2 DEF MutationsInv, ConnsHeld, ConnHeld, Leads
    <3> QED
      BY <1>4, <3>1, <3>2, <3>3, StayerSettles
  <2> QED
    BY <2>1, <2>2, <2>3
<1>5. ASSUME NEW o \in Ops, Mutate(o)
      PROVE  Goal(o)'
  <2>1. Leads(o, Site)'
    BY <1>2, <1>5, MutateLeads DEF MutationsInv
  <2>2. AsksOwn(o)'
    BY <1>2, <1>5, MutateAsksOwn DEF MutationsInv
  <2>3. ASSUME delays' = 0
        PROVE  Concerns(o)' /\ Settles(o)'
    <3>1. AsksOwn(o) /\ Concerns(o) /\ Settles(o)
      BY <1>3, <2>3 DEF MutationsInv
    <3>2. KeepsAll
      BY <1>2, <1>5, MutateKeepsAll
    <3> QED
      BY <1>2, <1>5, <3>1, <3>2, MutateConcerns, MutateSettles
  <2> QED
    BY <2>1, <2>2, <2>3
<1>6. \A o \in Ops : Goal(o)'
  <2>1. ASSUME NEW o \in Ops, ~Mutate(o)
        PROVE  OpStays(o) /\ (o \in orphaned => o \in orphaned')
    <3>1. CASE Outside
      BY <1>2, <3>1, EveryoneStays, OutsideStays
    <3>2. ASSUME NEW x \in Ops, Mutate(x)
          PROVE  OpStays(o) /\ (o \in orphaned => o \in orphaned')
      BY <1>2, <2>1, <3>2, OthersStay
    <3> QED
      BY <3>1, <3>2, StepIs
  <2> SUFFICES ASSUME NEW o \in Ops
               PROVE  Goal(o)'
    OBVIOUS
  <2>2. CASE Mutate(o)
    BY <1>5, <2>2
  <2>3. CASE ~Mutate(o)
    BY <1>4, <2>1, <2>3
  <2> QED
    BY <2>2, <2>3
<1> QED
  BY <1>1, <1>3, <1>6 DEF MutationsInv

LEMMA MutationsStart ==
  ASSUME NEW Site, GroupInit
  PROVE  MutationsInv(Site)
<1>1. RecordsInv
  BY RecordsStart
<1>2. GatesExclude /\ LateCounted
  BY DEF GroupInit, GatesExclude, LateCounted, Gated, Connecteds
<1>3. \A o \in Ops : Leads(o, Site) /\ AsksOwn(o) /\ Concerns(o) /\ Settles(o)
  BY DEF GroupInit, Leads, AsksOwn, Concerns, Settles
<1> QED
  BY <1>1, <1>2, <1>3 DEF MutationsInv

\* While a panel is reached by one server, mutations of a group exclude each other
\* on its records, and each knows what it has done to them.
THEOREM MutationsInvariant ==
  ASSUME NEW Site
  PROVE  GroupSpec /\ []OneServer(Site) => []MutationsInv(Site)
<1>1. GroupInit => MutationsInv(Site)
  BY MutationsStart
<1>2. MutationsInv(Site) /\ OneServer(Site) /\ [GroupNext]_groupVars => MutationsInv(Site)'
  BY MutationsGoOn
<1> QED
  BY <1>1, <1>2, PTL DEF GroupSpec

LEMMA SettledHolds ==
  ASSUME NEW Site, MutationsInv(Site)
  PROVE  SuccessHolds
<1> SUFFICES ASSUME NEW o \in Ops, opc[o] \in {"refresh", "read", "publish", "release"},
                    result[o] # "error", delays = 0
             PROVE  IF plan[o].kind = "detach"
                      THEN ~Has(PanelOf[conn[o].rev], Group(o), Target(o))
                      ELSE Has(PanelOf[conn[o].rev], Group(o), Target(o)) \/ o \in orphaned
  BY DEF SuccessHolds
<1>1. IF Detaches(o) THEN ~HasOwn(o) ELSE HasOrLost(o)
  BY DEF MutationsInv, Settles
<1> QED
  BY <1>1, HasIsOwn DEF PanelAt, Detaches, HasOrLost

\* AttachGroup, DetachGroup: as long as a panel is reached by one server only, a
\* mutation that reports success has made it so, and only the deletion of its
\* inbound can undo an attachment before it has returned, while every post is
\* executed before its caller gives up.
THEOREM SuccessStands ==
  ASSUME NEW Site
  PROVE  GroupSpec /\ []OneServer(Site) => []SuccessHolds
<1>1. MutationsInv(Site) => SuccessHolds
  BY SettledHolds
<1> QED
  BY MutationsInvariant, <1>1, PTL

LEMMA ConfirmStep ==
  ASSUME NEW Site, MutationsInv(Site), [GroupNext]_groupVars,
         NEW o \in Ops, Is(o, "confirm"), opc'[o] = "refresh", result'[o] = "ok", delays = 0
  PROVE  /\ row[ServerOf(o)] # None
         /\ Has(PanelOf[row[ServerOf(o)]], Group(o), Target(o)) \/ o \in orphaned
<1>1. CacheInv /\ OpTypes /\ ConnsHeld
  BY DEF MutationsInv, RecordsInv
<1>2. Mutate(o)
  <2>1. ~OpStays(o)
    BY DEF OpStays, Is
  <2> QED
    BY <1>1, <2>1, EveryoneStays, OthersStay, StepIs
<1>3. Confirm(o)
  BY <1>2 DEF Is, Mutate, Proceeds, Start, TakeGate, LeaveGate, OpenCopy, OpenConnection, ListClients,
     ReadFails, DecideNoop, DecideAttach, DecideDetach, Decides, SendAttachment, SendDetachment, DetachEnds,
     PanelAnswers, PostFails, PostDelayed, Returns, Refresh, RefreshReads, RefreshEnds, RefreshFails,
     Release, Return
<1>4. Fenced(o) /\ result'[o] = result[o] /\ ~Detaches(o)
  BY <1>1, <1>3 DEF Confirm, Detaches, To, OpTypes
<1>5. HasOwn(o) \/ o \in orphaned
  BY <1>4 DEF MutationsInv, Settles, HasOrLost, Is
<1>6. row[ServerOf(o)] = conn[o].rev /\ conn[o] \in ClientRecords
  BY <1>1, <1>4 DEF Fenced, ConnsHeld, ConnHeld, StillHeld, Is, Connecteds
<1> QED
  BY <1>5, <1>6, HasIsOwn DEF PanelAt, ClientRecords

\* runMutationPOSTOutcome: what is confirmed is true of the panel the stored row
\* leads to, as long as each panel is reached by one server only, unless the
\* inbound was deleted since the mutation connected.
THEOREM ConfirmsCurrent ==
  ASSUME NEW Site
  PROVE  GroupSpec /\ []OneServer(Site) => ConfirmedIsCurrent
<1>1. MutationsInv(Site) /\ [GroupNext]_groupVars =>
        [\A o \in Ops :
           Is(o, "confirm") /\ opc'[o] = "refresh" /\ result'[o] = "ok" /\ delays = 0 =>
             /\ row[ServerOf(o)] # None
             /\ Has(PanelOf[row[ServerOf(o)]], Group(o), Target(o)) \/ o \in orphaned]_groupVars
  BY ConfirmStep
<1> QED
  BY MutationsInvariant, <1>1, PTL DEF GroupSpec, ConfirmedIsCurrent

-----------------------------------------------------------------------------
(* The snapshot shows it.                                                   *)

Shows(links, o) ==
  IF Detaches(o) THEN <<Group(o), Target(o)>> \notin links
                 ELSE <<Group(o), Target(o)>> \in links \/ o \in orphaned

\* One refresh reads and publishes at a time, and nothing read is fresh before
\* it is published.
MuHeld ==
  \A o \in Ops :
    /\ opc[o] \in {"read", "publish"} => mu = o
    /\ fresh[o] => opc[o] \in {"release", "next"}

\* What a refresh has read over the connection of a mutation that has succeeded
\* agrees with it, and so does what was published while that connection is open.
ViewsAgree(o) ==
  /\ opc[o] = "publish" /\ view[o].from = conn[o] => Shows(view[o].links, o)
  /\ opc[o] = "release" /\ fresh[o] =>
       /\ \A x \in Ops : opc[x] = "publish" /\ view[x].from = conn[o] => Shows(view[x].links, o)
       /\ Current(conn[o]) => Shows(shown[ServerOf(o)], o)

SnapshotInv(Site) ==
  /\ MutationsInv(Site) /\ MuHeld
  /\ delays = 0 => \A o \in Ops : result[o] # "error" => ViewsAgree(o)

\* A connection that is no longer open never is again.
LEMMA LostStays ==
  ASSUME CacheInv, [ConnNext]_aggVars, NEW s \in Servers, NEW c, StillHeld(s, c), clients'[s] = c
  PROVE  clients[s] = c
<1>1. EpochStep /\ CacheInv'
  BY EpochsAdvance, CacheStep
<1>2. c # None /\ c.epoch = epochs'[s]
  <2>1. c # None
    BY RecordsAssumption DEF StillHeld
  <2> QED
    BY <1>1, <2>1 DEF CacheInv, ConnInv, ClientMatchesRow
<1>3. epochs[s] \in Nat /\ epochs'[s] \in Nat /\ c.epoch \in Nat
  BY <1>1 DEF CacheInv, ConnInv, ConnTypes, StillHeld, ClientRecords
<1>4. epochs'[s] >= epochs[s] /\ c.epoch <= epochs[s]
  BY <1>1 DEF EpochStep, StillHeld
<1>5. c.epoch = epochs[s]
  BY <1>2, <1>3, <1>4
<1> QED
  BY <1>5 DEF StillHeld

LEMMA CurrentWas ==
  ASSUME CacheInv, [ConnNext]_aggVars, ConnsHeld, NEW o \in Ops, conn[o] # None, conn'[o] = conn[o],
         Current(conn[o])'
  PROVE  Current(conn[o])
<1>1. ServerOf(o) \in Servers /\ StillHeld(ServerOf(o), conn[o])
  BY PlanIsTyped DEF ConnsHeld, ConnHeld, ServerOf, Connecteds
<1>2. clients'[ServerOf(o)] = conn[o]
  BY <1>1 DEF Current, StillHeld
<1>3. \A s \in Servers : \A c : StillHeld(s, c) /\ clients'[s] = c => clients[s] = c
  BY LostStays
<1> QED
  BY <1>1, <1>2, <1>3 DEF Current, StillHeld

\* A refresh that reads the panel of a mutation that has succeeded agrees with it.
LEMMA ReadingAgrees ==
  ASSUME NEW o \in Ops, Settles(o), result[o] # "error",
         opc[o] \in {"read", "release"}, NEW c, c = conn[o]
  PROVE  Shows(Attachments(PanelOf[c.rev]), o)
<1>1. IF Detaches(o) THEN ~HasOwn(o) ELSE HasOrLost(o)
  BY DEF Settles
<1> QED
  BY <1>1, HasIsOwn DEF Shows, Has, HasOrLost, PanelAt

LEMMA MutateShows ==
  ASSUME OpTypes, NEW o \in Ops, Mutate(o)
  PROVE  /\ shown' = shown \/ (RefreshEnds(o) /\ Publishes(o))
         /\ opc'[o] = "publish" => RefreshReads(o)
         /\ opc'[o] = "read" => Refresh(o)
         /\ Refresh(o) \/ RefreshEnds(o) \/ RefreshFails(o) \/ mu' = mu
         /\ fresh'[o] => \/ RefreshEnds(o) /\ Publishes(o)
                         \/ fresh[o] /\ (opc[o] \in {"release", "next"} => opc'[o] = "next")
<1> USE DEF To, Ends, Is, OpTypes, snapVars
<1>1. CASE Start(o) \/ TakeGate(o) \/ LeaveGate(o) \/ OpenCopy(o) \/ OpenConnection(o) \/ ListClients(o) \/ ReadFails(o)
  BY <1>1 DEF Start, TakeGate, LeaveGate, OpenCopy, OpenConnection, ListClients, ReadFails
<1>2. CASE \/ DecideNoop(o) \/ DecideAttach(o) \/ DecideDetach(o) \/ SendAttachment(o) \/ SendDetachment(o)
           \/ DetachEnds(o) \/ PanelAnswers(o) \/ PostFails(o) \/ PostDelayed(o) \/ Confirm(o)
  BY <1>2 DEF DecideNoop, DecideAttach, DecideDetach, Decides, SendAttachment, SendDetachment, DetachEnds,
     PanelAnswers, PostFails, PostDelayed, Returns, Confirm
<1>3. CASE Refresh(o) \/ RefreshReads(o) \/ RefreshFails(o) \/ Release(o) \/ Return(o)
  BY <1>3 DEF Refresh, RefreshReads, RefreshFails, Release, Return
<1>4. CASE RefreshEnds(o)
  BY <1>4 DEF RefreshEnds
<1> QED
  BY <1>1, <1>2, <1>3, <1>4 DEF Mutate, Proceeds

LEMMA MuStep ==
  ASSUME OpTypes, MuHeld, [GroupNext]_groupVars
  PROVE  MuHeld'
<1>1. CASE Outside
  BY <1>1, OutsideStays DEF opVars, snapVars, MuHeld
<1>2. ASSUME NEW o \in Ops, Mutate(o)
      PROVE  MuHeld'
  <2> USE DEF To, Is, OpTypes
  <2>1. \A x \in Ops \ {o} : opc'[x] = opc[x] /\ fresh'[x] = fresh[x]
    BY <1>2, OthersStay DEF OpStays
  <2>2. ASSUME NEW x \in Ops, opc'[x] \in {"read", "publish"}
        PROVE  mu' = x
    <3>1. CASE x = o
      BY <1>2, <2>2, <3>1, MutateShows DEF Refresh, RefreshReads, MuHeld
    <3>2. CASE x # o
      <4>1. mu = x
        BY <2>1, <2>2, <3>2 DEF MuHeld
      <4>2. ~Refresh(o) /\ ~RefreshEnds(o) /\ (RefreshFails(o) => mu' = mu)
        BY <3>2, <4>1 DEF Refresh, MuFree, RefreshEnds, RefreshFails, MuHeld
      <4> QED
        BY <1>2, <4>1, <4>2, MutateShows
    <3> QED
      BY <3>1, <3>2
  <2>3. fresh'[o] => opc'[o] \in {"release", "next"}
    <3>1. RefreshEnds(o) => opc'[o] = "release"
      BY DEF RefreshEnds
    <3>2. fresh[o] => opc[o] \in {"release", "next"}
      BY DEF MuHeld
    <3>3. fresh'[o] => RefreshEnds(o) \/ (fresh[o] /\ (opc[o] \in {"release", "next"} => opc'[o] = "next"))
      BY <1>2, MutateShows
    <3> QED
      BY <3>1, <3>2, <3>3
  <2> QED
    BY <2>1, <2>2, <2>3 DEF MuHeld
<1> QED
  BY <1>1, <1>2, StepIs

LEMMA StayerAgrees ==
  ASSUME CacheInv, OpTypes, ConnsHeld, [ConnNext]_aggVars, NEW o \in Ops, OpStays(o), ViewsAgree(o),
         o \in orphaned => o \in orphaned', opc[o] = "release" => conn[o] # None,
         \A x \in Ops : opc'[x] = "publish" /\ view'[x].from = conn[o] /\ opc[o] = "release" =>
           \/ opc[x] = "publish" /\ view'[x] = view[x]
           \/ Shows(view'[x].links, o),
         opc[o] = "release" /\ fresh[o] /\ Current(conn[o]) =>
           shown'[ServerOf(o)] = shown[ServerOf(o)] \/ Shows(shown'[ServerOf(o)], o)
  PROVE  ViewsAgree(o)'
<1>1. /\ \A l : Shows(l, o) => Shows(l, o)'
      /\ ServerOf(o)' = ServerOf(o) /\ opc'[o] = opc[o] /\ conn'[o] = conn[o]
      /\ view'[o] = view[o] /\ fresh'[o] = fresh[o]
  BY DEF OpStays, Shows, Group, Target, Detaches, ServerOf
<1>2. Current(conn[o])' /\ opc[o] = "release" => Current(conn[o])
  BY <1>1, CurrentWas
<1>3. \A x \in Ops : opc'[o] = "release" /\ fresh'[o] /\ opc'[x] = "publish" /\ view'[x].from = conn'[o]
        => Shows(view'[x].links, o)
  BY <1>1 DEF ViewsAgree
<1>4. opc'[o] = "release" /\ fresh'[o] /\ Current(conn[o])' => Shows(shown'[ServerOf(o)], o)
  BY <1>1, <1>2 DEF ViewsAgree
<1>5. opc'[o] = "publish" /\ view'[o].from = conn'[o] => Shows(view'[o].links, o)
  BY <1>1 DEF ViewsAgree
<1> QED
  BY <1>1, <1>3, <1>4, <1>5 DEF ViewsAgree, Shows

LEMMA MutateAgrees ==
  ASSUME NEW Site, SnapshotInv(Site), delays = 0, NEW o \in Ops, Mutate(o), result'[o] # "error"
  PROVE  ViewsAgree(o)'
<1> USE DEF To, Is, OpTypes, opVars, snapVars
<1>1. OpTypes /\ ConnsHeld /\ MuHeld /\ Settles(o)
  BY DEF SnapshotInv, MutationsInv, RecordsInv
<1>2. CASE RefreshReads(o)
  <2>1. /\ opc[o] = "read" /\ opc'[o] = "publish" /\ conn'[o] = conn[o] /\ result'[o] = result[o]
        /\ view'[o] = [view[o] EXCEPT !.links = Attachments(PanelOf[view[o].from.rev])]
        /\ \A l : Shows(l, o)' <=> Shows(l, o)
    BY <1>1, <1>2 DEF RefreshReads, Shows, Group, Target, Detaches, panelVars, undoVars
  <2>2. view[o] = [from |-> view[o].from, links |-> view[o].links]
    BY <1>1, <2>1 DEF ConnsHeld, ConnHeld
  <2>3. view'[o].from = view[o].from /\ view'[o].links = Attachments(PanelOf[view[o].from.rev])
    BY <2>1, <2>2
  <2>4. view'[o].from = conn[o] => Shows(view'[o].links, o)
    <3>1. \A c : c = conn[o] => Shows(Attachments(PanelOf[c.rev]), o)
      BY <1>1, <2>1, ReadingAgrees
    <3> QED
      BY <2>3, <3>1
  <2> QED
    BY <2>1, <2>4 DEF ViewsAgree, Shows
<1>3. CASE RefreshEnds(o) /\ Publishes(o)
  <2>1. /\ opc[o] = "publish" /\ opc' = [opc EXCEPT ![o] = "release"] /\ conn'[o] = conn[o]
        /\ result'[o] = result[o]
        /\ \A l : Shows(l, o)' <=> Shows(l, o)
        /\ ServerOf(o)' = ServerOf(o) /\ plan'[o] = plan[o]
    BY <1>1, <1>3 DEF RefreshEnds, Shows, Group, Target, Detaches, ServerOf, panelVars, undoVars
  <2>2. /\ fresh'[o] = (view[o].from = conn[o])
        /\ shown' = [shown EXCEPT ![ServerOf(o)] = view[o].links]
    BY <1>1, <1>3 DEF Publishes
  <2>3. view[o].from = conn[o] => Shows(view[o].links, o)
    BY <2>1 DEF SnapshotInv, ViewsAgree
  <2>4. \A x \in Ops : opc'[x] # "publish"
    BY <1>1, <2>1 DEF MuHeld
  <2>5. ServerOf(o) \in DOMAIN shown
    BY <1>1, <2>1, PlanIsTyped DEF ConnsHeld, ConnHeld, ServerOf
  <2>6. fresh'[o] => Shows(shown'[ServerOf(o)], o)
    BY <2>2, <2>3, <2>5
  <2> QED
    BY <2>1, <2>4, <2>6 DEF ViewsAgree, Shows
<1>4. CASE ~RefreshReads(o) /\ ~(RefreshEnds(o) /\ Publishes(o))
  <2>1. opc'[o] # "publish" /\ (fresh'[o] => opc'[o] = "next")
    BY <1>1, <1>4, MutateShows DEF MuHeld
  <2> QED
    BY <2>1 DEF ViewsAgree
<1> QED
  BY <1>2, <1>3, <1>4

\* While another mutation x acts, o waits.
LEMMA OthersAgree ==
  ASSUME NEW Site, SnapshotInv(Site), delays = 0, NEW o \in Ops, NEW x \in Ops \ {o}, Mutate(x), OpStays(o),
         o \in orphaned => o \in orphaned', result[o] # "error", [ConnNext]_aggVars
  PROVE  ViewsAgree(o)'
<1>1. CacheInv /\ OpTypes /\ ConnsHeld /\ MuHeld /\ Settles(o) /\ ViewsAgree(o)
  BY DEF SnapshotInv, MutationsInv, RecordsInv
<1>2. opc[o] = "release" => conn[o] # None
  BY DEF SnapshotInv, MutationsInv, Leads
<1>3. ASSUME NEW y \in Ops, opc'[y] = "publish", view'[y].from = conn[o], opc[o] = "release"
      PROVE  (opc[y] = "publish" /\ view'[y] = view[y]) \/ Shows(view'[y].links, o)
  <2>1. CASE y # x
    BY <1>1, <1>3, <2>1, OthersStay DEF OpStays
  <2>2. CASE y = x
    <3>1. RefreshReads(x)
      BY <1>1, <1>3, <2>2, MutateShows
    <3>2. /\ opc[x] = "read"
          /\ view'[x] = [view[x] EXCEPT !.links = Attachments(PanelOf[view[x].from.rev])]
      BY <1>1, <3>1 DEF RefreshReads, OpTypes, Is
    <3>3. view[x] = [from |-> view[x].from, links |-> view[x].links]
      BY <1>1, <3>2 DEF ConnsHeld, ConnHeld
    <3>4. view[x].from = conn[o] /\ view'[x].links = Attachments(PanelOf[view[x].from.rev])
      BY <1>3, <2>2, <3>2, <3>3
    <3>5. \A c : c = conn[o] => Shows(Attachments(PanelOf[c.rev]), o)
      BY <1>1, <1>3, ReadingAgrees
    <3> QED
      BY <2>2, <3>4, <3>5
  <2> QED
    BY <2>1, <2>2
<1>4. ASSUME opc[o] = "release", fresh[o], Current(conn[o])
      PROVE  shown'[ServerOf(o)] = shown[ServerOf(o)] \/ Shows(shown'[ServerOf(o)], o)
  <2>1. CASE shown' = shown
    BY <2>1
  <2>2. CASE RefreshEnds(x) /\ Publishes(x)
    <3>1. /\ opc[x] = "publish" /\ clients[view[x].from.server] = view[x].from
          /\ shown' = [shown EXCEPT ![ServerOf(x)] = view[x].links]
      BY <2>2 DEF RefreshEnds, Publishes, Is, Current
    <3>2. CASE ServerOf(x) = ServerOf(o)
      <4>1. view[x].from.server = ServerOf(o) /\ conn[o].server = ServerOf(o) /\ ServerOf(o) \in Servers
        BY <1>1, <1>2, <1>4, <3>1, <3>2, PlanIsTyped DEF ConnsHeld, ConnHeld, StillHeld, ServerOf
      <4>2. view[x].from = conn[o]
        BY <1>4, <3>1, <4>1 DEF Current
      <4>3. Shows(view[x].links, o)
        BY <1>1, <1>4, <3>1, <4>2 DEF ViewsAgree
      <4> QED
        BY <1>1, <3>1, <3>2, <4>1, <4>3 DEF OpTypes
    <3>3. CASE ServerOf(x) # ServerOf(o)
      BY <3>1, <3>3
    <3> QED
      BY <3>2, <3>3
  <2> QED
    BY <1>1, <2>1, <2>2, MutateShows
<1> QED
  BY <1>1, <1>2, <1>3, <1>4, StayerAgrees

LEMMA SnapshotGoesOn ==
  ASSUME NEW Site, SnapshotInv(Site), OneServer(Site), [GroupNext]_groupVars
  PROVE  SnapshotInv(Site)'
<1>1. RecordsInv /\ [ConnNext]_aggVars /\ MutationsInv(Site)'
  BY RecordsGoOn, MutationsGoOn DEF SnapshotInv, MutationsInv
<1>2. CacheInv /\ OpTypes /\ ConnsHeld /\ MuHeld
  BY <1>1 DEF RecordsInv, SnapshotInv
<1>3. MuHeld' /\ (delays' = 0 => delays = 0)
  BY <1>2, MuStep, LateStep DEF SnapshotInv, MutationsInv
<1>4. SUFFICES ASSUME delays = 0, NEW o \in Ops, result'[o] # "error"
               PROVE  ViewsAgree(o)'
  BY <1>1, <1>3 DEF SnapshotInv
<1>5. CASE Mutate(o)
  BY <1>4, <1>5, MutateAgrees
<1>6. ASSUME NEW x \in Ops \ {o}, Mutate(x)
      PROVE  ViewsAgree(o)'
  <2>1. OpStays(o) /\ (o \in orphaned => o \in orphaned')
    BY <1>2, <1>6, OthersStay
  <2>2. result[o] # "error"
    BY <1>4, <2>1 DEF OpStays
  <2> QED
    BY <1>1, <1>4, <1>6, <2>1, <2>2, OthersAgree
<1>7. CASE Outside
  <2>1. \A x \in Ops : OpStays(x)
    BY <1>2, <1>7, EveryoneStays
  <2>2. shown' = shown /\ (o \in orphaned => o \in orphaned')
    BY <1>7, OutsideStays DEF snapVars
  <2>3. ViewsAgree(o) /\ (opc[o] = "release" => conn[o] # None)
    BY <1>4, <2>1 DEF OpStays, SnapshotInv, MutationsInv, Leads
  <2>4. \A x \in Ops : opc'[x] = "publish" => opc[x] = "publish" /\ view'[x] = view[x]
    BY <2>1 DEF OpStays
  <2> QED
    BY <1>1, <1>2, <2>1, <2>2, <2>3, <2>4, StayerAgrees
<1> QED
  BY <1>5, <1>6, <1>7, StepIs

\* What refreshes have read and published agrees with the mutations that have
\* succeeded and still wait to return.
THEOREM SnapshotInvariant ==
  ASSUME NEW Site
  PROVE  GroupSpec /\ []OneServer(Site) => []SnapshotInv(Site)
<1>1. GroupInit => SnapshotInv(Site)
  <2> SUFFICES ASSUME GroupInit
               PROVE  SnapshotInv(Site)
    OBVIOUS
  <2>1. MutationsInv(Site)
    BY MutationsStart
  <2> QED
    BY <2>1 DEF GroupInit, SnapshotInv, MuHeld, ViewsAgree
<1>2. SnapshotInv(Site) /\ OneServer(Site) /\ [GroupNext]_groupVars => SnapshotInv(Site)'
  BY SnapshotGoesOn
<1> QED
  BY <1>1, <1>2, PTL DEF GroupSpec

LEMMA SnapshotHolds ==
  ASSUME NEW Site, SnapshotInv(Site)
  PROVE  SnapshotShowsSuccess
<1> SUFFICES ASSUME NEW o \in Ops, Is(o, "release"), result[o] # "error", delays = 0,
                    fresh[o], Current(conn[o])
             PROVE  IF plan[o].kind = "detach"
                      THEN <<Group(o), Target(o)>> \notin shown[ServerOf(o)]
                      ELSE <<Group(o), Target(o)>> \in shown[ServerOf(o)] \/ o \in orphaned
  BY DEF SnapshotShowsSuccess
<1>1. Shows(shown[ServerOf(o)], o)
  BY DEF SnapshotInv, ViewsAgree, Is
<1> QED
  BY <1>1 DEF Shows, Detaches

\* RefreshNow: when a mutation returns, the snapshot shows what it did, whatever
\* other refreshes publish in between, as long as a panel is reached by one server
\* and unless the inbound was deleted since the mutation connected.
THEOREM SnapshotStands ==
  ASSUME NEW Site
  PROVE  GroupSpec /\ []OneServer(Site) => []SnapshotShowsSuccess
<1>1. SnapshotInv(Site) => SnapshotShowsSuccess
  BY SnapshotHolds
<1> QED
  BY SnapshotInvariant, <1>1, PTL

-----------------------------------------------------------------------------
(* The parts a mutation is composed of.                                     *)

\* A mutation reads and replaces connections as the aggregator does, so what is
\* proved of Connections and its link cache holds while mutations run.
THEOREM MutationsUseConnections == GroupSpec => ConnSpec
<1>1. GroupInit => ConnInit
  BY DEF GroupInit
<1>2. RecordsInv /\ [GroupNext]_groupVars => [ConnNext]_aggVars
  BY RecordsGoOn
<1> QED
  BY RecordsInvariant, <1>1, <1>2, PTL DEF GroupSpec, ConnSpec

\* It takes and gives back gates as their specification allows.
THEOREM MutationsUseGates == GroupSpec => Gate!Spec
<1>1. GroupInit => Gate!Init
  BY DEF GroupInit, Gate!Init
<1>2. RecordsInv /\ [GroupNext]_groupVars => [Gate!Next]_owned
  <2> SUFFICES ASSUME RecordsInv, [GroupNext]_groupVars
               PROVE  [Gate!Next]_owned
    OBVIOUS
  <2>1. CASE Outside
    BY <2>1, OutsideStays
  <2>2. ASSUME NEW o \in Ops, Mutate(o)
        PROVE  [Gate!Next]_owned
    <3>1. CASE UNCHANGED owned
      BY <3>1
    <3>2. CASE TakeGate(o) \/ Release(o)
      <4>1. opc[o] # "idle"
        BY <3>2 DEF TakeGate, Release, Is
      <4>2. GateOf(o) \in Servers \X Subs
        BY <4>1, PlanIsTyped DEF RecordsInv, ConnsHeld, ConnHeld, GateOf, ServerOf, Group
      <4> QED
        BY <3>2, <4>2 DEF TakeGate, Release, Gate!Next
    <3> QED
      BY <2>2, <3>1, <3>2, MutateActs DEF RecordsInv
  <2> QED
    BY <2>1, <2>2, StepIs
<1> QED
  BY RecordsInvariant, <1>1, <1>2, PTL DEF GroupSpec, Gate!Spec

=============================================================================
