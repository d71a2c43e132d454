----------------------- MODULE InboundMutationsProofs -----------------------
(***************************************************************************)
(* Proofs about InboundMutations for any servers, panels, groups, inbounds *)
(* and client records: what a copy removes is its own, a copy that         *)
(* succeeds is complete, and one that fails leaves nothing unreported.     *)
(***************************************************************************)
EXTENDS InboundMutations, ConnectionsProofs, SequenceTheorems

-----------------------------------------------------------------------------
(* The panels.                                                              *)

GroupSet == {Groups[n] : n \in DOMAIN Groups}

\* Two states of one record, which keeps its UUID and its group.
Like(d, c) == d.uuid = c.uuid /\ d.sub = c.sub

\* The records of a panel have UUIDs of their own; the copy makes records of its
\* groups only.
RecordsOK ==
  /\ DOMAIN inbounds = Panels /\ DOMAIN records = Panels
  /\ minted \in Nat
  /\ \A u \in ours : u \in Nat /\ u <= minted
  /\ \A p \in Panels : \A c \in records[p] :
       /\ c = Record(c.uuid, c.sub, c.on) /\ c.uuid \in Nat /\ c.uuid <= minted
       /\ c.uuid \in ours => c.sub \in GroupSet
  /\ \A p \in Panels : \A c, d \in records[p] : c.uuid = d.uuid => c = d

LEMMA RecordFields ==
  ASSUME NEW u, NEW g, NEW S
  PROVE  LET r == Record(u, g, S) IN
         /\ r.uuid = u /\ r.sub = g /\ r.on = S
         /\ r = Record(r.uuid, r.sub, r.on)
BY DEF Record

LEMMA OnChanged ==
  ASSUME NEW c, c = Record(c.uuid, c.sub, c.on), NEW S
  PROVE  [c EXCEPT !.on = S] = Record(c.uuid, c.sub, S)
BY DEF Record

LEMMA RecordsInit == InboundInit => RecordsOK
<1> SUFFICES ASSUME InboundInit PROVE RecordsOK
  OBVIOUS
<1>1. inbounds = StoredInbounds /\ records = StoredRecords /\ ours = {}
  BY DEF InboundInit
<1> DEFINE R == UNION {StoredRecords[p] : p \in Panels}
           D == {c.uuid : c \in R}
           S == {0} \cup D
<1>2. IsFiniteSet(D)
  <2> DEFINE P == {StoredRecords[p] : p \in Panels}
  <2>1. IsFiniteSet(P)
    BY StoredAssumption, ImageFinite
  <2>2. \A T \in P : IsFiniteSet(T)
    BY StoredAssumption
  <2>3. IsFiniteSet(R)
    <3> HIDE DEF P
    <3>1. IsFiniteSet(UNION P)
      BY <2>1, <2>2, FS_UNION
    <3> QED
      BY <3>1 DEF P
  <2> DEFINE f == [c \in R |-> c.uuid]
  <2>4. D = {f[c] : c \in R}
    OBVIOUS
  <2> HIDE DEF f, R, D
  <2> QED
    BY <2>3, <2>4, ImageFinite
<1>3. S \in SUBSET Nat /\ S # {}
  BY StoredAssumption
<1>4. IsFiniteSet(S)
  BY <1>2, FS_Union, FS_Singleton
<1>5. minted = Max(S)
  BY DEF InboundInit
<1>6. minted \in Nat /\ \A u \in S : u <= minted
  <2> HIDE DEF S
  <2>1. PICK m \in S : \A n \in S : m >= n
    BY <1>3, <1>4, GreatestNatural
  <2>2. Max(S) \in S /\ \A n \in S : Max(S) >= n
    BY <2>1 DEF Max
  <2> QED
    BY <1>3, <1>5, <2>2
<1>7. ASSUME NEW p \in Panels, NEW c \in records[p]
      PROVE  c = Record(c.uuid, c.sub, c.on) /\ c.uuid \in Nat /\ c.uuid <= minted
  BY <1>1, <1>6, StoredAssumption
<1> QED
  BY <1>1, <1>6, <1>7, StoredAssumption DEF RecordsOK

\* A record is added.
LEMMA Added ==
  ASSUME RecordsOK, NEW p \in Panels, NEW g \in GroupSet, NEW i, AddClient(p, g, i),
         ours' \in {ours, ours \cup {minted'}}
  PROVE  /\ RecordsOK' /\ minted' = minted + 1
         /\ \A q \in Panels \ {p} : records'[q] = records[q]
         /\ records'[p] = records[p] \cup {Record(minted + 1, g, {i})}
<1> DEFINE r == Record(minted + 1, g, {i})
<1>1. /\ r.uuid = minted + 1 /\ r.sub = g /\ r = Record(r.uuid, r.sub, r.on)
  BY RecordFields
<1>2. /\ DOMAIN records' = Panels /\ inbounds' = inbounds /\ minted' = minted + 1
      /\ \A q \in Panels \ {p} : records'[q] = records[q]
      /\ records'[p] = records[p] \cup {r}
  BY DEF AddClient, RecordsOK
<1> HIDE DEF r
<1>3. minted \in Nat /\ \A u \in ours : u \in Nat /\ u <= minted
  BY DEF RecordsOK
<1>4. \A u \in ours' : u \in Nat /\ u <= minted'
  BY <1>2, <1>3
<1>5. ASSUME NEW q \in Panels, NEW c \in records'[q]
      PROVE  /\ c = Record(c.uuid, c.sub, c.on) /\ c.uuid \in Nat /\ c.uuid <= minted'
             /\ c.uuid \in ours' => c.sub \in GroupSet
  <2>1. CASE c \in records[q]
    <3>1. /\ c = Record(c.uuid, c.sub, c.on) /\ c.uuid \in Nat /\ c.uuid <= minted
          /\ c.uuid \in ours => c.sub \in GroupSet
      BY <2>1 DEF RecordsOK
    <3> QED
      BY <1>2, <1>3, <3>1
  <2>2. CASE c = r
    BY <1>1, <1>2, <1>3, <2>2
  <2> QED
    BY <1>2, <2>1, <2>2
<1>6. ASSUME NEW q \in Panels, NEW c \in records'[q], NEW d \in records'[q], c.uuid = d.uuid
      PROVE  c = d
  <2>1. \A x \in records[p] : x.uuid # r.uuid
    BY <1>1, <1>3 DEF RecordsOK
  <2> QED
    BY <1>2, <1>6, <2>1 DEF RecordsOK
<1>7. RecordsOK'
  <2>1. DOMAIN inbounds' = Panels
    BY <1>2 DEF RecordsOK
  <2>2. minted' \in Nat
    BY <1>2, <1>3
  <2> QED
    BY <1>2, <1>4, <1>5, <1>6, <2>1, <2>2 DEF RecordsOK
<1> QED
  BY <1>2, <1>7 DEF r

\* The inbounds of records of one panel change.
LEMMA Turned ==
  ASSUME RecordsOK, NEW p \in Panels, NEW F,
         \A c \in records[p] : F[c] = Record(c.uuid, c.sub, F[c].on),
         records' = [records EXCEPT ![p] = {F[c] : c \in records[p]}],
         UNCHANGED <<minted, ours>>, DOMAIN inbounds' = Panels
  PROVE  /\ RecordsOK'
         /\ \A q \in Panels \ {p} : records'[q] = records[q]
         /\ \A c \in records[p] : F[c] \in records'[p] /\ Like(F[c], c)
         /\ \A d \in records'[p] : \E c \in records[p] : d = F[c] /\ Like(d, c)
<1>1. /\ DOMAIN records' = Panels
      /\ \A q \in Panels \ {p} : records'[q] = records[q]
      /\ records'[p] = {F[c] : c \in records[p]}
  BY DEF RecordsOK
<1>2. \A c \in records[p] : /\ F[c].uuid = c.uuid /\ F[c].sub = c.sub
                            /\ F[c] = Record(F[c].uuid, F[c].sub, F[c].on)
  BY RecordFields
<1>3. ASSUME NEW q \in Panels, NEW c \in records'[q]
      PROVE  /\ c = Record(c.uuid, c.sub, c.on) /\ c.uuid \in Nat /\ c.uuid <= minted
             /\ c.uuid \in ours => c.sub \in GroupSet
  <2>1. CASE q # p
    BY <1>1, <2>1 DEF RecordsOK
  <2>2. CASE q = p
    <3>1. PICK x \in records[p] : c = F[x]
      BY <1>1, <2>2
    <3> QED
      BY <1>2, <3>1 DEF RecordsOK
  <2> QED
    BY <2>1, <2>2
<1>4. ASSUME NEW q \in Panels, NEW c \in records'[q], NEW d \in records'[q], c.uuid = d.uuid
      PROVE  c = d
  <2>1. CASE q # p
    BY <1>1, <1>4, <2>1 DEF RecordsOK
  <2>2. CASE q = p
    <3>1. PICK x \in records[p] : c = F[x]
      BY <1>1, <2>2
    <3>2. PICK y \in records[p] : d = F[y]
      BY <1>1, <2>2
    <3>3. x = y
      BY <1>2, <1>4, <3>1, <3>2 DEF RecordsOK
    <3> QED
      BY <3>1, <3>2, <3>3
  <2> QED
    BY <2>1, <2>2
<1>5. RecordsOK'
  BY <1>1, <1>3, <1>4 DEF RecordsOK
<1> QED
  BY <1>1, <1>2, <1>5 DEF Like

\* The copy removes a record.
LEMMA Deleted ==
  ASSUME RecordsOK, NEW p \in Panels, NEW u, DeleteClient(p, u)
  PROVE  /\ RecordsOK'
         /\ \A q \in Panels \ {p} : records'[q] = records[q]
         /\ records'[p] = {c \in records[p] : c.uuid # u}
<1>1. /\ DOMAIN records' = Panels /\ inbounds' = inbounds /\ minted' = minted /\ ours' = ours
      /\ \A q \in Panels \ {p} : records'[q] = records[q]
      /\ records'[p] = {c \in records[p] : c.uuid # u}
  BY DEF DeleteClient, RecordsOK
<1>2. \A q \in Panels : \A c \in records'[q] : c \in records[q]
  BY <1>1
<1> QED
  BY <1>1, <1>2 DEF RecordsOK

\* A record is put on an inbound.
LEMMA RecordAttached ==
  ASSUME RecordsOK, NEW p \in Panels, NEW u, NEW i, AttachClient(p, u, i)
  PROVE  /\ RecordsOK'
         /\ \A q \in Panels \ {p} : records'[q] = records[q]
         /\ \A c \in records[p] : \E d \in records'[p] :
              Like(d, c) /\ c.on \subseteq d.on /\ (c.uuid = u => i \in d.on)
         /\ \A d \in records'[p] : \E c \in records[p] : Like(d, c) /\ (c.uuid # u => d = c)
<1> DEFINE F == [c \in records[p] |-> IF c.uuid = u THEN [c EXCEPT !.on = @ \cup {i}] ELSE c]
<1>1. UNCHANGED <<inbounds, minted, ours>>
  BY DEF AttachClient
<1>2. ASSUME NEW c \in records[p]
      PROVE  /\ F[c] = Record(c.uuid, c.sub, F[c].on)
             /\ c.on \subseteq F[c].on /\ (c.uuid = u => i \in F[c].on) /\ (c.uuid # u => F[c] = c)
  <2>1. c = Record(c.uuid, c.sub, c.on)
    BY DEF RecordsOK
  <2>2. CASE c.uuid = u
    <3>1. F[c] = Record(c.uuid, c.sub, c.on \cup {i})
      BY <2>1, <2>2, OnChanged
    <3> HIDE DEF F
    <3> QED
      BY <3>1, <2>2, RecordFields
  <2>3. CASE c.uuid # u
    BY <2>1, <2>3
  <2> QED
    BY <2>2, <2>3
<1>3. records' = [records EXCEPT ![p] = {F[c] : c \in records[p]}]
  BY DEF AttachClient
<1>4. DOMAIN inbounds' = Panels /\ UNCHANGED <<minted, ours>>
  BY <1>1 DEF RecordsOK
<1> HIDE DEF F
<1>5. /\ RecordsOK'
      /\ \A q \in Panels \ {p} : records'[q] = records[q]
      /\ \A c \in records[p] : F[c] \in records'[p] /\ Like(F[c], c)
      /\ \A d \in records'[p] : \E c \in records[p] : d = F[c] /\ Like(d, c)
  <2>1. \A c \in records[p] : F[c] = Record(c.uuid, c.sub, F[c].on)
    BY <1>2
  <2> QED
    BY <1>3, <1>4, <2>1, Turned
<1> QED
  BY <1>2, <1>5

\* The records of a group are taken off an inbound.
LEMMA RecordsDetached ==
  ASSUME RecordsOK, NEW p \in Panels, NEW C, NEW i, UNCHANGED <<inbounds, minted, ours>>,
         NEW D, records' = [records EXCEPT ![p] = D],
         \A d : d \in D <=>
           \E c \in records[p] : d = IF c \in C THEN [c EXCEPT !.on = @ \ {i}] ELSE c
  PROVE  /\ RecordsOK'
         /\ \A q \in Panels \ {p} : records'[q] = records[q]
         /\ \A c \in records[p] : \E d \in records'[p] : Like(d, c)
         /\ \A d \in records'[p] : \E c \in records[p] : Like(d, c)
<1> DEFINE F == [c \in records[p] |-> IF c \in C THEN [c EXCEPT !.on = @ \ {i}] ELSE c]
<1>1. ASSUME NEW c \in records[p]
      PROVE  F[c] = Record(c.uuid, c.sub, F[c].on)
  <2>1. c = Record(c.uuid, c.sub, c.on)
    BY DEF RecordsOK
  <2>2. CASE c \in C
    <3>1. F[c] = Record(c.uuid, c.sub, c.on \ {i})
      BY <2>1, <2>2, OnChanged
    <3> HIDE DEF F
    <3> QED
      BY <3>1, RecordFields
  <2>3. CASE c \notin C
    BY <2>1, <2>3
  <2> QED
    BY <2>2, <2>3
<1>2. records' = [records EXCEPT ![p] = {F[c] : c \in records[p]}]
  <2>1. D = {F[c] : c \in records[p]}
    OBVIOUS
  <2> HIDE DEF F
  <2> QED
    BY <2>1
<1>3. DOMAIN inbounds' = Panels /\ UNCHANGED <<minted, ours>>
  BY DEF RecordsOK
<1> HIDE DEF F
<1>4. /\ RecordsOK'
      /\ \A q \in Panels \ {p} : records'[q] = records[q]
      /\ \A c \in records[p] : F[c] \in records'[p] /\ Like(F[c], c)
      /\ \A d \in records'[p] : \E c \in records[p] : d = F[c] /\ Like(d, c)
  <2>1. \A c \in records[p] : F[c] = Record(c.uuid, c.sub, F[c].on)
    BY <1>1
  <2> QED
    BY <1>2, <1>3, <2>1, Turned
<1> QED
  BY <1>4

\* An inbound is deleted, and no record is on it any more.
LEMMA InboundDeleted ==
  ASSUME RecordsOK, NEW p \in Panels, NEW i, DeleteInbound(p, i)
  PROVE  /\ RecordsOK'
         /\ \A q \in Panels \ {p} : records'[q] = records[q] /\ inbounds'[q] = inbounds[q]
         /\ inbounds'[p] = {x \in inbounds[p] : x.id # i}
         /\ \A c \in records[p] : \E d \in records'[p] : Like(d, c) /\ d.on = c.on \ {i}
         /\ \A d \in records'[p] : \E c \in records[p] : Like(d, c) /\ d.on = c.on \ {i}
<1> DEFINE F == [c \in records[p] |-> [c EXCEPT !.on = @ \ {i}]]
<1>1. /\ UNCHANGED <<minted, ours>> /\ DOMAIN inbounds' = Panels
      /\ inbounds'[p] = {x \in inbounds[p] : x.id # i}
      /\ \A q \in Panels \ {p} : inbounds'[q] = inbounds[q]
  BY DEF DeleteInbound, RecordsOK
<1>2. ASSUME NEW c \in records[p]
      PROVE  F[c] = Record(c.uuid, c.sub, F[c].on) /\ F[c].on = c.on \ {i}
  <2>1. c = Record(c.uuid, c.sub, c.on)
    BY DEF RecordsOK
  <2>2. F[c] = Record(c.uuid, c.sub, c.on \ {i})
    BY <2>1, OnChanged
  <2> HIDE DEF F
  <2> QED
    BY <2>2, RecordFields
<1>3. records' = [records EXCEPT ![p] = {F[c] : c \in records[p]}]
  BY DEF DeleteInbound
<1> HIDE DEF F
<1>4. /\ RecordsOK'
      /\ \A q \in Panels \ {p} : records'[q] = records[q]
      /\ \A c \in records[p] : F[c] \in records'[p] /\ Like(F[c], c)
      /\ \A d \in records'[p] : \E c \in records[p] : d = F[c] /\ Like(d, c)
  <2>1. \A c \in records[p] : F[c] = Record(c.uuid, c.sub, F[c].on)
    BY <1>2
  <2>2. DOMAIN inbounds' = Panels /\ UNCHANGED <<minted, ours>>
    BY <1>1
  <2> QED
    BY <1>3, <2>1, <2>2, Turned
<1> QED
  BY <1>1, <1>2, <1>4

-----------------------------------------------------------------------------
(* What others do while a copy runs.                                        *)

\* The copy holds the gates of its groups on the target.
GatesHeld == \A g \in GroupSet : <<"copy", <<Target, g>>>> \in owned

EditOK == DOMAIN edit = {"pc", "conn", "id", "kind"} /\ (edit.pc = "post" => edit.conn.rev \in Revs)

\* No inbound comes and no record goes; what the gates cover stays on its inbounds,
\* as long as they are there.
OthersStep ==
  /\ copy' = copy /\ ours' = ours /\ lost' = lost
  /\ GatesHeld => GatesHeld'
  /\ \A q \in Panels : \A x \in inbounds'[q] : \E y \in inbounds[q] : y.id = x.id
  /\ \A q \in Panels : \A c \in records[q] : \E d \in records'[q] :
       /\ Like(d, c)
       /\ GatesHeld => \A i \in c.on : i \in d.on \/ \A x \in inbounds'[q] : x.id # i
  /\ \A q \in Panels : \A d \in records'[q] :
       \/ d.uuid \notin ours
       \/ \E c \in records[q] : Like(d, c) /\ (GatesHeld => d.on \subseteq c.on)

LEMMA LikeSelf == \A c : Like(c, c)
BY DEF Like

LEMMA RecordsStay ==
  ASSUME RecordsOK, UNCHANGED <<copy, panelVars>>, GatesHeld => GatesHeld'
  PROVE  OthersStep /\ RecordsOK'
BY LikeSelf DEF OthersStep, RecordsOK, panelVars

LEMMA EditPosts ==
  ASSUME RecordsOK, EditOK, EditPost
  PROVE  OthersStep /\ RecordsOK' /\ EditOK'
<1> DEFINE p == PanelOf[edit.conn.rev]
<1>1. p \in Panels
  BY PanelOfAssumption DEF EditPost, EditOK
<1>2. UNCHANGED <<lost, owned, copy>> /\ edit' = [edit EXCEPT !.pc = "refresh"]
  BY DEF EditPost
<1>3. EditOK'
  BY <1>2 DEF EditOK
<1>4. GatesHeld => GatesHeld'
  BY <1>2 DEF GatesHeld
<1>5. CASE edit.kind = "delete"
  <2>1. DeleteInbound(p, edit.id)
    BY <1>5 DEF EditPost
  <2>2. ours' = ours
    BY <2>1 DEF DeleteInbound
  <2> HIDE DEF p
  <2> DEFINE i == edit.id
  <2>3. /\ RecordsOK'
        /\ \A q \in Panels \ {p} : records'[q] = records[q] /\ inbounds'[q] = inbounds[q]
        /\ inbounds'[p] = {x \in inbounds[p] : x.id # i}
        /\ \A c \in records[p] : \E d \in records'[p] : Like(d, c) /\ d.on = c.on \ {i}
        /\ \A d \in records'[p] : \E c \in records[p] : Like(d, c) /\ d.on = c.on \ {i}
    BY <1>1, <2>1, InboundDeleted
  <2> HIDE DEF i
  <2>4. \A q \in Panels : \A x \in inbounds'[q] : \E y \in inbounds[q] : y.id = x.id
    BY <2>3
  <2>5. ASSUME NEW q \in Panels, NEW c \in records[q]
        PROVE  \E d \in records'[q] :
                 Like(d, c) /\ \A j \in c.on : j \in d.on \/ \A x \in inbounds'[q] : x.id # j
    <3>1. CASE q = p
      <4>1. PICK d \in records'[p] : Like(d, c) /\ d.on = c.on \ {i}
        BY <2>3, <2>5, <3>1
      <4> QED
        BY <2>3, <3>1, <4>1
    <3>2. CASE q # p
      BY <2>3, <3>2, LikeSelf
    <3> QED
      BY <3>1, <3>2
  <2>6. ASSUME NEW q \in Panels, NEW d \in records'[q]
        PROVE  \E c \in records[q] : Like(d, c) /\ d.on \subseteq c.on
    <3>1. CASE q = p
      BY <2>3, <2>6, <3>1
    <3>2. CASE q # p
      BY <2>3, <3>2, LikeSelf
    <3> QED
      BY <3>1, <3>2
  <2> QED
    BY <1>2, <1>3, <1>4, <2>2, <2>3, <2>4, <2>5, <2>6 DEF OthersStep
<1>6. CASE edit.kind # "delete"
  <2>1. /\ inbounds' = [inbounds EXCEPT ![p] =
                          {IF x.id = edit.id THEN Inbound(x.id, "edited") ELSE x : x \in @}]
        /\ UNCHANGED <<records, minted, ours>>
    BY <1>6 DEF EditPost
  <2> HIDE DEF p
  <2>2. \A j : Inbound(j, "edited").id = j
    BY DEF Inbound
  <2>3. DOMAIN inbounds' = Panels /\ \A q \in Panels : \A x \in inbounds'[q] : \E y \in inbounds[q] : y.id = x.id
    BY <2>1, <2>2 DEF RecordsOK
  <2>4. RecordsOK'
    BY <2>1, <2>3 DEF RecordsOK
  <2> QED
    BY <1>2, <1>3, <1>4, <2>1, <2>3, <2>4, LikeSelf DEF OthersStep
<1> QED
  BY <1>5, <1>6

\* Another request that attaches or detaches a group needs the gate of it.
LEMMA PeerStep ==
  ASSUME RecordsOK, PeerMutates
  PROVE  OthersStep /\ RecordsOK'
<1> DEFINE p == PanelAt(Target)
<1>1. p \in Panels
  BY PanelOfAssumption DEF PeerMutates, Connectable, PanelAt
<1>2. PICK g \in GroupSet, i \in IdsOf(p) :
        LET C == {c \in records[p] : c.sub = g} IN
        /\ \A o \in {"copy", "edit"} : <<o, <<Target, g>>>> \notin owned
        /\ \/ C = {} /\ AddClient(p, g, i) /\ UNCHANGED ours
           \/ /\ C # {} /\ \A c \in C : i \notin c.on
              /\ AttachClient(p, Min({c.uuid : c \in C}), i)
           \/ /\ \E c \in C : i \in c.on
              /\ records' = [records EXCEPT ![p] =
                   {IF c \in C THEN [c EXCEPT !.on = @ \ {i}] ELSE c : c \in @}]
              /\ UNCHANGED <<inbounds, minted, ours>>
  BY DEF PeerMutates, GroupSet
<1>3. UNCHANGED <<lost, owned, copy>>
  BY DEF PeerMutates
<1>4. ~GatesHeld /\ ~GatesHeld'
  BY <1>2, <1>3 DEF GatesHeld
<1> DEFINE C == {c \in records[p] : c.sub = g}
<1>5. inbounds' = inbounds /\ ours' = ours
  BY <1>2 DEF AddClient, AttachClient
<1>6. /\ RecordsOK'
      /\ \A q \in Panels \ {p} : records'[q] = records[q]
      /\ \A c \in records[p] : \E d \in records'[p] : Like(d, c)
      /\ \A d \in records'[p] : d.uuid \notin ours \/ \E c \in records[p] : Like(d, c)
  <2> HIDE DEF p
  <2>1. CASE C = {} /\ AddClient(p, g, i)
    <3>1. /\ RecordsOK' /\ \A q \in Panels \ {p} : records'[q] = records[q]
          /\ records'[p] = records[p] \cup {Record(minted + 1, g, {i})}
      BY <1>1, <1>5, <2>1, Added
    <3>2. minted \in Nat /\ \A u \in ours : u \in Nat /\ u <= minted
      BY DEF RecordsOK
    <3>3. Record(minted + 1, g, {i}).uuid \notin ours
      BY <3>2, RecordFields
    <3> QED
      BY <3>1, <3>3, LikeSelf
  <2>2. CASE AttachClient(p, Min({c.uuid : c \in C}), i)
    BY <1>1, <2>2, RecordAttached
  <2>3. CASE /\ records' = [records EXCEPT ![p] =
                  {IF c \in C THEN [c EXCEPT !.on = @ \ {i}] ELSE c : c \in @}]
             /\ UNCHANGED <<inbounds, minted, ours>>
    <3> HIDE DEF C
    <3>1. UNCHANGED <<inbounds, minted, ours>>
      BY <2>3
    <3>2. /\ RecordsOK'
          /\ \A q \in Panels \ {p} : records'[q] = records[q]
          /\ \A c \in records[p] : \E d \in records'[p] : Like(d, c)
          /\ \A d \in records'[p] : \E c \in records[p] : Like(d, c)
      <4> DEFINE D == {IF c \in C THEN [c EXCEPT !.on = @ \ {i}] ELSE c : c \in records[p]}
      <4>1. records' = [records EXCEPT ![p] = D]
        BY <2>3
      <4>2. \A d : d \in D <=>
              \E c \in records[p] : d = IF c \in C THEN [c EXCEPT !.on = @ \ {i}] ELSE c
        OBVIOUS
      <4> HIDE DEF D
      <4> QED
        BY <1>1, <3>1, <4>1, <4>2, RecordsDetached
    <3> QED
      BY <3>2
  <2> QED
    BY <1>2, <2>1, <2>2, <2>3 DEF p
<1> HIDE DEF p
<1> QED
  BY <1>3, <1>4, <1>5, <1>6, LikeSelf DEF OthersStep

LEMMA OthersAct ==
  ASSUME RecordsOK, EditOK,
         EditStart \/ EditRead \/ EditPost \/ EditEnds \/ PeerMutates \/ Elsewhere \/ UNCHANGED inboundVars
  PROVE  OthersStep /\ RecordsOK' /\ EditOK'
<1>1. CASE EditStart
  <2>1. /\ UNCHANGED <<copy, panelVars>> /\ owned \subseteq owned'
        /\ \E k, i : edit' = [edit EXCEPT !.pc = "open", !.id = i, !.kind = k]
    BY <1>1 DEF EditStart, Gate!Acquire
  <2>2. EditOK'
    BY <2>1 DEF EditOK
  <2> QED
    BY <2>1, <2>2, RecordsStay DEF GatesHeld
<1>2. CASE EditRead
  <2>1. /\ UNCHANGED <<copy, panelVars, owned>> /\ Connectable(Target)
        /\ edit' = [edit EXCEPT !.pc = "post", !.conn = Connected(Target)]
    BY <1>2 DEF EditRead, Connect
  <2>2. Connected(Target).rev \in Revs
    BY <2>1 DEF Connectable, Connected, Reusable, NewClient, Client
  <2>3. EditOK'
    BY <2>1, <2>2 DEF EditOK
  <2> QED
    BY <2>1, <2>3, RecordsStay DEF GatesHeld
<1>3. CASE EditEnds
  <2>1. /\ UNCHANGED <<copy, panelVars>> /\ edit' = [edit EXCEPT !.pc = "done", !.conn = None]
        /\ owned' = owned \ {<<"edit", <<Target, edit.id>>>>}
    BY <1>3 DEF EditEnds
  <2>2. EditOK'
    BY <2>1 DEF EditOK
  <2> QED
    BY <2>1, <2>2, RecordsStay DEF GatesHeld
<1>4. CASE Elsewhere \/ UNCHANGED inboundVars
  <2>1. UNCHANGED <<copy, panelVars, owned, edit>>
    BY <1>4 DEF Elsewhere, inboundVars
  <2>2. EditOK'
    BY <2>1 DEF EditOK
  <2> QED
    BY <2>1, <2>2, RecordsStay DEF GatesHeld
<1>5. CASE PeerMutates
  <2>1. EditOK'
    BY <1>5 DEF PeerMutates, EditOK
  <2> QED
    BY <1>5, <2>1, PeerStep
<1> QED
  BY <1>1, <1>2, <1>3, <1>4, <1>5, EditPosts

-----------------------------------------------------------------------------
(* The copy.                                                                *)

Before  == {"idle", "source", "target", "read", "gates", "baseline", "add", "adding"}
Proving == {"added", "prove"}
Looping == {"group", "list", "decide", "posting", "posted", "grouped"}
Undoing == {"undo", "undoing", "removing"}
Ending  == {"refresh", "release"}

Shape ==
  /\ DOMAIN copy = {"pc", "src", "tgt", "baseline", "own", "todo", "inv", "post", "made", "errs", "tries"}
  /\ copy.pc \in Before \cup Proving \cup Looping \cup Undoing \cup Ending \cup {"done"}
  /\ copy.pc \notin {"idle", "source", "target"} \cup Ending \cup {"done"} => copy.tgt.rev \in Revs
  /\ copy.todo \in Seq(GroupSet) /\ copy.made \in Seq(Nat)

\* The new inbound is one the panel did not have, and a connection that is used for
\* it leads to that panel.
OwnsInbound ==
  /\ copy.pc \in Before => copy.own = None
  /\ copy.pc \in Before \cup Proving => copy.made = <<>> /\ ours = {} /\ copy.todo = Groups
  /\ copy.pc \in Proving \cup Looping \cup Undoing
       \/ (copy.pc \in Ending /\ (copy.own # None \/ copy.errs = {}))
     => copy.own.panel \in Panels /\ copy.own.id \notin copy.baseline
  /\ copy.pc \in Looping \cup {"undoing", "removing"} => PanelOf[copy.tgt.rev] = copy.own.panel

\* The gates of the groups are held from the baseline to the end.
HoldsGates ==
  \/ copy.pc \in {"baseline", "add", "adding", "refresh"} \cup Proving \cup Looping \cup Undoing
  \/ copy.pc = "release" /\ (copy.own # None \/ copy.errs = {})
  => GatesHeld

OwnIsGone == \A x \in inbounds[copy.own.panel] : x.id # copy.own.id

\* A group is on the new inbound, as long as that is there.
IsAttached(g) == OwnIsGone \/ \E c \in records[copy.own.panel] : copy.own.id \in c.on /\ c.sub = g

IsToDo(g) == \E m \in 1..Len(copy.todo) : copy.todo[m] = g

\* Every group is attached or still to do.
LoopInv ==
  /\ copy.pc \in Looping => copy.errs = {} /\ \A g \in GroupSet : IsToDo(g) \/ IsAttached(g)
  /\ copy.pc \in Looping \ {"group"} => copy.todo # <<>>
  /\ copy.pc \in {"posted", "grouped"} => \A g \in GroupSet : g = Head(copy.todo) => IsAttached(g)
  /\ copy.pc \in Undoing => copy.errs # {}
  /\ copy.pc \in Ending /\ copy.errs = {} => \A g \in GroupSet : IsAttached(g)

\* What the copy decides from is still there.
SeenInv ==
  /\ copy.pc = "decide" =>
       \A c \in copy.inv :
         /\ c.uuid \in Nat
         /\ c.sub \in GroupSet =>
              \E d \in records[copy.own.panel] :
                Like(d, c) /\ (copy.own.id \in c.on => OwnIsGone \/ copy.own.id \in d.on)
  /\ copy.pc = "posting" =>
       copy.post = None \/ \E d \in records[copy.own.panel] : d.uuid = copy.post /\ d.sub = Head(copy.todo)

\* Every record the copy made is remembered until it is removed, or that is reported.
LedgerInv ==
  /\ \A m \in 1..Len(copy.made) : copy.made[m] \in ours
  /\ copy.pc \in Proving \cup Looping \cup Undoing /\ ~lost /\ "cleanup" \notin copy.errs =>
       \A c \in records[copy.own.panel] : c.uuid \in ours => \E m \in 1..Len(copy.made) : copy.made[m] = c.uuid
  /\ copy.pc = "removing" => copy.made = <<>>
  /\ copy.pc = "undoing" =>
       /\ copy.made # <<>>
       /\ \A c \in records[copy.own.panel] : c.uuid = LastMade => c.on \subseteq {copy.own.id}
  /\ copy.pc \in Ending /\ copy.own # None /\ copy.errs = {"failed"} /\ ~lost =>
       OwnIsGone /\ \A c \in records[copy.own.panel] : c.uuid \notin ours

CopyInv == Shape /\ OwnsInbound /\ HoldsGates /\ LoopInv /\ SeenInv /\ LedgerInv

LEMMA GroupsAreSeq == Groups \in Seq(GroupSet) /\ \A g \in GroupSet : \E m \in 1..Len(Groups) : Groups[m] = g
<1>1. Groups \in Seq(GroupSet)
  BY GroupsAssumption DEF GroupSet
<1> QED
  BY <1>1 DEF GroupSet

LEMMA CopyInit == InboundInit => CopyInv /\ EditOK
<1> SUFFICES ASSUME InboundInit PROVE CopyInv /\ EditOK
  OBVIOUS
<1>1. /\ copy = [pc |-> "idle", src |-> None, tgt |-> None, baseline |-> {}, own |-> None,
                 todo |-> Groups, inv |-> {}, post |-> None, made |-> <<>>, errs |-> {}, tries |-> 0]
      /\ edit = [pc |-> "idle", conn |-> None, id |-> 0, kind |-> "edit"]
      /\ ours = {}
  BY DEF InboundInit
<1> USE DEF Before, Proving, Looping, Undoing, Ending
<1>2. Shape /\ EditOK
  BY <1>1, GroupsAreSeq DEF Shape, EditOK
<1>3. OwnsInbound /\ HoldsGates /\ LoopInv /\ SeenInv /\ LedgerInv
  BY <1>1 DEF OwnsInbound, HoldsGates, LoopInv, SeenInv, LedgerInv
<1> QED
  BY <1>2, <1>3 DEF CopyInv

\* Others take nothing from a copy, as long as it holds its gates.
LEMMA OthersKeep ==
  ASSUME RecordsOK, CopyInv, OthersStep
  PROVE  CopyInv'
<1>1. copy' = copy /\ ours' = ours /\ lost' = lost /\ (GatesHeld => GatesHeld')
  BY DEF OthersStep
<1>2. Shape' /\ OwnsInbound' /\ HoldsGates'
  BY <1>1 DEF CopyInv, Shape, OwnsInbound, HoldsGates
<1> USE DEF Before, Proving, Looping, Undoing, Ending
<1> DEFINE p == copy.own.panel
           i == copy.own.id
<1>3. ASSUME p \in Panels, OwnIsGone PROVE OwnIsGone'
  BY <1>1, <1>3 DEF OthersStep, OwnIsGone
<1>4. ASSUME p \in Panels, GatesHeld, NEW g, IsAttached(g) PROVE IsAttached(g)'
  <2>1. CASE OwnIsGone
    BY <1>3, <1>4, <2>1 DEF IsAttached
  <2>2. CASE ~OwnIsGone
    <3>1. PICK c \in records[p] : i \in c.on /\ c.sub = g
      BY <1>4, <2>2 DEF IsAttached
    <3>2. PICK d \in records'[p] : Like(d, c) /\ (i \in d.on \/ \A x \in inbounds'[p] : x.id # i)
      BY <1>4, <3>1 DEF OthersStep
    <3> QED
      BY <1>1, <3>1, <3>2 DEF IsAttached, Like, OwnIsGone
  <2> QED
    BY <2>1, <2>2
<1>5. copy.pc \in Looping \cup Undoing \cup Proving => p \in Panels /\ GatesHeld
  BY DEF CopyInv, OwnsInbound, HoldsGates
<1>6. copy.pc \in Ending /\ (copy.own # None \/ copy.errs = {}) => p \in Panels /\ GatesHeld
  BY DEF CopyInv, OwnsInbound, HoldsGates
<1>7. \A g : IsToDo(g)' <=> IsToDo(g)
  BY <1>1 DEF IsToDo
<1>8. LoopInv'
  BY <1>1, <1>4, <1>5, <1>6, <1>7 DEF CopyInv, LoopInv
<1>9. SeenInv'
  <2>1. ASSUME copy.pc = "decide", NEW c \in copy.inv
        PROVE  /\ c.uuid \in Nat
               /\ c.sub \in GroupSet =>
                    \E d \in records'[p] : Like(d, c) /\ (i \in c.on => OwnIsGone' \/ i \in d.on)
    <3>1. c.uuid \in Nat
      BY <2>1 DEF CopyInv, SeenInv
    <3>2. ASSUME c.sub \in GroupSet
          PROVE  \E d \in records'[p] : Like(d, c) /\ (i \in c.on => OwnIsGone' \/ i \in d.on)
      <4>1. PICK b \in records[p] : Like(b, c) /\ (i \in c.on => OwnIsGone \/ i \in b.on)
        BY <2>1, <3>2 DEF CopyInv, SeenInv
      <4>2. PICK d \in records'[p] : Like(d, b) /\ \A j \in b.on : j \in d.on \/ \A x \in inbounds'[p] : x.id # j
        BY <1>5, <2>1 DEF OthersStep
      <4>3. Like(d, c)
        BY <4>1, <4>2 DEF Like
      <4>4. i \in c.on => OwnIsGone' \/ i \in d.on
        BY <1>1, <1>3, <1>5, <2>1, <4>1, <4>2 DEF OwnIsGone
      <4> QED
        BY <4>3, <4>4
    <3> QED
      BY <3>1, <3>2
  <2>2. ASSUME copy.pc = "posting", NEW b \in records[p], b.uuid = copy.post, b.sub = Head(copy.todo)
        PROVE  \E d \in records'[p] : d.uuid = copy.post /\ d.sub = Head(copy.todo)
    <3>1. PICK d \in records'[p] : Like(d, b)
      BY <1>5, <2>2 DEF OthersStep
    <3> QED
      BY <2>2, <3>1 DEF Like
  <2>3. copy.pc = "posting" =>
          copy.post = None \/ \E d \in records'[p] : d.uuid = copy.post /\ d.sub = Head(copy.todo)
    BY <2>2 DEF CopyInv, SeenInv
  <2> QED
    BY <1>1, <2>1, <2>3 DEF SeenInv
<1>10. LedgerInv'
  <2>1. ASSUME p \in Panels, NEW d \in records'[p], d.uuid \in ours
        PROVE  \E c \in records[p] : Like(d, c) /\ (GatesHeld => d.on \subseteq c.on)
    BY <2>1 DEF OthersStep
  <2>2. LastMade' = LastMade
    BY <1>1 DEF LastMade
  <2>3. ASSUME copy.pc \in Proving \cup Looping \cup Undoing, ~lost, "cleanup" \notin copy.errs,
               NEW d \in records'[p], d.uuid \in ours
        PROVE  \E m \in 1..Len(copy.made) : copy.made[m] = d.uuid
    <3>1. PICK c \in records[p] : d.uuid = c.uuid
      BY <1>5, <2>1, <2>3 DEF Like
    <3> QED
      BY <2>3, <3>1 DEF CopyInv, LedgerInv
  <2>4. ASSUME copy.pc = "undoing"
        PROVE  copy.made # <<>> /\ \A d \in records'[p] : d.uuid = LastMade => d.on \subseteq {i}
    <3>1. copy.made # <<>> /\ copy.made \in Seq(Nat)
      BY <2>4 DEF CopyInv, LedgerInv, Shape
    <3>2. Len(copy.made) \in 1..Len(copy.made)
      BY <3>1, EmptySeq, LenProperties
    <3>3. LastMade \in ours
      BY <3>2 DEF CopyInv, LedgerInv, LastMade
    <3>4. ASSUME NEW d \in records'[p], d.uuid = LastMade PROVE d.on \subseteq {i}
      <4>1. PICK c \in records[p] : d.uuid = c.uuid /\ d.on \subseteq c.on
        BY <1>5, <2>1, <2>4, <3>3, <3>4 DEF Like
      <4> QED
        BY <2>4, <3>4, <4>1 DEF CopyInv, LedgerInv
    <3> QED
      BY <3>1, <3>4
  <2>5. ASSUME copy.pc \in Ending, copy.own # None, copy.errs = {"failed"}, ~lost
        PROVE  OwnIsGone' /\ \A d \in records'[p] : d.uuid \notin ours
    <3>1. OwnIsGone /\ \A c \in records[p] : c.uuid \notin ours
      BY <2>5 DEF CopyInv, LedgerInv
    <3> QED
      BY <1>3, <1>6, <2>1, <2>5, <3>1 DEF Like
  <2>6. /\ \A m \in 1..Len(copy.made) : copy.made[m] \in ours
        /\ copy.pc = "removing" => copy.made = <<>>
    BY DEF CopyInv, LedgerInv
  <2> QED
    BY <1>1, <2>2, <2>3, <2>4, <2>5, <2>6 DEF LedgerInv
<1> QED
  BY <1>2, <1>8, <1>9, <1>10 DEF CopyInv

-----------------------------------------------------------------------------
(* The steps of a copy that send nothing to a panel.                        *)

ConnectedRev == Connected(Target).rev = row[Target] /\ row[Target] \in Revs

LEMMA ConnectLeads == ASSUME Connect(Target) PROVE ConnectedRev
BY DEF Connect, Connectable, Connected, Reusable, NewClient, Client, ConnectedRev

\* The panels, and what is asked of them, are as they were.
LEMMA SameSites ==
  ASSUME UNCHANGED panelVars, copy'.own = copy.own
  PROVE  /\ OwnIsGone' <=> OwnIsGone
         /\ \A g : IsAttached(g)' <=> IsAttached(g)
BY DEF panelVars, OwnIsGone, IsAttached

LEMMA BeforeKeeps ==
  ASSUME CopyInv, UNCHANGED ours, copy.pc \in Before,
         DOMAIN copy' = DOMAIN copy,
         copy'.pc \in Before \/ (copy'.pc = "release" /\ copy'.errs # {}),
         copy'.own = copy.own, copy'.todo = copy.todo, copy'.made = copy.made,
         copy'.pc \in Before \ {"idle", "source", "target"} => copy'.tgt.rev \in Revs,
         copy'.pc \in {"baseline", "add", "adding"} => GatesHeld'
  PROVE  CopyInv'
<1> USE DEF Before, Proving, Looping, Undoing, Ending
<1>1. copy'.own = None /\ copy'.made = <<>> /\ ours' = {} /\ copy'.todo = Groups
  BY DEF CopyInv, OwnsInbound
<1>2. Shape'
  BY DEF CopyInv, Shape
<1>3. OwnsInbound' /\ HoldsGates'
  BY <1>1 DEF OwnsInbound, HoldsGates
<1>4. LoopInv' /\ SeenInv'
  BY <1>1 DEF LoopInv, SeenInv
<1>5. LedgerInv'
  <2>1. Len(copy'.made) = 0
    BY <1>1
  <2> QED
    BY <1>1, <2>1 DEF LedgerInv
<1> QED
  BY <1>2, <1>3, <1>4, <1>5 DEF CopyInv

LEMMA CopyBegins ==
  ASSUME RecordsOK, CopyInv,
         \/ Start \/ OpenSource \/ OpenTarget \/ ReadSource \/ TakeGroupGate \/ ReadBaseline
         \/ GiveUp \/ SendInbound
  PROVE  CopyInv'
<1> USE DEF Before
<1>0. DOMAIN copy = {"pc", "src", "tgt", "baseline", "own", "todo", "inv", "post", "made", "errs", "tries"}
      /\ (copy.pc \in {"read", "gates", "baseline", "add"} => copy.tgt.rev \in Revs)
      /\ (copy.pc \in {"baseline", "add"} => GatesHeld)
  BY DEF CopyInv, Shape, HoldsGates, Proving, Looping, Undoing, Ending
<1>1. CASE Start
  <2>1. copy.pc = "idle" /\ copy' = [copy EXCEPT !.pc = "source"] /\ UNCHANGED ours
    BY <1>1 DEF Start, At, Go, panelVars
  <2> QED
    BY <1>0, <2>1, BeforeKeeps
<1>2. CASE OpenSource
  <2>1. /\ copy.pc = "source" /\ UNCHANGED ours
        /\ copy' = [copy EXCEPT !.pc = "target", !.src = Connected(Source)]
    BY <1>2 DEF OpenSource, At, panelVars
  <2> QED
    BY <1>0, <2>1, BeforeKeeps
<1>3. CASE OpenTarget
  <2>1. /\ copy.pc = "target" /\ UNCHANGED ours /\ Connect(Target)
        /\ copy' = [copy EXCEPT !.pc = "read", !.tgt = Connected(Target)]
    BY <1>3 DEF OpenTarget, At, panelVars
  <2>2. Connected(Target).rev \in Revs
    BY <2>1, ConnectLeads DEF ConnectedRev
  <2> QED
    BY <1>0, <2>1, <2>2, BeforeKeeps
<1>4. CASE ReadSource
  <2>1. copy.pc = "read" /\ copy' = [copy EXCEPT !.pc = "gates"] /\ UNCHANGED ours
    BY <1>4 DEF ReadSource, At, Go, panelVars
  <2> QED
    BY <1>0, <2>1, BeforeKeeps
<1>5. CASE TakeGroupGate
  <2>1. copy.pc = "gates" /\ UNCHANGED ours
    BY <1>5 DEF TakeGroupGate, At, panelVars
  <2>2. CASE UNCHANGED copy
    BY <1>0, <2>1, <2>2, BeforeKeeps
  <2>3. CASE HeldGroups = DOMAIN Groups /\ Go("baseline") /\ UNCHANGED owned
    <3>1. GatesHeld'
      BY <2>3 DEF HeldGroups, GatesHeld, GroupSet
    <3>2. copy' = [copy EXCEPT !.pc = "baseline"]
      BY <2>3 DEF Go
    <3> QED
      BY <1>0, <2>1, <3>1, <3>2, BeforeKeeps
  <2> QED
    BY <1>5, <2>2, <2>3 DEF TakeGroupGate
<1>6. CASE ReadBaseline
  <2>1. /\ copy.pc = "baseline" /\ UNCHANGED <<ours, owned>>
        /\ copy' = [copy EXCEPT !.pc = "add", !.baseline = IdsOf(PanelOf[copy.tgt.rev])]
    BY <1>6 DEF ReadBaseline, At, panelVars
  <2> QED
    BY <1>0, <2>1, BeforeKeeps DEF GatesHeld
<1>7. CASE GiveUp
  <2>1. /\ copy.pc \in Before /\ UNCHANGED ours
        /\ copy' = [copy EXCEPT !.pc = "release", !.errs = @ \cup {"failed"}]
    BY <1>7 DEF GiveUp, Fail, panelVars
  <2> QED
    BY <1>0, <2>1, BeforeKeeps
<1>8. CASE SendInbound
  <2>1. copy.pc = "add" /\ copy' = [copy EXCEPT !.pc = "adding"] /\ UNCHANGED <<ours, owned>>
    BY <1>8 DEF SendInbound, At, Go, panelVars
  <2> QED
    BY <1>0, <2>1, BeforeKeeps DEF GatesHeld
<1> QED
  BY <1>1, <1>2, <1>3, <1>4, <1>5, <1>6, <1>7, <1>8

\* The copy ends: nothing changes but where it is.
LEMMA CopyEnds ==
  ASSUME CopyInv, RefreshAfter \/ Release
  PROVE  CopyInv'
<1> USE DEF Before, Proving, Looping, Undoing, Ending
<1>1. CASE RefreshAfter
  <2>1. /\ copy.pc = "refresh" /\ copy' = [copy EXCEPT !.pc = "release"]
        /\ UNCHANGED <<panelVars, owned>>
    BY <1>1 DEF RefreshAfter, At, Go
  <2>2. /\ DOMAIN copy' = DOMAIN copy /\ copy'.pc = "release" /\ copy'.own = copy.own
        /\ copy'.errs = copy.errs /\ copy'.todo = copy.todo /\ copy'.made = copy.made
        /\ copy'.baseline = copy.baseline
    BY <2>1 DEF CopyInv, Shape
  <2>3. UNCHANGED <<inbounds, records, ours, lost>>
    BY <2>1 DEF panelVars
  <2>4. Shape' /\ OwnsInbound' /\ HoldsGates'
    BY <2>1, <2>2, <2>3 DEF CopyInv, Shape, OwnsInbound, HoldsGates, GatesHeld
  <2>5. LoopInv' /\ SeenInv'
    BY <2>1, <2>2, SameSites DEF CopyInv, LoopInv, SeenInv
  <2>6. LedgerInv'
    BY <2>1, <2>2, <2>3, SameSites DEF CopyInv, LedgerInv
  <2> QED
    BY <2>4, <2>5, <2>6 DEF CopyInv
<1>2. CASE Release
  <2>1. copy.pc = "release" /\ copy' = [copy EXCEPT !.pc = "done"] /\ UNCHANGED ours
    BY <1>2 DEF Release, MayRelease, At, Go, panelVars
  <2>2. /\ DOMAIN copy' = DOMAIN copy /\ copy'.pc = "done"
        /\ copy'.todo = copy.todo /\ copy'.made = copy.made
    BY <2>1 DEF CopyInv, Shape
  <2>3. Shape' /\ OwnsInbound' /\ HoldsGates' /\ LoopInv' /\ SeenInv'
    BY <2>1, <2>2 DEF CopyInv, Shape, OwnsInbound, HoldsGates, LoopInv, SeenInv
  <2>4. LedgerInv'
    BY <2>1, <2>2 DEF CopyInv, LedgerInv
  <2> QED
    BY <2>3, <2>4 DEF CopyInv
<1> QED
  BY <1>1, <1>2

LEMMA LedgerStays ==
  ASSUME CopyInv, UNCHANGED panelVars, copy'.own = copy.own, copy'.made = copy.made,
         copy.errs \subseteq copy'.errs,
         copy.pc \in Proving \cup Looping \cup Undoing,
         \/ copy'.pc \in Proving \cup Looping \cup {"undo"}
         \/ copy'.pc = "refresh" /\ copy'.errs # {"failed"}
  PROVE  LedgerInv'
<1> USE DEF Proving, Looping, Undoing, Ending
<1>1. UNCHANGED <<records, ours, lost>>
  BY DEF panelVars
<1>2. \A m \in 1..Len(copy'.made) : copy'.made[m] \in ours'
  BY <1>1 DEF CopyInv, LedgerInv
<1>3. copy'.pc \in Proving \cup Looping \cup Undoing /\ ~lost' /\ "cleanup" \notin copy'.errs =>
        \A c \in records'[copy'.own.panel] :
          c.uuid \in ours' => \E m \in 1..Len(copy'.made) : copy'.made[m] = c.uuid
  BY <1>1 DEF CopyInv, LedgerInv
<1> QED
  BY <1>2, <1>3 DEF LedgerInv

\* An inbound that may not be its own stays, and is reported.
LEMMA Unowned ==
  ASSUME CopyInv, copy' = [copy EXCEPT !.pc = "refresh", !.errs = @ \cup {"unowned"}]
  PROVE  /\ copy'.pc = "refresh" /\ copy'.errs # {} /\ copy'.errs # {"failed"}
         /\ copy.errs \subseteq copy'.errs /\ DOMAIN copy' = DOMAIN copy
         /\ copy'.own = copy.own /\ copy'.baseline = copy.baseline
         /\ copy'.todo = copy.todo /\ copy'.made = copy.made
<1>1. DOMAIN copy = {"pc", "src", "tgt", "baseline", "own", "todo", "inv", "post", "made", "errs", "tries"}
  BY DEF CopyInv, Shape
<1>2. /\ copy'.errs = copy.errs \cup {"unowned"} /\ copy'.pc = "refresh" /\ DOMAIN copy' = DOMAIN copy
      /\ copy'.own = copy.own /\ copy'.baseline = copy.baseline
      /\ copy'.todo = copy.todo /\ copy'.made = copy.made
  BY <1>1
<1>3. "unowned" \in copy'.errs /\ copy.errs \subseteq copy'.errs
  BY <1>2
<1>4. copy'.errs # {} /\ copy'.errs # {"failed"}
  BY <1>3
<1> QED
  BY <1>2, <1>3, <1>4

\* While it is not known whose the new inbound is.
LEMMA CopyProves ==
  ASSUME RecordsOK, CopyInv, CheckInbound \/ ProveOwnership \/ ProofFails
  PROVE  CopyInv'
<1> USE DEF Before, Proving, Looping, Undoing, Ending
<1>0. /\ copy.pc \in Proving /\ UNCHANGED <<panelVars, owned>>
      /\ \/ copy'.pc = "prove" /\ copy'.tgt = copy.tgt
         \/ /\ copy'.pc \in {"group", "undo"} /\ (copy'.pc = "group" <=> copy'.errs = {})
            /\ PanelOf[copy'.tgt.rev] = copy.own.panel /\ copy'.tgt.rev \in Revs
         \/ copy'.pc = "refresh" /\ copy'.errs # {} /\ copy'.errs # {"failed"}
      /\ copy.errs \subseteq copy'.errs
      /\ DOMAIN copy' = DOMAIN copy
      /\ copy'.own = copy.own /\ copy'.baseline = copy.baseline
      /\ copy'.todo = copy.todo /\ copy'.made = copy.made
  <2>0. DOMAIN copy = {"pc", "src", "tgt", "baseline", "own", "todo", "inv", "post", "made", "errs", "tries"}
    BY DEF CopyInv, Shape
  <2>1. CASE CheckInbound
    <3>1. /\ copy.pc = "added" /\ UNCHANGED <<panelVars, owned>>
          /\ \/ copy' = [copy EXCEPT !.pc = "prove"]
             \/ copy' = [copy EXCEPT !.pc = "prove", !.errs = @ \cup {"failed"}]
      BY <2>1 DEF CheckInbound, At, Go, Fail
    <3> QED
      BY <2>0, <3>1
  <2>2. CASE ProveOwnership
    <3>1. /\ copy.pc = "prove" /\ UNCHANGED <<panelVars, owned>> /\ ConnectedRev /\ SamePanel
          /\ \/ copy' = [copy EXCEPT !.pc = IF copy.errs = {} THEN "group" ELSE "undo",
                                     !.tgt = Connected(Target)]
             \/ copy' = [copy EXCEPT !.pc = "refresh", !.errs = @ \cup {"unowned"}]
      BY <2>2, ConnectLeads DEF ProveOwnership, At, Fail
    <3>2. PanelOf[Connected(Target).rev] = copy.own.panel /\ Connected(Target).rev \in Revs
      BY <3>1 DEF ConnectedRev, SamePanel, PanelAt
    <3>3. CASE copy' = [copy EXCEPT !.pc = IF copy.errs = {} THEN "group" ELSE "undo",
                                    !.tgt = Connected(Target)]
      <4>1. /\ DOMAIN copy' = DOMAIN copy /\ copy'.own = copy.own /\ copy'.todo = copy.todo
            /\ copy'.baseline = copy.baseline /\ copy'.made = copy.made /\ copy'.errs = copy.errs
            /\ copy'.tgt = Connected(Target)
            /\ copy'.pc = IF copy.errs = {} THEN "group" ELSE "undo"
        BY <2>0, <3>3
      <4> QED
        BY <3>1, <3>2, <4>1
    <3>4. CASE copy' = [copy EXCEPT !.pc = "refresh", !.errs = @ \cup {"unowned"}]
      BY <3>1, <3>4, Unowned
    <3> QED
      BY <3>1, <3>3, <3>4
  <2>3. CASE ProofFails
    <3>1. /\ copy.pc = "prove" /\ UNCHANGED <<panelVars, owned>>
          /\ \/ copy' = [copy EXCEPT !.tries = 1, !.errs = @ \cup {"failed"}]
             \/ copy' = [copy EXCEPT !.pc = "refresh", !.errs = @ \cup {"unowned"}]
      BY <2>3 DEF ProofFails, At, Fail
    <3>2. CASE copy' = [copy EXCEPT !.tries = 1, !.errs = @ \cup {"failed"}]
      <4>1. /\ DOMAIN copy' = DOMAIN copy /\ copy'.own = copy.own /\ copy'.todo = copy.todo
            /\ copy'.baseline = copy.baseline /\ copy'.made = copy.made
            /\ copy'.errs = copy.errs \cup {"failed"}
            /\ copy'.tgt = copy.tgt /\ copy'.pc = copy.pc
        BY <2>0, <3>2
      <4> QED
        BY <3>1, <4>1
    <3>3. CASE copy' = [copy EXCEPT !.pc = "refresh", !.errs = @ \cup {"unowned"}]
      BY <3>1, <3>3, Unowned
    <3> QED
      BY <3>1, <3>2, <3>3
  <2> QED
    BY <2>1, <2>2, <2>3
<1>1. UNCHANGED <<inbounds, records, ours, lost>>
  BY <1>0 DEF panelVars
<1>2. Shape'
  BY <1>0 DEF CopyInv, Shape
<1>3. OwnsInbound'
  BY <1>0, <1>1 DEF CopyInv, OwnsInbound
<1>4. HoldsGates'
  BY <1>0 DEF CopyInv, HoldsGates, GatesHeld
<1>5. LoopInv'
  <2>1. \A g \in GroupSet : IsToDo(g)'
    BY <1>0, GroupsAreSeq DEF CopyInv, OwnsInbound, IsToDo
  <2> QED
    BY <1>0, <2>1 DEF LoopInv
<1>6. SeenInv'
  BY <1>0 DEF SeenInv
<1>7. LedgerInv'
  BY <1>0, LedgerStays
<1> QED
  BY <1>2, <1>3, <1>4, <1>5, <1>6, <1>7 DEF CopyInv

-----------------------------------------------------------------------------
(* The loop over the groups.                                                *)

LEMMA HeadOrTail ==
  ASSUME NEW s \in Seq(GroupSet), s # <<>>
  PROVE  /\ Head(s) \in GroupSet /\ Tail(s) \in Seq(GroupSet)
         /\ \A m \in 1..Len(s) : s[m] = Head(s) \/ \E k \in 1..Len(Tail(s)) : Tail(s)[k] = s[m]
<1>1. /\ Len(s) \in Nat /\ Len(s) >= 1
      /\ Head(s) \in GroupSet /\ Head(s) = s[1]
      /\ Tail(s) \in Seq(GroupSet) /\ Len(Tail(s)) = Len(s) - 1
      /\ \A k \in 1..Len(Tail(s)) : Tail(s)[k] = s[k + 1]
  BY HeadTailProperties, LenProperties, EmptySeq
<1>2. ASSUME NEW m \in 1..Len(s), m # 1
      PROVE  \E k \in 1..Len(Tail(s)) : Tail(s)[k] = s[m]
  <2>1. m - 1 \in 1..Len(Tail(s)) /\ (m - 1) + 1 = m
    BY <1>1, <1>2
  <2> QED
    BY <1>1, <2>1
<1> QED
  BY <1>1, <1>2

LEMMA LoopKeeps ==
  ASSUME CopyInv, UNCHANGED <<panelVars, owned>>, copy.pc \in Looping,
         DOMAIN copy' = DOMAIN copy,
         copy'.own = copy.own, copy'.tgt = copy.tgt, copy'.made = copy.made,
         copy'.baseline = copy.baseline, copy'.todo \in Seq(GroupSet),
         copy.errs \subseteq copy'.errs,
         copy'.pc \in Looping \cup {"undo"} \/ (copy'.pc = "refresh" /\ copy'.errs = {})
  PROVE  Shape' /\ OwnsInbound' /\ HoldsGates' /\ LedgerInv'
<1> USE DEF Before, Proving, Looping, Undoing, Ending
<1>1. Shape'
  BY DEF CopyInv, Shape
<1>2. OwnsInbound'
  BY DEF CopyInv, OwnsInbound
<1>3. HoldsGates'
  BY DEF CopyInv, HoldsGates, GatesHeld
<1>4. copy'.errs = {} => copy'.errs # {"failed"}
  OBVIOUS
<1> QED
  BY <1>1, <1>2, <1>3, <1>4, LedgerStays

LEMMA CopyLoops ==
  ASSUME RecordsOK, CopyInv, NextGroup \/ ListGroup \/ DecideGroup \/ CheckGroup \/ GroupFails
  PROVE  CopyInv'
<1> USE DEF Before, Proving, Looping, Undoing, Ending
<1>0. /\ DOMAIN copy = {"pc", "src", "tgt", "baseline", "own", "todo", "inv", "post", "made", "errs", "tries"}
      /\ copy.todo \in Seq(GroupSet)
  BY DEF CopyInv, Shape
<1>1. CASE NextGroup
  <2>1. /\ copy.pc = "group" /\ UNCHANGED <<panelVars, owned>>
        /\ copy' = [copy EXCEPT !.pc = IF copy.todo = <<>> THEN "refresh" ELSE "list"]
    BY <1>1 DEF NextGroup, At, Go
  <2>2. copy.errs = {} /\ \A g \in GroupSet : IsToDo(g) \/ IsAttached(g)
    BY <2>1 DEF CopyInv, LoopInv
  <2>3. /\ DOMAIN copy' = DOMAIN copy /\ copy'.own = copy.own /\ copy'.tgt = copy.tgt
        /\ copy'.made = copy.made /\ copy'.baseline = copy.baseline /\ copy'.todo = copy.todo
        /\ copy'.errs = copy.errs /\ copy'.pc = IF copy.todo = <<>> THEN "refresh" ELSE "list"
    BY <1>0, <2>1
  <2>4. Shape' /\ OwnsInbound' /\ HoldsGates' /\ LedgerInv'
    BY <1>0, <2>1, <2>2, <2>3, LoopKeeps
  <2>5. \A g \in GroupSet : IsToDo(g)' \/ IsAttached(g)'
    BY <2>1, <2>2, <2>3, SameSites DEF IsToDo
  <2>6. copy.todo = <<>> => \A g \in GroupSet : ~IsToDo(g)'
    BY <2>3 DEF IsToDo
  <2>7. LoopInv'
    BY <2>2, <2>3, <2>5, <2>6 DEF LoopInv
  <2>8. SeenInv'
    BY <2>3 DEF SeenInv
  <2> QED
    BY <2>4, <2>7, <2>8 DEF CopyInv
<1>2. CASE ListGroup
  <2>1. /\ copy.pc = "list" /\ UNCHANGED <<panelVars, owned>>
        /\ copy' = [copy EXCEPT !.pc = "decide", !.inv = records[PanelOf[copy.tgt.rev]]]
    BY <1>2 DEF ListGroup, At
  <2>2. /\ copy.errs = {} /\ \A g \in GroupSet : IsToDo(g) \/ IsAttached(g)
        /\ copy.todo # <<>>
        /\ PanelOf[copy.tgt.rev] = copy.own.panel /\ copy.own.panel \in Panels
    BY <2>1 DEF CopyInv, LoopInv, OwnsInbound
  <2>3. /\ DOMAIN copy' = DOMAIN copy /\ copy'.own = copy.own /\ copy'.tgt = copy.tgt
        /\ copy'.made = copy.made /\ copy'.baseline = copy.baseline /\ copy'.todo = copy.todo
        /\ copy'.errs = copy.errs /\ copy'.pc = "decide" /\ copy'.inv = records[copy.own.panel]
    BY <1>0, <2>1, <2>2
  <2>4. Shape' /\ OwnsInbound' /\ HoldsGates' /\ LedgerInv'
    BY <1>0, <2>1, <2>2, <2>3, LoopKeeps
  <2>5. \A g \in GroupSet : IsToDo(g)' \/ IsAttached(g)'
    BY <2>1, <2>2, <2>3, SameSites DEF IsToDo
  <2>6. LoopInv'
    BY <2>2, <2>3, <2>5 DEF LoopInv
  <2>7. records' = records
    BY <2>1 DEF panelVars
  <2>8. SeenInv'
    BY <2>2, <2>3, <2>7, LikeSelf DEF SeenInv, RecordsOK
  <2> QED
    BY <2>4, <2>6, <2>8 DEF CopyInv
<1>3. CASE DecideGroup
  <2>1. /\ copy.pc = "decide" /\ UNCHANGED <<panelVars, owned>>
        /\ copy' = [copy EXCEPT
             !.pc = IF Already THEN "grouped" ELSE "posting",
             !.inv = {},
             !.post = IF Already \/ Exact = {} THEN None ELSE Min({c.uuid : c \in Exact})]
    BY <1>3 DEF DecideGroup, At
  <2>2. /\ copy.errs = {} /\ \A g \in GroupSet : IsToDo(g) \/ IsAttached(g)
        /\ copy.todo # <<>>
    BY <2>1 DEF CopyInv, LoopInv
  <2>3. /\ DOMAIN copy' = DOMAIN copy /\ copy'.own = copy.own /\ copy'.tgt = copy.tgt
        /\ copy'.made = copy.made /\ copy'.baseline = copy.baseline /\ copy'.todo = copy.todo
        /\ copy'.errs = copy.errs /\ copy'.pc = IF Already THEN "grouped" ELSE "posting"
        /\ copy'.post = IF Already \/ Exact = {} THEN None ELSE Min({c.uuid : c \in Exact})
    BY <1>0, <2>1
  <2>4. Shape' /\ OwnsInbound' /\ HoldsGates' /\ LedgerInv'
    BY <1>0, <2>1, <2>2, <2>3, LoopKeeps
  <2>5. \A g \in GroupSet : IsToDo(g)' \/ IsAttached(g)'
    BY <2>1, <2>2, <2>3, SameSites DEF IsToDo
  <2>6. Group = Head(copy.todo) /\ Group \in GroupSet
    BY <1>0, <2>2, HeadOrTail DEF Group
  <2>7. \A c \in Exact :
          /\ c.uuid \in Nat
          /\ \E d \in records[copy.own.panel] :
               d.uuid = c.uuid /\ d.sub = Group /\ (copy.own.id \in c.on => OwnIsGone \/ copy.own.id \in d.on)
    BY <2>1, <2>6 DEF CopyInv, SeenInv, Exact, Like
  <2>8. Already => IsAttached(Group)
    BY <2>7 DEF Already, IsAttached
  <2>9. LoopInv'
    BY <2>1, <2>2, <2>3, <2>5, <2>6, <2>8, SameSites DEF LoopInv
  <2>10. ASSUME ~Already, Exact # {}
         PROVE  \E d \in records[copy.own.panel] : d.uuid = copy'.post /\ d.sub = Group
    <3> DEFINE S == {c.uuid : c \in Exact}
    <3>1. S \in SUBSET Nat /\ S # {}
      BY <2>7, <2>10
    <3>2. Min(S) \in S
      <4> HIDE DEF S
      <4>1. PICK m \in S : \A n \in S : m <= n
        BY <3>1, LeastNatural
      <4> QED
        BY <4>1 DEF Min
    <3>3. copy'.post = Min(S)
      BY <2>3, <2>10
    <3> QED
      BY <2>7, <3>2, <3>3
  <2>11. records' = records
    BY <2>1 DEF panelVars
  <2>12. SeenInv'
    BY <2>3, <2>6, <2>10, <2>11 DEF SeenInv
  <2> QED
    BY <2>4, <2>9, <2>12 DEF CopyInv
<1>4. CASE CheckGroup
  <2>1. /\ UNCHANGED <<panelVars, owned>>
        /\ \/ copy.pc = "posted" /\ copy' = [copy EXCEPT !.pc = "grouped"]
           \/ copy.pc = "grouped" /\ copy' = [copy EXCEPT !.pc = "group", !.todo = Tail(@)]
    BY <1>4 DEF CheckGroup, At, Go
  <2>2. /\ copy.errs = {} /\ \A g \in GroupSet : IsToDo(g) \/ IsAttached(g)
        /\ copy.todo # <<>>
        /\ \A g \in GroupSet : g = Head(copy.todo) => IsAttached(g)
    BY <2>1 DEF CopyInv, LoopInv
  <2>3. Tail(copy.todo) \in Seq(GroupSet)
    BY <1>0, <2>2, HeadOrTail
  <2>4. /\ DOMAIN copy' = DOMAIN copy /\ copy'.own = copy.own /\ copy'.tgt = copy.tgt
        /\ copy'.made = copy.made /\ copy'.baseline = copy.baseline
        /\ copy'.errs = copy.errs
        /\ \/ copy'.pc = "grouped" /\ copy'.todo = copy.todo
           \/ copy'.pc = "group" /\ copy'.todo = Tail(copy.todo)
    BY <1>0, <2>1
  <2>5. Shape' /\ OwnsInbound' /\ HoldsGates' /\ LedgerInv'
    BY <1>0, <2>1, <2>2, <2>3, <2>4, LoopKeeps
  <2>6. \A g \in GroupSet : IsAttached(g)' <=> IsAttached(g)
    BY <2>1, <2>4, SameSites
  <2>7. ASSUME NEW g \in GroupSet PROVE IsToDo(g)' \/ IsAttached(g)'
    <3>1. CASE copy'.todo = copy.todo
      BY <2>2, <2>6, <3>1 DEF IsToDo
    <3>2. CASE copy'.todo = Tail(copy.todo)
      <4>1. CASE IsToDo(g)
        <5>1. PICK m \in 1..Len(copy.todo) : copy.todo[m] = g
          BY <4>1 DEF IsToDo
        <5>2. g = Head(copy.todo) \/ \E k \in 1..Len(Tail(copy.todo)) : Tail(copy.todo)[k] = g
          BY <1>0, <2>2, <5>1, HeadOrTail
        <5> QED
          BY <2>2, <2>6, <3>2, <5>2 DEF IsToDo
      <4> QED
        BY <2>2, <2>6, <4>1
    <3> QED
      BY <2>4, <3>1, <3>2
  <2>8. LoopInv'
    BY <2>2, <2>4, <2>6, <2>7 DEF LoopInv
  <2>9. SeenInv'
    BY <2>4 DEF SeenInv
  <2> QED
    BY <2>5, <2>8, <2>9 DEF CopyInv
<1>5. CASE GroupFails
  <2>1. /\ copy.pc \in Looping /\ UNCHANGED <<panelVars, owned>>
        /\ copy' = [copy EXCEPT !.pc = "undo", !.inv = {}, !.post = None, !.errs = @ \cup {"failed"}]
    BY <1>5 DEF GroupFails
  <2>2. /\ DOMAIN copy' = DOMAIN copy /\ copy'.own = copy.own /\ copy'.tgt = copy.tgt
        /\ copy'.made = copy.made /\ copy'.baseline = copy.baseline /\ copy'.todo = copy.todo
        /\ copy'.errs = copy.errs \cup {"failed"} /\ copy'.pc = "undo"
    BY <1>0, <2>1
  <2>3. Shape' /\ OwnsInbound' /\ HoldsGates' /\ LedgerInv'
    BY <1>0, <2>1, <2>2, LoopKeeps
  <2>4. LoopInv' /\ SeenInv'
    BY <2>2 DEF LoopInv, SeenInv
  <2> QED
    BY <2>3, <2>4 DEF CopyInv
<1> QED
  BY <1>1, <1>2, <1>3, <1>4, <1>5

-----------------------------------------------------------------------------
(* The undoing.                                                             *)

LEMMA WithoutLast ==
  ASSUME NEW s \in Seq(Nat), s # <<>>, NEW t, t = SubSeq(s, 1, Len(s) - 1)
  PROVE  /\ t \in Seq(Nat)
         /\ \A k \in 1..Len(t) : \E m \in 1..Len(s) : t[k] = s[m]
         /\ \A m \in 1..Len(s) : s[m] # s[Len(s)] => \E k \in 1..Len(t) : t[k] = s[m]
         /\ Len(s) \in 1..Len(s)
<1>1. Len(s) \in Nat /\ Len(s) >= 1
  BY EmptySeq, LenProperties
<1>2. /\ t \in Seq(Nat) /\ Len(t) = Len(s) - 1
      /\ \A k \in 1..Len(t) : t[k] = s[k]
  <2> DEFINE n == Len(s) - 1
  <2>1. n \in Nat /\ 1 \in Int /\ n \in Int /\ n - 1 + 1 = n
    BY <1>1
  <2>2. \A k \in 1..n : s[k] \in Nat
    BY <1>1, ElementOfSeq
  <2> HIDE DEF n
  <2>3. /\ SubSeq(s, 1, n) \in Seq(Nat)
        /\ Len(SubSeq(s, 1, n)) = IF 1 <= n THEN n - 1 + 1 ELSE 0
        /\ \A k \in 1..n - 1 + 1 : SubSeq(s, 1, n)[k] = s[1 + k - 1]
    BY <2>1, <2>2, SubSeqProperties
  <2>4. Len(t) = n /\ t \in Seq(Nat)
    BY <2>1, <2>3 DEF n
  <2>5. \A k \in 1..n : t[k] = s[k]
    BY <2>1, <2>3 DEF n
  <2> QED
    BY <2>4, <2>5 DEF n
<1>3. \A k \in 1..Len(t) : k \in 1..Len(s)
  BY <1>1, <1>2
<1>4. \A m \in 1..Len(s) : m # Len(s) => m \in 1..Len(t)
  BY <1>1, <1>2
<1> QED
  BY <1>1, <1>2, <1>3, <1>4

LEMMA UndoKeeps ==
  ASSUME CopyInv, UNCHANGED <<ours, owned>>, copy.pc \in Undoing,
         DOMAIN copy' = DOMAIN copy,
         copy'.own = copy.own, copy'.baseline = copy.baseline, copy'.todo = copy.todo,
         copy'.made \in Seq(Nat), copy.errs \subseteq copy'.errs,
         copy'.pc \in Undoing \cup {"refresh"},
         copy'.pc \in Undoing => copy'.tgt.rev \in Revs,
         copy'.pc \in {"undoing", "removing"} => PanelOf[copy'.tgt.rev] = copy.own.panel
  PROVE  Shape' /\ OwnsInbound' /\ HoldsGates' /\ LoopInv' /\ SeenInv'
<1> USE DEF Before, Proving, Looping, Undoing, Ending
<1>1. Shape'
  BY DEF CopyInv, Shape
<1>2. OwnsInbound'
  BY DEF CopyInv, OwnsInbound
<1>3. HoldsGates'
  BY DEF CopyInv, HoldsGates, GatesHeld
<1>4. copy'.errs # {}
  BY DEF CopyInv, LoopInv
<1>5. LoopInv' /\ SeenInv'
  BY <1>4 DEF LoopInv, SeenInv
<1> QED
  BY <1>1, <1>2, <1>3, <1>5

\* The undoing looks for what there is to remove, or fails to.
LEMMA CopyLooks ==
  ASSUME RecordsOK, CopyInv, UndoLook \/ UndoFind
  PROVE  CopyInv'
<1> USE DEF Before, Proving, Looping, Undoing, Ending
<1>0. /\ DOMAIN copy = {"pc", "src", "tgt", "baseline", "own", "todo", "inv", "post", "made", "errs", "tries"}
      /\ copy.made \in Seq(Nat)
  BY DEF CopyInv, Shape
<1>1. /\ copy.pc = "undo" /\ UNCHANGED <<panelVars, owned>> /\ ConnectedRev /\ SamePanel
      /\ \/ /\ copy.made # <<>> /\ \E c \in records[PanelAt(Target)] : Removable(c)
            /\ copy' = [copy EXCEPT !.pc = "undoing", !.tgt = Connected(Target)]
         \/ copy.made = <<>> /\ copy' = [copy EXCEPT !.pc = "removing", !.tgt = Connected(Target)]
  BY ConnectLeads DEF UndoLook, UndoFind, At
<1>2. PanelOf[Connected(Target).rev] = copy.own.panel /\ Connected(Target).rev \in Revs
  BY <1>1 DEF ConnectedRev, SamePanel, PanelAt
<1>3. /\ DOMAIN copy' = DOMAIN copy /\ copy'.own = copy.own /\ copy'.baseline = copy.baseline
      /\ copy'.todo = copy.todo /\ copy'.made = copy.made /\ copy'.errs = copy.errs
      /\ copy'.tgt = Connected(Target)
      /\ \/ /\ copy'.pc = "undoing" /\ copy.made # <<>>
            /\ \E c \in records[copy.own.panel] : Removable(c)
         \/ copy'.pc = "removing" /\ copy.made = <<>>
  BY <1>0, <1>1 DEF SamePanel
<1>4. UNCHANGED <<inbounds, records, ours, lost>>
  BY <1>1 DEF panelVars
<1>5. Shape' /\ OwnsInbound' /\ HoldsGates' /\ LoopInv' /\ SeenInv'
  BY <1>0, <1>1, <1>2, <1>3, <1>4, UndoKeeps
<1>6. LastMade' = LastMade
  BY <1>3 DEF LastMade
<1>7. ASSUME copy'.pc = "undoing", NEW d \in records[copy.own.panel], d.uuid = LastMade
      PROVE  d.on \subseteq {copy.own.id}
  <2>1. PICK c \in records[copy.own.panel] : Removable(c)
    BY <1>3, <1>7
  <2>2. copy.own.panel \in Panels
    BY <1>1 DEF CopyInv, OwnsInbound
  <2> QED
    BY <1>7, <2>1, <2>2 DEF RecordsOK, Removable
<1>8. \A m \in 1..Len(copy.made) : copy.made[m] \in ours
  BY DEF CopyInv, LedgerInv
<1>9. ~lost /\ "cleanup" \notin copy.errs =>
        \A c \in records[copy.own.panel] : c.uuid \in ours => \E m \in 1..Len(copy.made) : copy.made[m] = c.uuid
  BY <1>1 DEF CopyInv, LedgerInv
<1>10. LedgerInv'
  BY <1>3, <1>4, <1>6, <1>7, <1>8, <1>9 DEF LedgerInv
<1> QED
  BY <1>5, <1>10 DEF CopyInv

LEMMA CopyCannotUndo ==
  ASSUME CopyInv, UndoClientFails \/ UndoInboundFails
  PROVE  CopyInv'
<1> USE DEF Before, Proving, Looping, Undoing, Ending
<1>0. /\ DOMAIN copy = {"pc", "src", "tgt", "baseline", "own", "todo", "inv", "post", "made", "errs", "tries"}
      /\ copy.made \in Seq(Nat) /\ \A m \in 1..Len(copy.made) : copy.made[m] \in ours
      /\ copy.pc = "undoing" => copy.made # <<>>
      /\ copy.pc \in Undoing => copy.tgt.rev \in Revs
  BY DEF CopyInv, Shape, LedgerInv
<1>1. /\ copy.pc \in Undoing /\ UNCHANGED <<panelVars, owned>>
      /\ \/ copy.made # <<>> /\ copy' = [copy EXCEPT !.pc = "undo", !.made = Unmade, !.errs = @ \cup {"cleanup"}]
         \/ copy' = [copy EXCEPT !.pc = "refresh", !.errs = @ \cup {"cleanup"}]
  BY <1>0 DEF UndoClientFails, UndoInboundFails, At, Fail
<1>2. /\ DOMAIN copy' = DOMAIN copy /\ copy'.own = copy.own /\ copy'.baseline = copy.baseline
      /\ copy'.todo = copy.todo /\ copy'.errs = copy.errs \cup {"cleanup"} /\ copy'.tgt = copy.tgt
      /\ \/ copy'.pc = "undo" /\ copy.made # <<>> /\ copy'.made = Unmade
         \/ copy'.pc = "refresh" /\ copy'.made = copy.made
  BY <1>0, <1>1
<1>3. copy'.made \in Seq(Nat) /\ \A m \in 1..Len(copy'.made) : copy'.made[m] \in ours
  <2>1. CASE copy.made # <<>> /\ copy'.made = Unmade
    <3>1. Unmade \in Seq(Nat) /\ \A k \in 1..Len(Unmade) : \E m \in 1..Len(copy.made) : Unmade[k] = copy.made[m]
      BY <1>0, <2>1, WithoutLast DEF Unmade
    <3> QED
      BY <1>0, <2>1, <3>1
  <2> QED
    BY <1>0, <1>2, <2>1
<1>4. UNCHANGED <<ours, owned>>
  BY <1>1 DEF panelVars
<1>5. copy.errs \subseteq copy'.errs /\ "cleanup" \in copy'.errs
  BY <1>2
<1>6. Shape' /\ OwnsInbound' /\ HoldsGates' /\ LoopInv' /\ SeenInv'
  BY <1>0, <1>1, <1>2, <1>3, <1>4, <1>5, UndoKeeps
<1>7. copy'.errs # {"failed"}
  BY <1>5
<1>8. LedgerInv'
  BY <1>2, <1>3, <1>4, <1>5, <1>7 DEF LedgerInv
<1> QED
  BY <1>6, <1>8 DEF CopyInv

\* It removes a record.
LEMMA CopyUnmakes ==
  ASSUME RecordsOK, CopyInv, UndoClient
  PROVE  CopyInv' /\ RecordsOK'
<1> USE DEF Before, Proving, Looping, Undoing, Ending
<1> DEFINE p == copy.own.panel
<1>0. /\ DOMAIN copy = {"pc", "src", "tgt", "baseline", "own", "todo", "inv", "post", "made", "errs", "tries"}
      /\ copy.made \in Seq(Nat) /\ \A m \in 1..Len(copy.made) : copy.made[m] \in ours
  BY DEF CopyInv, Shape, LedgerInv
<1>1. copy.pc = "undoing"
  BY DEF UndoClient, At
<1>2. /\ copy.made # <<>> /\ p \in Panels /\ PanelOf[copy.tgt.rev] = p /\ copy.tgt.rev \in Revs
  BY <1>1 DEF CopyInv, OwnsInbound, LedgerInv, Shape
<1>3. /\ DeleteClient(p, LastMade) /\ UNCHANGED owned
      /\ \/ copy' = [copy EXCEPT !.pc = "undo", !.made = Unmade] /\ UNCHANGED lost
         \/ copy' = [copy EXCEPT !.pc = "undo", !.made = Unmade, !.errs = @ \cup {"cleanup"}] /\ lost' = TRUE
  BY <1>2 DEF UndoClient
<1>4. /\ DOMAIN copy' = DOMAIN copy /\ copy'.own = copy.own /\ copy'.baseline = copy.baseline
      /\ copy'.todo = copy.todo /\ copy'.tgt = copy.tgt /\ copy'.made = Unmade /\ copy'.pc = "undo"
      /\ copy.errs \subseteq copy'.errs /\ (~lost' => ~lost /\ copy'.errs = copy.errs)
  <2>1. CASE copy' = [copy EXCEPT !.pc = "undo", !.made = Unmade] /\ UNCHANGED lost
    <3>1. copy'.errs = copy.errs
      BY <1>0, <2>1
    <3> QED
      BY <1>0, <2>1, <3>1
  <2>2. CASE copy' = [copy EXCEPT !.pc = "undo", !.made = Unmade, !.errs = @ \cup {"cleanup"}] /\ lost' = TRUE
    <3>1. copy'.errs = copy.errs \cup {"cleanup"}
      BY <1>0, <2>2
    <3> QED
      BY <1>0, <2>2, <3>1
  <2> QED
    BY <1>3, <2>1, <2>2
<1>5. UNCHANGED ours /\ RecordsOK' /\ records'[p] = {c \in records[p] : c.uuid # LastMade}
  <2>1. UNCHANGED ours
    BY <1>3 DEF DeleteClient
  <2> HIDE DEF p
  <2> QED
    BY <1>2, <1>3, <2>1, Deleted
<1>6. /\ Unmade \in Seq(Nat)
      /\ \A k \in 1..Len(Unmade) : \E m \in 1..Len(copy.made) : Unmade[k] = copy.made[m]
      /\ \A m \in 1..Len(copy.made) : copy.made[m] # LastMade => \E k \in 1..Len(Unmade) : Unmade[k] = copy.made[m]
  BY <1>0, <1>2, WithoutLast DEF Unmade, LastMade
<1>7. Shape' /\ OwnsInbound' /\ HoldsGates' /\ LoopInv' /\ SeenInv'
  BY <1>1, <1>2, <1>3, <1>4, <1>5, <1>6, UndoKeeps
<1>8. \A m \in 1..Len(copy'.made) : copy'.made[m] \in ours'
  BY <1>0, <1>4, <1>5, <1>6
<1>9. ~lost' /\ "cleanup" \notin copy'.errs =>
        \A c \in records'[p] : c.uuid \in ours' => \E m \in 1..Len(copy'.made) : copy'.made[m] = c.uuid
  <2>1. ASSUME ~lost', "cleanup" \notin copy'.errs, NEW c \in records'[p], c.uuid \in ours'
        PROVE  \E m \in 1..Len(copy'.made) : copy'.made[m] = c.uuid
    <3>1. c \in records[p] /\ c.uuid \in ours /\ c.uuid # LastMade
      BY <1>5, <2>1
    <3>2. ~lost /\ "cleanup" \notin copy.errs
      BY <1>4, <2>1
    <3>3. PICK m \in 1..Len(copy.made) : copy.made[m] = c.uuid
      BY <1>1, <3>1, <3>2 DEF CopyInv, LedgerInv
    <3> QED
      BY <1>4, <1>6, <3>1, <3>3
  <2> QED
    BY <2>1
<1>10. LedgerInv'
  BY <1>4, <1>8, <1>9 DEF LedgerInv
<1> QED
  BY <1>5, <1>7, <1>10 DEF CopyInv

\* It removes the inbound.
LEMMA CopyRemoves ==
  ASSUME RecordsOK, CopyInv, UndoInbound
  PROVE  CopyInv' /\ RecordsOK'
<1> USE DEF Before, Proving, Looping, Undoing, Ending
<1> DEFINE p == copy.own.panel
           i == copy.own.id
<1>0. /\ DOMAIN copy = {"pc", "src", "tgt", "baseline", "own", "todo", "inv", "post", "made", "errs", "tries"}
      /\ copy.made \in Seq(Nat)
  BY DEF CopyInv, Shape
<1>1. copy.pc = "removing"
  BY DEF UndoInbound, At
<1>2. /\ copy.made = <<>> /\ p \in Panels /\ PanelOf[copy.tgt.rev] = p
  BY <1>1 DEF CopyInv, OwnsInbound, LedgerInv
<1>3. /\ DeleteInbound(p, i) /\ UNCHANGED owned
      /\ \/ copy' = [copy EXCEPT !.pc = "refresh"] /\ UNCHANGED lost
         \/ copy' = [copy EXCEPT !.pc = "refresh", !.errs = @ \cup {"cleanup"}] /\ lost' = TRUE
  BY <1>2 DEF UndoInbound, Go, Fail
<1>4. /\ DOMAIN copy' = DOMAIN copy /\ copy'.own = copy.own /\ copy'.baseline = copy.baseline
      /\ copy'.todo = copy.todo /\ copy'.made = <<>> /\ copy'.pc = "refresh"
      /\ copy.errs \subseteq copy'.errs /\ (~lost' => ~lost /\ copy'.errs = copy.errs)
  <2>1. CASE copy' = [copy EXCEPT !.pc = "refresh"] /\ UNCHANGED lost
    <3>1. copy'.errs = copy.errs
      BY <1>0, <2>1
    <3> QED
      BY <1>0, <1>2, <2>1, <3>1
  <2>2. CASE copy' = [copy EXCEPT !.pc = "refresh", !.errs = @ \cup {"cleanup"}] /\ lost' = TRUE
    <3>1. copy'.errs = copy.errs \cup {"cleanup"}
      BY <1>0, <2>2
    <3> QED
      BY <1>0, <1>2, <2>2, <3>1
  <2> QED
    BY <1>3, <2>1, <2>2
<1>5. UNCHANGED ours
  BY <1>3 DEF DeleteInbound
<1>6. /\ RecordsOK' /\ \A x \in inbounds'[p] : x.id # i
      /\ \A d \in records'[p] : \E c \in records[p] : Like(d, c)
  <2> HIDE DEF p, i
  <2> QED
    BY <1>2, <1>3, InboundDeleted
<1>7. Shape' /\ OwnsInbound' /\ HoldsGates' /\ LoopInv' /\ SeenInv'
  BY <1>0, <1>1, <1>2, <1>3, <1>4, <1>5, UndoKeeps
<1>8. ASSUME copy'.errs = {"failed"}, ~lost', NEW d \in records'[p] PROVE d.uuid \notin ours'
  <2>1. ~lost /\ "cleanup" \notin copy.errs
    BY <1>4, <1>8
  <2>2. PICK c \in records[p] : d.uuid = c.uuid
    BY <1>6 DEF Like
  <2>3. 1..Len(copy.made) = {}
    BY <1>2
  <2> QED
    BY <1>1, <1>5, <2>1, <2>2, <2>3 DEF CopyInv, LedgerInv
<1>9. 1..Len(copy'.made) = {}
  BY <1>4
<1>10. LedgerInv'
  BY <1>4, <1>6, <1>8, <1>9 DEF LedgerInv, OwnIsGone
<1> QED
  BY <1>6, <1>7, <1>10 DEF CopyInv

-----------------------------------------------------------------------------
(* The posts.                                                               *)

LEMMA InboundAppears ==
  ASSUME RecordsOK, NEW p \in Panels, AddInbound(p)
  PROVE  /\ RecordsOK' /\ UNCHANGED ours
         /\ \A q \in Panels : inbounds[q] \subseteq inbounds'[q]
BY DEF AddInbound, RecordsOK

\* The new inbound is added, and it may be told whose it is or not.
LEMMA CopyAdds ==
  ASSUME RecordsOK, CopyInv, InboundAdded \/ InboundNotConfirmed
  PROVE  CopyInv' /\ RecordsOK'
<1> USE DEF Before, Proving, Looping, Undoing, Ending
<1> DEFINE p == PanelOf[copy.tgt.rev]
<1>1. copy.pc = "adding" /\ UNCHANGED owned
  BY DEF InboundAdded, InboundNotConfirmed, At
<1>2. /\ DOMAIN copy = {"pc", "src", "tgt", "baseline", "own", "todo", "inv", "post", "made", "errs", "tries"}
      /\ copy.own = None /\ copy.made = <<>> /\ ours = {} /\ copy.todo = Groups
      /\ copy.tgt.rev \in Revs /\ GatesHeld
  BY <1>1 DEF CopyInv, Shape, OwnsInbound, HoldsGates
<1>3. p \in Panels
  BY <1>2, PanelOfAssumption
<1>4. RecordsOK' /\ UNCHANGED ours
  <2>1. AddInbound(p) \/ NotSent
    BY DEF InboundAdded, InboundNotConfirmed
  <2>2. NotSent => RecordsOK' /\ UNCHANGED ours
    BY DEF NotSent, panelVars, RecordsOK
  <2> HIDE DEF p
  <2> QED
    BY <1>3, <2>1, <2>2, InboundAppears
<1>5. /\ DOMAIN copy' = DOMAIN copy /\ copy'.todo = Groups /\ copy'.made = <<>>
      /\ copy'.tgt = copy.tgt /\ copy'.baseline = copy.baseline
      /\ \/ copy'.pc = "refresh" /\ copy'.own = None /\ copy'.errs # {}
         \/ copy'.pc = "added" /\ copy'.own.panel = p /\ copy'.own.id \notin copy.baseline
  <2>1. \/ \E e : copy' = [copy EXCEPT !.pc = "refresh", !.errs = @ \cup {e}]
        \/ \E i : i \notin copy.baseline /\ copy' = [copy EXCEPT !.pc = "added", !.own = [panel |-> p, id |-> i]]
    <3>1. CASE InboundAdded
      BY <3>1 DEF InboundAdded, Fail
    <3>2. CASE InboundNotConfirmed
      BY <3>2 DEF InboundNotConfirmed, Fail
    <3> QED
      BY <3>1, <3>2
  <2>2. ASSUME NEW e, copy' = [copy EXCEPT !.pc = "refresh", !.errs = @ \cup {e}]
        PROVE  /\ DOMAIN copy' = DOMAIN copy /\ copy'.todo = Groups /\ copy'.made = <<>>
               /\ copy'.tgt = copy.tgt /\ copy'.baseline = copy.baseline
               /\ copy'.pc = "refresh" /\ copy'.own = None /\ copy'.errs # {}
    <3>1. copy'.errs = copy.errs \cup {e}
      BY <1>2, <2>2
    <3>2. copy'.errs # {}
      BY <3>1
    <3> QED
      BY <1>2, <2>2, <3>2
  <2>3. ASSUME NEW i, i \notin copy.baseline, copy' = [copy EXCEPT !.pc = "added", !.own = [panel |-> p, id |-> i]]
        PROVE  /\ DOMAIN copy' = DOMAIN copy /\ copy'.todo = Groups /\ copy'.made = <<>>
               /\ copy'.tgt = copy.tgt /\ copy'.baseline = copy.baseline
               /\ copy'.pc = "added" /\ copy'.own.panel = p /\ copy'.own.id \notin copy.baseline
    BY <1>2, <2>3
  <2> QED
    BY <2>1, <2>2, <2>3
<1>6. Shape'
  BY <1>2, <1>5, GroupsAreSeq DEF Shape
<1>7. OwnsInbound'
  BY <1>2, <1>3, <1>4, <1>5 DEF OwnsInbound
<1>8. HoldsGates'
  BY <1>1, <1>2 DEF HoldsGates, GatesHeld
<1>9. LoopInv' /\ SeenInv'
  BY <1>5 DEF LoopInv, SeenInv
<1>10. 1..Len(copy'.made) = {}
  BY <1>5
<1>11. LedgerInv'
  BY <1>2, <1>4, <1>5, <1>10 DEF LedgerInv
<1> QED
  BY <1>4, <1>6, <1>7, <1>8, <1>9, <1>11 DEF CopyInv

\* A post for a group: no record goes or is detached, and the group is attached.
LEMMA GroupGetsPosted ==
  ASSUME RecordsOK, CopyInv, copy.pc = "posting", NEW p, p = copy.own.panel, GroupPost(p)
  PROVE  /\ RecordsOK' /\ UNCHANGED inbounds
         /\ ours' = IF copy.post = None THEN ours \cup {minted + 1} ELSE ours
         /\ \A g : IsAttached(g) => \E c \in records'[p] : OwnIsGone \/ (copy.own.id \in c.on /\ c.sub = g)
         /\ \E c \in records'[p] : copy.own.id \in c.on /\ c.sub = Group
         /\ \A d \in records'[p] : \/ \E c \in records[p] : Like(d, c)
                                   \/ copy.post = None /\ d.uuid = minted + 1
         /\ \A q \in Panels : \A c \in records[q] : \E d \in records'[q] : Like(d, c)
<1> USE DEF Before, Proving, Looping, Undoing, Ending
<1> DEFINE i == copy.own.id
<1>1. p \in Panels /\ copy.todo \in Seq(GroupSet) /\ copy.todo # <<>>
  BY DEF CopyInv, OwnsInbound, Shape, LoopInv
<1>2. Group = Head(copy.todo) /\ Group \in GroupSet
  BY <1>1, HeadOrTail DEF Group
<1>3. CASE copy.post = None /\ AddClient(p, Group, i) /\ ours' = ours \cup {minted'}
  <2> HIDE DEF i
  <2> DEFINE r == Record(minted + 1, Group, {i})
  <2>1. ours' \in {ours, ours \cup {minted'}}
    BY <1>3
  <2>2. /\ RecordsOK' /\ minted' = minted + 1
        /\ \A q \in Panels \ {p} : records'[q] = records[q]
        /\ records'[p] = records[p] \cup {r}
    BY <1>1, <1>2, <1>3, <2>1, Added
  <2>3. r.uuid = minted + 1 /\ r.sub = Group /\ r.on = {i}
    BY RecordFields
  <2>4. inbounds' = inbounds
    BY <1>3 DEF AddClient
  <2> HIDE DEF r
  <2>5. r \in records'[p] /\ \A q \in Panels : records[q] \subseteq records'[q]
    BY <2>2
  <2>6. \A g : IsAttached(g) => \E c \in records'[p] : OwnIsGone \/ (i \in c.on /\ c.sub = g)
    BY <1>1, <2>5 DEF IsAttached, i
  <2> QED
    BY <1>1, <1>3, <2>2, <2>3, <2>4, <2>5, <2>6, LikeSelf DEF i
<1>4. CASE copy.post # None /\ AttachClient(p, copy.post, i)
  <2> HIDE DEF i
  <2>1. /\ RecordsOK'
        /\ \A q \in Panels \ {p} : records'[q] = records[q]
        /\ \A c \in records[p] : \E d \in records'[p] :
             Like(d, c) /\ c.on \subseteq d.on /\ (c.uuid = copy.post => i \in d.on)
        /\ \A d \in records'[p] : \E c \in records[p] : Like(d, c) /\ (c.uuid # copy.post => d = c)
    BY <1>1, <1>4, RecordAttached
  <2>2. inbounds' = inbounds /\ ours' = ours
    BY <1>4 DEF AttachClient
  <2>3. PICK b \in records[p] : b.uuid = copy.post /\ b.sub = Group
    BY <1>2, <1>4 DEF CopyInv, SeenInv
  <2>4. PICK e \in records'[p] : i \in e.on /\ e.sub = Group
    BY <2>1, <2>3 DEF Like
  <2>5. ASSUME NEW g, IsAttached(g)
        PROVE  \E c \in records'[p] : OwnIsGone \/ (i \in c.on /\ c.sub = g)
    <3>1. CASE OwnIsGone
      BY <2>4, <3>1
    <3>2. CASE ~OwnIsGone
      <4>1. PICK c \in records[p] : i \in c.on /\ c.sub = g
        BY <2>5, <3>2 DEF IsAttached, i
      <4> QED
        BY <2>1, <4>1 DEF Like
    <3> QED
      BY <3>1, <3>2
  <2>6. \A q \in Panels : \A c \in records[q] : \E d \in records'[q] : Like(d, c)
    BY <2>1, LikeSelf
  <2> QED
    BY <1>4, <2>1, <2>2, <2>4, <2>5, <2>6 DEF i
<1> QED
  BY <1>3, <1>4 DEF GroupPost

LEMMA CopyPosts ==
  ASSUME RecordsOK, CopyInv, GroupPosted
  PROVE  CopyInv' /\ RecordsOK'
<1> USE DEF Before, Proving, Looping, Undoing, Ending
<1> DEFINE p == copy.own.panel
<1>1. copy.pc = "posting"
  BY DEF GroupPosted, At
<1>2. /\ DOMAIN copy = {"pc", "src", "tgt", "baseline", "own", "todo", "inv", "post", "made", "errs", "tries"}
      /\ copy.made \in Seq(Nat) /\ \A m \in 1..Len(copy.made) : copy.made[m] \in ours
      /\ copy.todo # <<>> /\ copy.errs = {}
      /\ PanelOf[copy.tgt.rev] = p /\ copy.tgt.rev \in Revs /\ p \in Panels
      /\ \A g \in GroupSet : IsToDo(g) \/ IsAttached(g)
  BY <1>1 DEF CopyInv, Shape, OwnsInbound, LedgerInv, LoopInv
<1>3. /\ GroupPost(p) /\ UNCHANGED <<lost, owned>>
      /\ copy' = [copy EXCEPT !.pc = "posted", !.post = None, !.made = Remembered]
  BY <1>2 DEF GroupPosted
<1>4. /\ DOMAIN copy' = DOMAIN copy /\ copy'.pc = "posted" /\ copy'.own = copy.own
      /\ copy'.todo = copy.todo /\ copy'.tgt = copy.tgt /\ copy'.baseline = copy.baseline
      /\ copy'.errs = copy.errs
      /\ copy'.made = IF copy.post = None THEN Append(copy.made, minted + 1) ELSE copy.made
  BY <1>2, <1>3 DEF Remembered
<1>5. /\ RecordsOK' /\ UNCHANGED inbounds
      /\ ours' = IF copy.post = None THEN ours \cup {minted + 1} ELSE ours
      /\ \A g : IsAttached(g) => \E c \in records'[p] : OwnIsGone \/ (copy.own.id \in c.on /\ c.sub = g)
      /\ \E c \in records'[p] : copy.own.id \in c.on /\ c.sub = Group
      /\ \A d \in records'[p] : \/ \E c \in records[p] : Like(d, c)
                                \/ copy.post = None /\ d.uuid = minted + 1
  BY <1>1, <1>3, GroupGetsPosted
<1>6. minted \in Nat
  BY DEF RecordsOK
<1>7. /\ copy'.made \in Seq(Nat)
      /\ \A m \in 1..Len(copy.made) : m \in 1..Len(copy'.made) /\ copy'.made[m] = copy.made[m]
      /\ copy.post = None => \E m \in 1..Len(copy'.made) : copy'.made[m] = minted + 1
      /\ \A m \in 1..Len(copy'.made) : copy'.made[m] \in ours'
  <2>1. CASE copy.post = None
    <3>1. copy'.made = Append(copy.made, minted + 1) /\ ours' = ours \cup {minted + 1}
      BY <1>4, <1>5, <2>1
    <3>2. /\ Append(copy.made, minted + 1) \in Seq(Nat)
          /\ Len(Append(copy.made, minted + 1)) = Len(copy.made) + 1
          /\ Len(copy.made) \in Nat
          /\ \A m \in 1..Len(copy.made) : Append(copy.made, minted + 1)[m] = copy.made[m]
          /\ Append(copy.made, minted + 1)[Len(copy.made) + 1] = minted + 1
      BY <1>2, <1>6, AppendProperties, LenProperties
    <3>3. \A m \in 1..Len(copy'.made) : m \in 1..Len(copy.made) \/ m = Len(copy.made) + 1
      BY <3>1, <3>2
    <3>4. \A m \in 1..Len(copy.made) : m \in 1..Len(copy'.made)
      BY <3>1, <3>2
    <3>5. Len(copy.made) + 1 \in 1..Len(copy'.made)
      BY <3>1, <3>2
    <3> QED
      BY <1>2, <3>1, <3>2, <3>3, <3>4, <3>5
  <2>2. CASE copy.post # None
    BY <1>2, <1>4, <1>5, <2>2
  <2> QED
    BY <2>1, <2>2
<1>8. OwnIsGone' <=> OwnIsGone
  BY <1>4, <1>5 DEF OwnIsGone
<1>9. \A g : IsAttached(g) => IsAttached(g)'
  BY <1>4, <1>5, <1>8 DEF IsAttached
<1>10. Shape'
  BY <1>2, <1>4, <1>7 DEF CopyInv, Shape
<1>11. OwnsInbound'
  BY <1>1, <1>4 DEF CopyInv, OwnsInbound
<1>12. HoldsGates'
  BY <1>1, <1>3, <1>4 DEF CopyInv, HoldsGates, GatesHeld
<1>13. LoopInv'
  <2>1. \A g \in GroupSet : g = Head(copy'.todo) => IsAttached(g)'
    BY <1>4, <1>5 DEF IsAttached, Group
  <2>2. \A g \in GroupSet : IsToDo(g)' \/ IsAttached(g)'
    BY <1>2, <1>4, <1>9 DEF IsToDo
  <2> QED
    BY <1>2, <1>4, <2>1, <2>2 DEF LoopInv
<1>14. SeenInv'
  BY <1>4 DEF SeenInv
<1>15. ASSUME ~lost', "cleanup" \notin copy'.errs, NEW d \in records'[p], d.uuid \in ours'
       PROVE  \E m \in 1..Len(copy'.made) : copy'.made[m] = d.uuid
  <2>1. CASE copy.post = None /\ d.uuid = minted + 1
    BY <1>7, <2>1
  <2>2. ASSUME NEW c \in records[p], Like(d, c) PROVE \E m \in 1..Len(copy'.made) : copy'.made[m] = d.uuid
    <3>1. c.uuid \in Nat /\ c.uuid <= minted /\ c.uuid = d.uuid
      BY <1>2, <2>2 DEF RecordsOK, Like
    <3>2. c.uuid \in ours
      BY <1>5, <1>6, <1>15, <3>1
    <3>3. \E m \in 1..Len(copy.made) : copy.made[m] = c.uuid
      BY <1>1, <1>3, <1>4, <1>15, <2>2, <3>2 DEF CopyInv, LedgerInv
    <3> QED
      BY <1>7, <3>1, <3>3
  <2> QED
    BY <1>5, <2>1, <2>2
<1>16. LedgerInv'
  BY <1>4, <1>7, <1>15 DEF LedgerInv
<1> QED
  BY <1>5, <1>10, <1>11, <1>12, <1>13, <1>14, <1>16 DEF CopyInv

LEMMA CopyPostFails ==
  ASSUME RecordsOK, CopyInv, GroupPostFails
  PROVE  CopyInv' /\ RecordsOK'
<1> USE DEF Before, Proving, Looping, Undoing, Ending
<1> DEFINE p == copy.own.panel
<1>1. copy.pc = "posting" /\ UNCHANGED owned
      /\ copy' = [copy EXCEPT !.pc = "undo", !.post = None, !.errs = @ \cup {"failed"}]
  BY DEF GroupPostFails, At
<1>2. /\ DOMAIN copy = {"pc", "src", "tgt", "baseline", "own", "todo", "inv", "post", "made", "errs", "tries"}
      /\ \A m \in 1..Len(copy.made) : copy.made[m] \in ours
      /\ PanelOf[copy.tgt.rev] = p
  BY <1>1 DEF CopyInv, Shape, OwnsInbound, LedgerInv
<1>3. /\ DOMAIN copy' = DOMAIN copy /\ copy'.pc = "undo" /\ copy'.own = copy.own
      /\ copy'.todo = copy.todo /\ copy'.tgt = copy.tgt /\ copy'.baseline = copy.baseline
      /\ copy'.errs = copy.errs \cup {"failed"} /\ copy'.made = copy.made
  BY <1>1, <1>2
<1>4. Shape'
  BY <1>1, <1>3 DEF CopyInv, Shape
<1>5. OwnsInbound'
  BY <1>1, <1>3 DEF CopyInv, OwnsInbound
<1>6. HoldsGates'
  BY <1>1, <1>3 DEF CopyInv, HoldsGates, GatesHeld
<1>7. "failed" \in copy'.errs /\ copy.errs \subseteq copy'.errs
  BY <1>3
<1>8. LoopInv' /\ SeenInv'
  BY <1>3, <1>7 DEF LoopInv, SeenInv
<1>9. RecordsOK' /\ LedgerInv'
  <2>1. CASE NotSent
    <3>1. RecordsOK'
      BY <2>1 DEF NotSent, panelVars, RecordsOK
    <3> QED
      BY <1>1, <1>3, <1>7, <2>1, <3>1, LedgerStays DEF NotSent
  <2>2. CASE GroupPost(p) /\ lost' = TRUE
    <3>1. RecordsOK' /\ ours \subseteq ours'
      BY <1>1, <2>2, GroupGetsPosted
    <3>2. LedgerInv'
      BY <1>2, <1>3, <2>2, <3>1 DEF LedgerInv
    <3> QED
      BY <3>1, <3>2
  <2> QED
    BY <1>2, <2>1, <2>2 DEF GroupPostFails
<1> QED
  BY <1>4, <1>5, <1>6, <1>8, <1>9 DEF CopyInv

-----------------------------------------------------------------------------
(* Theorems.                                                                *)

InboundInv == RecordsOK /\ EditOK /\ CopyInv

\* The steps of a copy that change neither panels nor what was counted there.
Quiet ==
  \/ Start \/ OpenSource \/ OpenTarget \/ ReadSource \/ TakeGroupGate \/ ReadBaseline
  \/ GiveUp \/ SendInbound \/ CheckInbound
  \/ ProveOwnership \/ ProofFails
  \/ NextGroup \/ ListGroup \/ DecideGroup \/ CheckGroup \/ GroupFails
  \/ UndoLook \/ UndoClientFails \/ UndoFind \/ UndoInboundFails \/ RefreshAfter \/ Release

LEMMA QuietSteps == Quiet => UNCHANGED panelVars
BY DEF Quiet, Start, OpenSource, OpenTarget, ReadSource, TakeGroupGate, ReadBaseline,
       GiveUp, SendInbound, CheckInbound, ProveOwnership, ProofFails, NextGroup, ListGroup,
       DecideGroup, CheckGroup, GroupFails, UndoLook, UndoClientFails, UndoFind,
       UndoInboundFails, RefreshAfter, Release

LEMMA CopyGoesOn ==
  ASSUME InboundInv, CopyNext
  PROVE  InboundInv'
<1>1. RecordsOK /\ EditOK /\ CopyInv
  BY DEF InboundInv
<1>2. edit' = edit
  BY DEF CopyNext, Start, OpenSource, OpenTarget, ReadSource, TakeGroupGate, ReadBaseline,
         GiveUp, SendInbound, InboundAdded, InboundNotConfirmed, CheckInbound, ProveOwnership,
         ProofFails, NextGroup, ListGroup, DecideGroup, GroupPosted, GroupPostFails, CheckGroup,
         GroupFails, UndoLook, UndoClient, UndoClientFails, UndoFind, UndoInbound,
         UndoInboundFails, RefreshAfter, Release
<1>3. EditOK'
  BY <1>1, <1>2 DEF EditOK
<1>4. CASE Quiet
  <2>1. RecordsOK'
    BY <1>1, <1>4, QuietSteps DEF panelVars, RecordsOK
  <2>2. CopyInv'
    BY <1>1, <1>4, CopyBegins, CopyProves, CopyLoops, CopyLooks, CopyCannotUndo, CopyEnds DEF Quiet
  <2> QED
    BY <1>3, <2>1, <2>2 DEF InboundInv
<1>5. CASE InboundAdded \/ InboundNotConfirmed
  BY <1>1, <1>3, <1>5, CopyAdds DEF InboundInv
<1>6. CASE GroupPosted
  BY <1>1, <1>3, <1>6, CopyPosts DEF InboundInv
<1>7. CASE GroupPostFails
  BY <1>1, <1>3, <1>7, CopyPostFails DEF InboundInv
<1>8. CASE UndoClient
  BY <1>1, <1>3, <1>8, CopyUnmakes DEF InboundInv
<1>9. CASE UndoInbound
  BY <1>1, <1>3, <1>9, CopyRemoves DEF InboundInv
<1> QED
  BY <1>4, <1>5, <1>6, <1>7, <1>8, <1>9 DEF CopyNext, Quiet

LEMMA InboundGoesOn == InboundInv /\ [InboundNext]_inboundVars => InboundInv'
<1> SUFFICES ASSUME InboundInv, [InboundNext]_inboundVars PROVE InboundInv'
  OBVIOUS
<1>1. CASE CopyNext
  BY <1>1, CopyGoesOn
<1>2. CASE EditStart \/ EditRead \/ EditPost \/ EditEnds \/ PeerMutates \/ Elsewhere \/ UNCHANGED inboundVars
  BY <1>2, OthersAct, OthersKeep DEF InboundInv
<1> QED
  BY <1>1, <1>2 DEF InboundNext

\* A copy owns the inbound it removes, keeps what it has decided true while it holds
\* its gates, and knows every record it has made.
THEOREM InboundInvariant == InboundSpec => []InboundInv
<1>1. InboundInit => InboundInv
  BY RecordsInit, CopyInit DEF InboundInv
<1> QED
  BY <1>1, InboundGoesOn, PTL DEF InboundSpec

\* CopyInbound: a copy that succeeds has attached every group of the source to the
\* new inbound, unless somebody has deleted that meanwhile.
THEOREM CopiesAreComplete == InboundSpec => []CopyIsComplete
<1>1. InboundInv => CopyIsComplete
  <2> SUFFICES ASSUME InboundInv, At("release"), copy.errs = {},
                      copy.own.id \in IdsOf(copy.own.panel), NEW n \in DOMAIN Groups
               PROVE  \E c \in On(copy.own.panel, copy.own.id) : c.sub = Groups[n]
    BY DEF CopyIsComplete
  <2>1. IsAttached(Groups[n])
    BY DEF InboundInv, CopyInv, LoopInv, Ending, GroupSet, At
  <2>2. ~OwnIsGone
    BY DEF OwnIsGone, IdsOf
  <2> QED
    BY <2>1, <2>2 DEF IsAttached, On
<1> QED
  BY InboundInvariant, <1>1, PTL

\* compensateInboundCopy: a copy that fails and reports no trouble with the undoing
\* has left neither the inbound nor a record it made, unless an answer was lost.
THEOREM NothingIsLeft == InboundSpec => []NothingLeftSilently
<1>1. InboundInv => NothingLeftSilently
  BY DEF InboundInv, CopyInv, LedgerInv, NothingLeftSilently, Ending, OwnIsGone, IdsOf, At
<1> QED
  BY InboundInvariant, <1>1, PTL

LEMMA RemovalIsOwn ==
  ASSUME InboundInv, InboundNext, copy' # copy, NEW p \in Panels, NEW x \in inbounds[p],
         x.id \notin {y.id : y \in inbounds'[p]}
  PROVE  p = copy.own.panel /\ x.id = copy.own.id /\ x.id \notin copy.baseline
<1> USE DEF Before, Proving, Looping, Undoing, Ending
<1>0. RecordsOK /\ CopyInv
  BY DEF InboundInv
<1>1. x \notin inbounds'[p]
  OBVIOUS
<1>2. CopyNext
  BY DEF InboundNext, EditStart, EditRead, EditPost, EditEnds, PeerMutates, Elsewhere
<1>3. ASSUME Quiet PROVE FALSE
  BY <1>1, <1>3, QuietSteps DEF panelVars
<1>4. ASSUME InboundAdded \/ InboundNotConfirmed PROVE FALSE
  <2>1. copy.pc = "adding" /\ (AddInbound(PanelOf[copy.tgt.rev]) \/ NotSent)
    BY <1>4 DEF InboundAdded, InboundNotConfirmed, At
  <2>2. PanelOf[copy.tgt.rev] \in Panels
    BY <1>0, <2>1, PanelOfAssumption DEF CopyInv, Shape
  <2> QED
    BY <1>0, <1>1, <2>1, <2>2, InboundAppears DEF NotSent, panelVars
<1>5. ASSUME GroupPosted \/ GroupPostFails \/ UndoClient PROVE FALSE
  <2>1. inbounds' = inbounds
    BY <1>5 DEF GroupPosted, GroupPostFails, UndoClient, GroupPost, AddClient, AttachClient,
                DeleteClient, NotSent, panelVars
  <2> QED
    BY <1>1, <2>1
<1>6. CASE UndoInbound
  <2>1. copy.pc = "removing"
    BY <1>6 DEF UndoInbound, At
  <2>2. /\ PanelOf[copy.tgt.rev] = copy.own.panel /\ copy.own.panel \in Panels
        /\ copy.own.id \notin copy.baseline
    BY <1>0, <2>1 DEF CopyInv, OwnsInbound
  <2> DEFINE q == copy.own.panel
             i == copy.own.id
  <2>3. DeleteInbound(q, i)
    BY <1>6, <2>2 DEF UndoInbound
  <2>4. q \in Panels /\ i \notin copy.baseline
    BY <2>2
  <2> HIDE DEF q, i
  <2>5. /\ \A o \in Panels \ {q} : inbounds'[o] = inbounds[o]
        /\ inbounds'[q] = {y \in inbounds[q] : y.id # i}
    BY <1>0, <2>3, <2>4, InboundDeleted
  <2>6. p = q
    BY <1>1, <2>5
  <2>7. x.id = i
    BY <1>1, <2>5, <2>6
  <2> QED
    BY <2>4, <2>6, <2>7 DEF q, i
<1> QED
  BY <1>2, <1>3, <1>4, <1>5, <1>6 DEF CopyNext, Quiet

\* compensateInboundCopy: the inbound a copy removes is one the panel did not have
\* before, on the panel it was copied to, wherever the row leads now.
THEOREM OnlyItsInboundGoes == InboundSpec => RemovesOnlyItsInbound
<1>1. InboundInv /\ [InboundNext]_inboundVars =>
        [copy' # copy =>
           \A p \in Panels : \A x \in inbounds[p] :
             x.id \notin {y.id : y \in inbounds'[p]} =>
               p = copy.own.panel /\ x.id = copy.own.id /\ x.id \notin copy.baseline]_inboundVars
  BY RemovalIsOwn
<1> QED
  BY InboundInvariant, <1>1, PTL DEF InboundSpec, RemovesOnlyItsInbound

LEMMA RecordsGoToo ==
  ASSUME InboundInv, InboundNext, NEW p \in Panels, NEW c \in records[p],
         c.uuid \notin {d.uuid : d \in records'[p]}
  PROVE  c.uuid \in ours /\ c.on \subseteq {copy.own.id}
<1> USE DEF Before, Proving, Looping, Undoing, Ending
<1>0. RecordsOK /\ CopyInv /\ EditOK
  BY DEF InboundInv
<1>1. \A d \in records'[p] : d.uuid # c.uuid
  OBVIOUS
<1>2. ASSUME \E d \in records'[p] : Like(d, c) PROVE FALSE
  BY <1>1, <1>2 DEF Like
<1>3. ASSUME UNCHANGED records PROVE FALSE
  BY <1>2, <1>3, LikeSelf
<1>4. ASSUME EditStart \/ EditRead \/ EditPost \/ EditEnds \/ PeerMutates \/ Elsewhere PROVE FALSE
  <2>1. OthersStep
    BY <1>0, <1>4, OthersAct
  <2> QED
    BY <1>2, <2>1 DEF OthersStep
<1>5. ASSUME Quiet \/ InboundAdded \/ InboundNotConfirmed PROVE FALSE
  <2>1. UNCHANGED records
    BY <1>5, QuietSteps DEF InboundAdded, InboundNotConfirmed, AddInbound, NotSent, panelVars
  <2> QED
    BY <1>3, <2>1
<1>6. ASSUME GroupPosted \/ GroupPostFails PROVE FALSE
  <2>1. copy.pc = "posting"
    BY <1>6 DEF GroupPosted, GroupPostFails, At
  <2>2. PanelOf[copy.tgt.rev] = copy.own.panel
    BY <1>0, <2>1 DEF CopyInv, OwnsInbound
  <2>3. NotSent \/ GroupPost(copy.own.panel)
    BY <1>6, <2>2 DEF GroupPosted, GroupPostFails
  <2>4. CASE NotSent
    BY <1>3, <2>4 DEF NotSent, panelVars
  <2>5. CASE GroupPost(copy.own.panel)
    <3>1. \A q \in Panels : \A x \in records[q] : \E d \in records'[q] : Like(d, x)
      BY <1>0, <2>1, <2>5, GroupGetsPosted
    <3> QED
      BY <1>2, <3>1
  <2> QED
    BY <2>3, <2>4, <2>5
<1>7. ASSUME UndoInbound PROVE FALSE
  <2>1. copy.pc = "removing"
    BY <1>7 DEF UndoInbound, At
  <2> DEFINE q == copy.own.panel
             i == copy.own.id
  <2>2. PanelOf[copy.tgt.rev] = q /\ q \in Panels
    BY <1>0, <2>1 DEF CopyInv, OwnsInbound
  <2>3. DeleteInbound(q, i)
    BY <1>7, <2>2 DEF UndoInbound
  <2> HIDE DEF q, i
  <2>4. /\ \A o \in Panels \ {q} : records'[o] = records[o]
        /\ \A x \in records[q] : \E d \in records'[q] : Like(d, x)
    BY <1>0, <2>2, <2>3, InboundDeleted
  <2> QED
    BY <1>2, <2>4, LikeSelf
<1>8. CASE UndoClient
  <2>1. copy.pc = "undoing"
    BY <1>8 DEF UndoClient, At
  <2> DEFINE q == copy.own.panel
  <2>2. /\ PanelOf[copy.tgt.rev] = q /\ q \in Panels
        /\ copy.made # <<>> /\ copy.made \in Seq(Nat)
        /\ \A x \in records[q] : x.uuid = LastMade => x.on \subseteq {copy.own.id}
        /\ \A m \in 1..Len(copy.made) : copy.made[m] \in ours
    BY <1>0, <2>1 DEF CopyInv, OwnsInbound, LedgerInv, Shape
  <2>3. DeleteClient(q, LastMade)
    BY <1>8, <2>2 DEF UndoClient
  <2> HIDE DEF q
  <2>4. /\ \A o \in Panels \ {q} : records'[o] = records[o]
        /\ records'[q] = {x \in records[q] : x.uuid # LastMade}
    BY <1>0, <2>2, <2>3, Deleted
  <2>5. p = q /\ c.uuid = LastMade
    BY <1>1, <2>4
  <2>6. LastMade \in ours
    BY <2>2, EmptySeq, LenProperties DEF LastMade
  <2> QED
    BY <2>2, <2>5, <2>6
<1> QED
  BY <1>4, <1>5, <1>6, <1>7, <1>8 DEF InboundNext, CopyNext, Quiet

\* compensateInboundCopy: a client record goes only if the copy made it and
\* nobody has attached it to another inbound since.
THEOREM OnlyItsRecordsGo == InboundSpec => RemovesOnlyItsRecords
<1>1. InboundInv /\ [InboundNext]_inboundVars =>
        [\A p \in Panels : \A c \in records[p] :
           c.uuid \notin {d.uuid : d \in records'[p]} =>
             c.uuid \in ours /\ c.on \subseteq {copy.own.id}]_inboundVars
  BY RecordsGoToo
<1> QED
  BY InboundInvariant, <1>1, PTL DEF InboundSpec, RemovesOnlyItsRecords

\* A copy, an edit and the mutations of others read and replace connections as the
\* aggregator does, so what is proved of Connections and its link cache holds here.
THEOREM CopiesUseConnections == InboundSpec => ConnSpec
<1>1. InboundInit => ConnInit
  BY DEF InboundInit
<1>2. [InboundNext]_inboundVars => [ConnNext]_aggVars
  <2> SUFFICES ASSUME [InboundNext]_inboundVars PROVE [ConnNext]_aggVars
    OBVIOUS
  <2>1. {Source, Target} \subseteq Servers /\ \A s \in Servers : {s} \in SUBSET Servers
    BY ServersAssumption
  <2>2. ASSUME \E s \in Servers : Connect(s) \/ Write(s) PROVE ConnNext
    BY <2>2 DEF ConnNext
  <2>3. ASSUME \E S \in SUBSET Servers : Lookup(S) PROVE ConnNext
    BY <2>3 DEF ConnNext
  <2>4. ASSUME Looks(Source) \/ Looks(Target) PROVE [ConnNext]_aggVars
    BY <2>1, <2>3, <2>4 DEF Looks
  <2>5. CASE OpenSource \/ OpenTarget \/ ProveOwnership \/ UndoLook \/ UndoFind \/ EditRead
    BY <2>1, <2>2, <2>5 DEF OpenSource, OpenTarget, ProveOwnership, UndoLook, UndoFind, EditRead
  <2>6. CASE GiveUp \/ CheckInbound \/ ProofFails \/ GroupFails \/ UndoClientFails
               \/ UndoInboundFails \/ EditEnds
    BY <2>4, <2>6 DEF GiveUp, CheckInbound, ProofFails, GroupFails, UndoClientFails,
                      UndoInboundFails, EditEnds
  <2>7. CASE RefreshAfter
    BY <2>3, <2>7 DEF RefreshAfter
  <2>8. CASE Elsewhere
    BY <2>1, <2>2, <2>3, <2>8 DEF Elsewhere
  <2>9. CASE UNCHANGED aggVars
    BY <2>9
  <2>10. Start \/ ReadSource \/ TakeGroupGate \/ ReadBaseline \/ SendInbound \/ InboundAdded
           \/ InboundNotConfirmed \/ NextGroup \/ ListGroup \/ DecideGroup \/ GroupPosted
           \/ GroupPostFails \/ CheckGroup \/ UndoClient \/ UndoInbound \/ Release
           \/ EditStart \/ EditPost \/ PeerMutates \/ UNCHANGED inboundVars
         => UNCHANGED aggVars
    BY DEF Start, ReadSource, TakeGroupGate, ReadBaseline, SendInbound, InboundAdded,
           InboundNotConfirmed, NextGroup, ListGroup, DecideGroup, GroupPosted, GroupPostFails,
           CheckGroup, UndoClient, UndoInbound, Release, EditStart, EditPost, PeerMutates, inboundVars
  <2> QED
    BY <2>5, <2>6, <2>7, <2>8, <2>9, <2>10 DEF InboundNext, CopyNext
<1> QED
  BY <1>1, <1>2, PTL DEF InboundSpec, ConnSpec

=============================================================================
