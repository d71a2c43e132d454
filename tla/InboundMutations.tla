-------------------------- MODULE InboundMutations --------------------------
(***************************************************************************)
(* internal/aggregator/inbound_mutations.go: copying an inbound of one     *)
(* server to another with the groups attached to it, undoing a copy that   *)
(* fails half way, and editing or deleting an inbound.                     *)
(*                                                                         *)
(* A copy holds the gate of its source inbound and the gates of its groups *)
(* on the target server.  It remembers the inbound and the client records  *)
(* the panel confirmed to have made for it; if a later step fails, exactly *)
(* those are removed again, over a new connection if the row has been      *)
(* edited but still leads to the same panel.  Attachments of groups by     *)
(* other requests go on meanwhile; they take the gate of their group and   *)
(* are one step here (GroupMutations has them in full).                    *)
(*                                                                         *)
(* Connections are those of Connections, the gates those of Gates.  The    *)
(* source is read once: its gate keeps edits and deletions of the inbound  *)
(* away, and groups attached to it later are not looked for.  Any call may *)
(* fail, and a panel may execute one whose answer is lost.                 *)
(***************************************************************************)
EXTENDS Connections, Sequences, FiniteSetsExt

CONSTANTS
  Source, Target,  \* the servers of the copy
  Groups,          \* the groups attached to the source inbound, in order
  Panels, PanelOf, \* Revs -> Panels: the address and path of a row
  StoredInbounds,  \* Panels -> the inbounds a panel has at the start
  StoredRecords    \* Panels -> its client records

ASSUME ServersAssumption == {Source, Target} \subseteq Servers /\ Source # Target
ASSUME PanelOfAssumption == PanelOf \in [Revs -> Panels]
ASSUME GroupsAssumption  == Groups \in Seq({Groups[n] : n \in DOMAIN Groups})

VARIABLES
  inbounds, \* Panels -> set of inbounds
  records,  \* Panels -> set of client records
  minted,   \* number of client records ever made
  ours,     \* the records made by posts of the copy
  lost,     \* a post was executed but its answer was lost
  owned,    \* the gates that are taken
  copy,     \* the copy
  edit      \* an edit or a deletion of an inbound

panelVars == <<inbounds, records, minted, ours, lost>>
inboundVars == <<aggVars, panelVars, owned, copy, edit>>

Gate == INSTANCE Gates
          WITH GateKeys <- Servers \X (Nat \cup {Groups[n] : n \in DOMAIN Groups}),
               Operations <- {"copy", "edit", "peer"}

\* An inbound with its port and tag, and a client record with its UUID.
Inbound(i, port)    == [id |-> i, port |-> port]
Record(uuid, g, on) == [uuid |-> uuid, sub |-> g, on |-> on]

\* A panel tells its client records apart by their UUIDs.
ASSUME StoredAssumption ==
  /\ IsFiniteSet(Panels)
  /\ DOMAIN StoredInbounds = Panels /\ DOMAIN StoredRecords = Panels
  /\ \A p \in Panels :
       /\ IsFiniteSet(StoredRecords[p])
       /\ \A c \in StoredRecords[p] : c = Record(c.uuid, c.sub, c.on) /\ c.uuid \in Nat
       /\ \A c, d \in StoredRecords[p] : c.uuid = d.uuid => c = d

InboundInit ==
  /\ ConnInit
  /\ inbounds = StoredInbounds
  /\ records = StoredRecords
  /\ minted = Max({0} \cup {c.uuid : c \in UNION {StoredRecords[p] : p \in Panels}})
  /\ ours = {} /\ lost = FALSE
  /\ owned = {}
  /\ copy = [pc |-> "idle", src |-> None, tgt |-> None, baseline |-> {}, own |-> None,
             todo |-> Groups, inv |-> {}, post |-> None, made |-> <<>>, errs |-> {}, tries |-> 0]
  /\ edit = [pc |-> "idle", conn |-> None, id |-> 0, kind |-> "edit"]

-----------------------------------------------------------------------------
(* Connections and panels.                                                   *)

\* ensureMutationGeneration.
Fenced(c) == Current(c) /\ row[c.server] = c.rev

\* The row is read on the way, and a changed one observed.
Looks(s) == UNCHANGED aggVars \/ Lookup({s})

PanelAt(s) == PanelOf[row[s]]
On(p, i)   == {c \in records[p] : i \in c.on}
IdsOf(p)   == {x.id : x \in inbounds[p]}

\* The panel numbers a new inbound; the number of a deleted one may come back.
NewId(p) == 1 + Max({0} \cup IdsOf(p))

\* What the posts do.
AddInbound(p) ==
  /\ inbounds' = [inbounds EXCEPT ![p] = @ \cup {Inbound(NewId(p), "copy")}]
  /\ UNCHANGED <<records, minted, ours>>

DeleteInbound(p, i) ==
  /\ inbounds' = [inbounds EXCEPT ![p] = {x \in @ : x.id # i}]
  /\ records' = [records EXCEPT ![p] = {[c EXCEPT !.on = @ \ {i}] : c \in @}]
  /\ UNCHANGED <<minted, ours>>

AddClient(p, g, i) ==
  /\ records' = [records EXCEPT ![p] = @ \cup {Record(minted + 1, g, {i})}]
  /\ minted' = minted + 1
  /\ UNCHANGED inbounds

AttachClient(p, uuid, i) ==
  /\ records' = [records EXCEPT ![p] =
                   {IF c.uuid = uuid THEN [c EXCEPT !.on = @ \cup {i}] ELSE c : c \in @}]
  /\ UNCHANGED <<inbounds, minted, ours>>

DeleteClient(p, uuid) ==
  /\ records' = [records EXCEPT ![p] = {c \in @ : c.uuid # uuid}]
  /\ UNCHANGED <<inbounds, minted, ours>>

\* The panel was not reached.
NotSent == UNCHANGED panelVars

-----------------------------------------------------------------------------
(* CopyInbound up to the new inbound.                                       *)

At(l) == copy.pc = l
Go(l) == copy' = [copy EXCEPT !.pc = l]

\* The copy has failed; it goes on at l to undo, to refresh or to return.
Fail(e, l) == copy' = [copy EXCEPT !.pc = l, !.errs = @ \cup e]

Start ==
  /\ At("idle")
  /\ Gate!Acquire("copy", <<Source, 0>>)
  /\ Go("source")
  /\ UNCHANGED <<aggVars, panelVars, edit>>

OpenSource ==
  /\ At("source")
  /\ Connect(Source)
  /\ copy' = [copy EXCEPT !.pc = "target", !.src = Connected(Source)]
  /\ UNCHANGED <<panelVars, owned, edit>>

OpenTarget ==
  /\ At("target")
  /\ Connect(Target)
  /\ copy' = [copy EXCEPT !.pc = "read", !.tgt = Connected(Target)]
  /\ UNCHANGED <<panelVars, owned, edit>>

\* The source document and the details of its clients (freshCopyClients).
ReadSource ==
  /\ At("read")
  /\ Fenced(copy.src)
  /\ Go("gates")
  /\ UNCHANGED <<aggVars, panelVars, owned, edit>>

\* acquireCopyGroupGates: one after the other, in the order of the groups.
HeldGroups == {n \in DOMAIN Groups : <<"copy", <<Target, Groups[n]>>>> \in owned}

TakeGroupGate ==
  /\ At("gates")
  /\ \/ /\ HeldGroups # DOMAIN Groups
        /\ Gate!Acquire("copy", <<Target, Groups[1 + Cardinality(HeldGroups)]>>)
        /\ UNCHANGED copy
     \/ HeldGroups = DOMAIN Groups /\ Go("baseline") /\ UNCHANGED owned
  /\ UNCHANGED <<aggVars, panelVars, edit>>

ReadBaseline ==
  /\ At("baseline")
  /\ Fenced(copy.tgt)
  /\ copy' = [copy EXCEPT !.pc = "add", !.baseline = IdsOf(PanelOf[copy.tgt.rev])]
  /\ UNCHANGED <<aggVars, panelVars, owned, edit>>

\* Until the inbound is added, a failure ends the copy at once.
GiveUp ==
  /\ copy.pc \in {"source", "target", "read", "gates", "baseline", "add"}
  /\ Looks(Source) \/ Looks(Target)
  /\ Fail({"failed"}, "release")
  /\ UNCHANGED <<panelVars, owned, edit>>

\* addInboundOnce, after a look at the source.
SendInbound ==
  /\ At("add")
  /\ Fenced(copy.src) /\ Fenced(copy.tgt)
  /\ Go("adding")
  /\ UNCHANGED <<aggVars, panelVars, owned, edit>>

\* An answer without a number, or with one the panel had before, proves nothing.
InboundAdded ==
  LET p == PanelOf[copy.tgt.rev] IN
  /\ At("adding")
  /\ AddInbound(p)
  /\ \E i \in {0} \cup IdsOf(p) \cup {NewId(p)} :
       IF i = 0 \/ i \in copy.baseline
         THEN Fail({"unowned"}, "refresh")
         ELSE copy' = [copy EXCEPT !.pc = "added", !.own = [panel |-> p, id |-> i]]
  /\ UNCHANGED <<aggVars, lost, owned, edit>>

\* The call failed, whether or not the panel has executed it.
InboundNotConfirmed ==
  /\ At("adding")
  /\ NotSent \/ (AddInbound(PanelOf[copy.tgt.rev]) /\ lost' = TRUE)
  /\ Fail({"failed"}, "refresh")
  /\ UNCHANGED <<aggVars, owned, edit>>

\* The request may have been cancelled, or its connection replaced, by then.
CheckInbound ==
  /\ At("added")
  /\ \/ Fenced(copy.tgt) /\ Go("prove") /\ UNCHANGED aggVars
     \/ Looks(Target) /\ Fail({"failed"}, "prove")
  /\ UNCHANGED <<panelVars, owned, edit>>

-----------------------------------------------------------------------------
(* Whose inbound it is.                                                      *)

\* sameResourceMutationClient: the row, as it is now, leads to the same panel.
SamePanel_AnyRow == row[Target] # None
SamePanel == row[Target] # None /\ PanelAt(Target) = copy.own.panel

\* matchesCreatedInbound.
Matches(p, i) == Inbound(i, "copy") \in inbounds[p]

\* verifyConfirmedInboundOwnership.
ProveOwnership ==
  /\ At("prove")
  /\ SamePanel
  /\ Connect(Target)
  /\ LET p == PanelAt(Target) IN
     IF Matches(p, copy.own.id) /\ On(p, copy.own.id) = {}
       THEN copy' = [copy EXCEPT !.pc = IF copy.errs = {} THEN "group" ELSE "undo",
                                 !.tgt = Connected(Target)]
       ELSE Fail({"unowned"}, "refresh")
  /\ UNCHANGED <<panelVars, owned, edit>>

\* A first attempt that met an edit of the row is repeated; else the copy ends,
\* and what was added stays.
ProofFails ==
  /\ At("prove")
  /\ Looks(Target)
  /\ \/ /\ copy.tries = 0 /\ row[Target] # copy.tgt.rev
        /\ copy' = [copy EXCEPT !.tries = 1, !.errs = @ \cup {"failed"}]
     \/ Fail({"unowned"}, "refresh")
  /\ UNCHANGED <<panelVars, owned, edit>>

-----------------------------------------------------------------------------
(* The groups (copyGroupToInbound).                                          *)

Group == Head(copy.todo)
Exact == {c \in copy.inv : c.sub = Group}

NextGroup ==
  /\ At("group")
  /\ IF copy.todo = <<>> THEN Go("refresh") ELSE Go("list")
  /\ UNCHANGED <<aggVars, panelVars, owned, edit>>

ListGroup ==
  /\ At("list")
  /\ Fenced(copy.src) /\ Fenced(copy.tgt)
  /\ copy' = [copy EXCEPT !.pc = "decide", !.inv = records[PanelOf[copy.tgt.rev]]]
  /\ UNCHANGED <<aggVars, panelVars, owned, edit>>

\* Attached already, or to be attached, or to be created.
Already_Any == Exact # {}
Already == \E c \in Exact : copy.own.id \in c.on

DecideGroup ==
  /\ At("decide")
  /\ Fenced(copy.src) /\ Fenced(copy.tgt)
  /\ copy' = [copy EXCEPT
       !.pc = IF Already THEN "grouped" ELSE "posting",
       !.inv = {},
       !.post = IF Already \/ Exact = {} THEN None ELSE Min({c.uuid : c \in Exact})]
  /\ UNCHANGED <<aggVars, panelVars, owned, edit>>

GroupPost(p) ==
  \/ copy.post = None /\ AddClient(p, Group, copy.own.id) /\ ours' = ours \cup {minted'}
  \/ copy.post # None /\ AttachClient(p, copy.post, copy.own.id)

\* Only a confirmed creation is remembered, even if the connection is stale now.
Remembered_IfCurrent ==
  IF copy.post = None /\ Fenced(copy.tgt) THEN Append(copy.made, minted + 1) ELSE copy.made
Remembered == IF copy.post = None THEN Append(copy.made, minted + 1) ELSE copy.made

GroupPosted ==
  LET p == PanelOf[copy.tgt.rev] IN
  /\ At("posting")
  /\ copy.own.id \in IdsOf(p)
  /\ GroupPost(p)
  /\ copy' = [copy EXCEPT !.pc = "posted", !.post = None, !.made = Remembered]
  /\ UNCHANGED <<aggVars, lost, owned, edit>>

GroupPostFails ==
  LET p == PanelOf[copy.tgt.rev] IN
  /\ At("posting")
  /\ NotSent \/ (copy.own.id \in IdsOf(p) /\ GroupPost(p) /\ lost' = TRUE)
  /\ copy' = [copy EXCEPT !.pc = "undo", !.post = None, !.errs = @ \cup {"failed"}]
  /\ UNCHANGED <<aggVars, owned, edit>>

\* The checks after the post, of the target and of the source.
CheckGroup ==
  /\ \/ At("posted") /\ Fenced(copy.tgt) /\ Go("grouped")
     \/ At("grouped") /\ Fenced(copy.src)
        /\ copy' = [copy EXCEPT !.pc = "group", !.todo = Tail(@)]
  /\ UNCHANGED <<aggVars, panelVars, owned, edit>>

GroupFails ==
  /\ copy.pc \in {"list", "decide", "posting", "posted", "grouped"}
  /\ copy.pc = "posting" => ~Fenced(copy.tgt)
  /\ Looks(Source) \/ Looks(Target)
  /\ copy' = [copy EXCEPT !.pc = "undo", !.inv = {}, !.post = None, !.errs = @ \cup {"failed"}]
  /\ UNCHANGED <<panelVars, owned, edit>>

-----------------------------------------------------------------------------
(* compensateInboundCopy.                                                    *)

LastMade == copy.made[Len(copy.made)]
Unmade   == SubSeq(copy.made, 1, Len(copy.made) - 1)

\* The record is still the one made, and on the new inbound alone.
Removable(c) == c.uuid = LastMade /\ c.on = {copy.own.id}

UndoLook ==
  /\ At("undo") /\ copy.made # <<>>
  /\ SamePanel
  /\ Connect(Target)
  /\ \E c \in records[PanelAt(Target)] : Removable(c)
  /\ copy' = [copy EXCEPT !.pc = "undoing", !.tgt = Connected(Target)]
  /\ UNCHANGED <<panelVars, owned, edit>>

UndoClient ==
  /\ At("undoing")
  /\ Fenced(copy.tgt)
  /\ DeleteClient(PanelOf[copy.tgt.rev], LastMade)
  /\ \/ copy' = [copy EXCEPT !.pc = "undo", !.made = Unmade] /\ UNCHANGED lost
     \/ copy' = [copy EXCEPT !.pc = "undo", !.made = Unmade, !.errs = @ \cup {"cleanup"}]
        /\ lost' = TRUE
  /\ UNCHANGED <<aggVars, owned, edit>>

\* A record that cannot be removed does not keep the others from it.
UndoClientFails ==
  /\ (At("undo") /\ copy.made # <<>>) \/ At("undoing")
  /\ Looks(Target)
  /\ copy' = [copy EXCEPT !.pc = "undo", !.made = Unmade, !.errs = @ \cup {"cleanup"}]
  /\ UNCHANGED <<panelVars, owned, edit>>

UndoFind ==
  /\ At("undo") /\ copy.made = <<>>
  /\ SamePanel
  /\ Connect(Target)
  /\ Matches(PanelAt(Target), copy.own.id)
  /\ copy' = [copy EXCEPT !.pc = "removing", !.tgt = Connected(Target)]
  /\ UNCHANGED <<panelVars, owned, edit>>

UndoInbound ==
  /\ At("removing")
  /\ Fenced(copy.tgt)
  /\ DeleteInbound(PanelOf[copy.tgt.rev], copy.own.id)
  /\ \/ Go("refresh") /\ UNCHANGED lost
     \/ Fail({"cleanup"}, "refresh") /\ lost' = TRUE
  /\ UNCHANGED <<aggVars, owned, edit>>

UndoInboundFails ==
  /\ (At("undo") /\ copy.made = <<>>) \/ At("removing")
  /\ Looks(Target)
  /\ Fail({"cleanup"}, "refresh")
  /\ UNCHANGED <<panelVars, owned, edit>>

\* refreshAfterInboundMutation looks at every row.
RefreshAfter ==
  /\ At("refresh")
  /\ UNCHANGED aggVars \/ Lookup(Servers)
  /\ Go("release")
  /\ UNCHANGED <<panelVars, owned, edit>>

\* The gates go back when the copy returns, and not before.
MayRelease_OnFailure == At("release") \/ (At("undo") /\ owned # {})
MayRelease == At("release")

Release ==
  /\ MayRelease
  /\ owned' = {x \in owned : x[1] # "copy"}
  /\ IF At("release") THEN Go("done") ELSE UNCHANGED copy
  /\ UNCHANGED <<aggVars, panelVars, edit>>

-----------------------------------------------------------------------------
(* EditInbound and DeleteInbound, and the group mutations of others.         *)

EditStart ==
  /\ edit.pc = "idle"
  /\ \E k \in {"edit", "delete"}, i \in UNION {IdsOf(p) : p \in Panels} :
       /\ Gate!Acquire("edit", <<Target, i>>)
       /\ edit' = [edit EXCEPT !.pc = "open", !.id = i, !.kind = k]
  /\ UNCHANGED <<aggVars, panelVars, copy>>

\* The connection is opened and the document read.
EditRead ==
  /\ edit.pc = "open"
  /\ Connect(Target)
  /\ edit.id \in IdsOf(PanelAt(Target))
  /\ edit' = [edit EXCEPT !.pc = "post", !.conn = Connected(Target)]
  /\ UNCHANGED <<panelVars, owned, copy>>

EditPost ==
  LET p == PanelOf[edit.conn.rev] IN
  /\ edit.pc = "post"
  /\ Fenced(edit.conn)
  /\ IF edit.kind = "delete" THEN DeleteInbound(p, edit.id)
     ELSE /\ inbounds' = [inbounds EXCEPT ![p] =
                            {IF x.id = edit.id THEN Inbound(x.id, "edited") ELSE x : x \in @}]
          /\ UNCHANGED <<records, minted, ours>>
  /\ edit' = [edit EXCEPT !.pc = "refresh"]
  /\ UNCHANGED <<aggVars, lost, owned, copy>>

EditEnds ==
  /\ edit.pc \in {"open", "post", "refresh"}
  /\ Looks(Target)
  /\ owned' = owned \ {<<"edit", <<Target, edit.id>>>>}
  /\ edit' = [edit EXCEPT !.pc = "done", !.conn = None]
  /\ UNCHANGED <<panelVars, copy>>

\* AttachGroup and DetachGroup of another request, which need the gate.
PeerMutates ==
  LET p == PanelAt(Target) IN
  /\ Connectable(Target)
  /\ \E g \in {Groups[n] : n \in DOMAIN Groups}, i \in IdsOf(p) :
       LET C == {c \in records[p] : c.sub = g} IN
       /\ \A o \in {"copy", "edit"} : <<o, <<Target, g>>>> \notin owned
       /\ \/ C = {} /\ AddClient(p, g, i) /\ UNCHANGED ours
          \/ /\ C # {} /\ \A c \in C : i \notin c.on
             /\ AttachClient(p, Min({c.uuid : c \in C}), i)
          \/ /\ \E c \in C : i \in c.on
             /\ records' = [records EXCEPT ![p] =
                  {IF c \in C THEN [c EXCEPT !.on = @ \ {i}] ELSE c : c \in @}]
             /\ UNCHANGED <<inbounds, minted, ours>>
  /\ UNCHANGED <<aggVars, lost, owned, copy, edit>>

\* Rows are written, and looked up by others.
Elsewhere ==
  /\ \E s \in Servers : Write(s) \/ Lookup({s})
  /\ UNCHANGED <<panelVars, owned, copy, edit>>

CopyNext ==
  \/ Start \/ OpenSource \/ OpenTarget \/ ReadSource \/ TakeGroupGate \/ ReadBaseline
  \/ GiveUp \/ SendInbound \/ InboundAdded \/ InboundNotConfirmed \/ CheckInbound
  \/ ProveOwnership \/ ProofFails
  \/ NextGroup \/ ListGroup \/ DecideGroup \/ GroupPosted \/ GroupPostFails
  \/ CheckGroup \/ GroupFails
  \/ UndoLook \/ UndoClient \/ UndoClientFails \/ UndoFind \/ UndoInbound
  \/ UndoInboundFails \/ RefreshAfter \/ Release

InboundNext ==
  \/ CopyNext \/ EditStart \/ EditRead \/ EditPost \/ EditEnds \/ PeerMutates \/ Elsewhere

InboundSpec == InboundInit /\ [][InboundNext]_inboundVars

-----------------------------------------------------------------------------
(* Properties.                                                              *)

\* A copy removes an inbound only from the panel it was copied to, and only one
\* that the panel did not have before: although the row of the target may have been
\* edited to lead to another panel, with an inbound of the same number, port and tag.
RemovesOnlyItsInbound ==
  [][copy' # copy =>
       \A p \in Panels : \A x \in inbounds[p] :
         x.id \notin {y.id : y \in inbounds'[p]} =>
           p = copy.own.panel /\ x.id = copy.own.id /\ x.id \notin copy.baseline]_inboundVars

\* It removes a client record only if it made it, and if nobody has attached it to
\* another inbound since: the gates of the groups are held while it undoes.
RemovesOnlyItsRecords ==
  [][\A p \in Panels : \A c \in records[p] :
       c.uuid \notin {d.uuid : d \in records'[p]} =>
         c.uuid \in ours /\ c.on \subseteq {copy.own.id}]_inboundVars

\* A copy that succeeds has attached every group of the source to the new inbound,
\* unless somebody has deleted the inbound meanwhile.
CopyIsComplete ==
  At("release") /\ copy.errs = {} /\ copy.own.id \in IdsOf(copy.own.panel) =>
    \A n \in DOMAIN Groups : \E c \in On(copy.own.panel, copy.own.id) : c.sub = Groups[n]

\* A copy that fails leaves nothing behind that it does not report, unless the panel
\* executed a call without saying so: neither the inbound nor a record it made.
NothingLeftSilently ==
  /\ At("release") /\ copy.errs = {"failed"} /\ ~lost /\ copy.own # None
  => /\ copy.own.id \notin IdsOf(copy.own.panel)
     /\ \A c \in records[copy.own.panel] : c.uuid \notin ours

=============================================================================
