----------------------------- MODULE PanelClient -----------------------------
(***************************************************************************)
(* internal/xui: one call of the panel's API.                              *)
(*                                                                         *)
(* doAPI() sends a request, once if it is a POST and at most twice if it   *)
(* is a GET; a request, or its answer, may be lost, and a panel may still  *)
(* handle a request that nobody waits for any more.  ListClients() reads   *)
(* the panel's clients page by page while others add and remove clients.   *)
(*                                                                         *)
(* A call is an action sequence: the panel handles the request, the answer *)
(* is taken, or a fault ends or repeats the attempt.  Calls share nothing, *)
(* so a behaviour has one.                                                 *)
(***************************************************************************)
EXTENDS Integers, FiniteSets, SequencesExt

CONSTANTS
  MaxClients,  \* bound of the model: the clients there are, 1..MaxClients
  PageSize,    \* clientPageSize
  MaxPages,    \* maxClientPages
  Habits,      \* how the panel pages: a subset of AllHabits
  NoReply,     \* no answer is on its way
  MaxTurns     \* bound of the model: changes made by others during the call

ASSUME PageAssumption == PageSize \in Nat \ {0} /\ MaxPages \in Nat \ {0}
ASSUME ChangesAssumption == MaxClients \in Nat /\ MaxTurns \in Nat

\* The panel honours page and pageSize, or answers every page with the whole
\* list, or honours them and overstates how many clients there are.
AllHabits == {"pages", "whole", "overstates"}
ASSUME HabitsAssumption == Habits \subseteq AllHabits

MaxRecords == PageSize * MaxPages     \* maxClientRecords

VARIABLES
  list,      \* the panel: its clients, in the order it pages them
  habit,     \* the panel: how it pages
  posted,    \* the panel: how often it handled the POST
  stray,     \* POSTs on their way that nobody waits for
  op,        \* "list" (ListClients), "get" (any other reading), "post" (a change)
  phase,     \* "sent", "answered", "ok", "failed"
  attempt,   \* doAPI: attempts already spent on this request
  reply,     \* the panel's answer: [items, filtered]
  page,      \* ListClients: pageNumber
  clients,   \* ListClients: the clients read so far
  atStart,   \* history: the clients of the panel when the call began
  added,     \* history: clients added by others
  removed,   \* history: clients removed by others
  seenAdded, \* history: added, when the last page taken was read
  crowded,   \* history: a page or more was added between two pages, or one that was read
  troubles,  \* history: temporary faults of this request
  broken     \* history: a permanent fault, or two temporary ones in a request

panelSide == <<list, habit, posted, stray>>
callSide  == <<op, phase, attempt, reply, page, clients>>
history   == <<atStart, added, removed, seenAdded, crowded, troubles, broken>>
panelVars == <<panelSide, callSide, history>>

Operations == {"list", "get", "post"}
Waiting == {"sent", "answered"}
Emails  == 1..MaxClients

PanelInit ==
  /\ list \in {[i \in 1..n |-> i] : n \in 0..MaxClients}
  /\ habit \in Habits
  /\ op \in Operations
  /\ posted = 0 /\ stray = 0
  /\ phase = "sent" /\ attempt = 0 /\ reply = NoReply
  /\ page = 1 /\ clients = <<>>
  /\ atStart = ToSet(list)
  /\ added = 0 /\ removed = 0 /\ seenAdded = 0 /\ crowded = FALSE
  /\ troubles = 0 /\ broken = FALSE

-----------------------------------------------------------------------------
(* The panel, and others who change it.                                     *)

Changing == op = "list" /\ phase \in Waiting /\ added + removed < MaxTurns

\* What the panel has told of its clients.
Told == ToSet(clients) \cup IF phase = "answered" THEN ToSet(reply.items) ELSE {}

OthersAdd(e, i) ==
  /\ Changing
  /\ e \notin ToSet(list) \cup atStart
  /\ list' = InsertAt(list, i, e)
  /\ added' = added + 1
  /\ crowded' = (crowded \/ e \in Told)
  /\ UNCHANGED <<habit, posted, stray, callSide, atStart, removed, seenAdded, troubles, broken>>

OthersRemove(i) ==
  /\ Changing
  /\ list' = RemoveAt(list, i)
  /\ removed' = removed + 1
  /\ UNCHANGED <<habit, posted, stray, callSide, atStart, added, seenAdded, crowded, troubles, broken>>

\* What the panel answers for a page, and how many changes that answer has seen.
PageOf(p) ==
  LET upTo(n) == IF n > Len(list) THEN Len(list) ELSE n
  IN  [items    |-> IF habit = "whole" THEN list
                    ELSE SubSeq(list, (p - 1) * PageSize + 1, upTo(p * PageSize)),
       filtered |-> IF habit = "pages" THEN Len(list) ELSE Len(list) + 1,
       added    |-> added]

PanelHandles ==
  /\ phase = "sent"
  /\ phase' = "answered"
  /\ reply' = PageOf(page)
  /\ posted' = IF op = "post" THEN posted + 1 ELSE posted
  /\ UNCHANGED <<list, habit, stray, op, attempt, page, clients, history>>

PanelHandlesStray ==
  /\ stray > 0
  /\ stray' = stray - 1
  /\ posted' = posted + 1
  /\ UNCHANGED <<list, habit, callSide, history>>

-----------------------------------------------------------------------------
(* doAPI(): one request.                                                    *)

Attempts_Two == 2
Attempts == IF op = "post" THEN 1 ELSE 2

\* A POST that was not answered may be on its way still, or be lost.
Abandons == stray' \in IF op = "post" /\ phase = "sent" THEN {stray, stray + 1} ELSE {stray}

\* retryableNetworkError: a timeout or a reset, of the request or of its answer.
TemporaryFault ==
  /\ phase \in Waiting
  /\ Abandons
  /\ reply' = NoReply
  /\ IF attempt + 1 < Attempts
       THEN phase' = "sent" /\ attempt' = attempt + 1
       ELSE phase' = "failed" /\ UNCHANGED attempt
  /\ troubles' = troubles + 1
  /\ broken' = (broken \/ troubles >= 1)
  /\ UNCHANGED <<list, habit, posted, op, page, clients, atStart, added, removed, seenAdded, crowded>>

\* Any other error, a status other than 200, an answer that is too large, does
\* not decode or says success=false, and a caller that cancels.
PermanentFault ==
  /\ phase \in Waiting
  /\ Abandons
  /\ phase' = "failed"
  /\ reply' = NoReply
  /\ broken' = TRUE
  /\ UNCHANGED <<list, habit, posted, op, attempt, page, clients, atStart, added, removed, seenAdded, crowded, troubles>>

Answered ==
  /\ op # "list" /\ phase = "answered"
  /\ phase' = "ok"
  /\ reply' = NoReply
  /\ UNCHANGED <<panelSide, op, attempt, page, clients, history>>

-----------------------------------------------------------------------------
(* ListClients(): what is done with a page.                                 *)

NothingNew_EmptyOnly == reply.items = <<>>
NothingNew_Any ==
  reply.items = <<>> \/ ToSet(reply.items) \cap ToSet(clients) # {}
NothingNew == ToSet(reply.items) \subseteq ToSet(clients)
Overflows_Early == Len(reply.items) >= MaxRecords - Len(clients)
Overflows  == Len(reply.items) > MaxRecords - Len(clients)
Joined     == clients \o reply.items
Complete   == Len(Joined) >= reply.filtered
LastPage   == page = MaxPages \/ Len(Joined) >= MaxRecords

Crowds == page > 1 /\ reply.added - seenAdded >= PageSize

PageRead == op = "list" /\ phase = "answered"

Ends(how, result) ==
  /\ phase' = how
  /\ clients' = result
  /\ reply' = NoReply
  /\ crowded' = (crowded \/ Crowds)
  /\ UNCHANGED <<panelSide, op, attempt, page, atStart, added, removed, seenAdded, troubles, broken>>

EmptyOrRepeated == PageRead /\ NothingNew /\ Ends("ok", clients)
AllRead         == PageRead /\ ~NothingNew /\ ~Overflows /\ Complete /\ Ends("ok", Joined)
LimitExceeded ==
  /\ PageRead /\ ~NothingNew
  /\ Overflows \/ (~Complete /\ LastPage)
  /\ Ends("failed", <<>>)

NextPage ==
  /\ PageRead /\ ~NothingNew /\ ~Overflows /\ ~Complete /\ ~LastPage
  /\ clients' = Joined
  /\ page' = page + 1
  /\ attempt' = 0
  /\ phase' = "sent"
  /\ reply' = NoReply
  /\ crowded' = (crowded \/ Crowds)
  /\ seenAdded' = reply.added
  /\ troubles' = 0
  /\ UNCHANGED <<panelSide, op, atStart, added, removed, broken>>

PanelNext ==
  \/ \E e \in Emails, i \in 1..(Len(list) + 1) : OthersAdd(e, i)
  \/ \E i \in 1..Len(list) : OthersRemove(i)
  \/ PanelHandles \/ PanelHandlesStray
  \/ TemporaryFault \/ PermanentFault
  \/ Answered
  \/ EmptyOrRepeated \/ AllRead \/ LimitExceeded \/ NextPage

PanelSpec == PanelInit /\ [][PanelNext]_panelVars

-----------------------------------------------------------------------------
(* Properties                                                               *)

Answers == [items : Seq(Emails), filtered : Nat, added : Nat]

PanelTypeOK ==
  /\ list \in Seq(Emails) /\ habit \in Habits
  /\ op \in Operations /\ phase \in Waiting \cup {"ok", "failed"}
  /\ attempt \in 0..1 /\ page \in 1..MaxPages
  /\ clients \in Seq(Emails) /\ Len(clients) <= MaxRecords
  /\ posted \in Nat /\ stray \in Nat
  /\ added \in Nat /\ removed \in Nat
  /\ IF phase = "answered" THEN reply \in Answers ELSE reply = NoReply

Unchanged == added = 0 /\ removed = 0
Fits      == Len(list) <= MaxRecords

\* A listing of a panel that nobody changes is the panel's list, whole and in
\* order, however the panel pages: never a part of it, and nothing twice.
QuietListIsExact ==
  op = "list" /\ phase = "ok" /\ Unchanged => clients = list

\* While others change the panel, a listing misses at most one client for each
\* client they remove, as long as less than a page is added between two pages and
\* no client is added again that was removed after it was read: a page of such
\* clients has nothing new, and ends the listing.
MissesOnlyByRemoval ==
  op = "list" /\ phase = "ok" /\ ~crowded =>
    Cardinality((atStart \cap ToSet(list)) \ ToSet(clients)) <= removed

\* The panel handles a POST at most once, although its answer, or the request,
\* may be lost; once for sure when the call succeeds.
PostedOnce ==
  /\ posted + stray <= 1
  /\ op = "post" /\ phase = "ok" => posted = 1

\* Reading from a panel that keeps its word fails only for a reason: an error that
\* is not temporary, two temporary ones in one request, or too many clients.
FailsForAReason ==
  /\ op = "get" /\ phase = "failed" => broken
  /\ op = "list" /\ phase = "failed" /\ Unchanged /\ habit = "pages" /\ Fits => broken

=============================================================================
