---------------------------- MODULE MutationGates ----------------------------
(***************************************************************************)
(* The gates that serialize panel mutations: acquireMutationGate (one      *)
(* subscription group of one server), acquireInboundMutationGate (one      *)
(* inbound of one server) and acquireCopyGroupGates (every group a copied  *)
(* inbound brings along).                                                  *)
(*                                                                         *)
(* A gate is a heap object: a channel of capacity one that holds a token   *)
(* while nobody owns the gate, and a reference count.  The map entry of a  *)
(* key is created on demand and deleted with the last reference, so one    *)
(* key may be served by different objects over time.                       *)
(*                                                                         *)
(* A key is a number; the two maps are disjoint key ranges and an inbound  *)
(* key is smaller than every group key, which gives the acquisition order  *)
(* of CopyInbound: the source inbound, then the groups sorted by subID.    *)
(***************************************************************************)
EXTENDS Integers, FiniteSets

CONSTANTS
  Ops,    \* goroutines that run mutations, one after another
  Keys,   \* gate keys
  Plans,  \* the sets of keys one mutation may need
  Heap,   \* identities of gate objects
  None    \* no gate

ASSUME KeysAssumption == Keys \subseteq Nat
ASSUME PlansAssumption == Plans \subseteq SUBSET Keys
ASSUME NoneAssumption == None \notin Heap

VARIABLES
  gate,    \* Keys -> the gate registered in the map, or None
  refs,    \* Heap -> reference count
  ready,   \* gates whose channel holds the token
  pc,      \* where each operation is
  plan,    \* keys an operation has still to acquire
  held,    \* <<key, gate>> pairs an operation owns
  cur      \* the <<key, gate>> an operation acquires or gives back

vars == <<gate, refs, ready, pc, plan, held, cur>>

PCs == {"idle", "next", "wait", "check", "critical", "unref", "unwind"}
Pairs == Keys \X Heap
NoPair == <<None, None>>

HeldKeys(o) == {p[1] : p \in held[o]}

Init ==
  /\ gate = [k \in Keys |-> None]
  /\ refs = [g \in Heap |-> 0]
  /\ ready = {}
  /\ pc = [o \in Ops |-> "idle"]
  /\ plan = [o \in Ops |-> {}]
  /\ held = [o \in Ops |-> {}]
  /\ cur = [o \in Ops |-> NoPair]

Goto(o, l) == pc' = [pc EXCEPT ![o] = l]

-----------------------------------------------------------------------------
(* Acquiring.                                                               *)

Start(o) ==
  /\ pc[o] = "idle"
  /\ \E P \in Plans : plan' = [plan EXCEPT ![o] = P]
  /\ Goto(o, "next")
  /\ UNCHANGED <<gate, refs, ready, held, cur>>

\* acquireCopyGroupGates sorts the keys before it takes the first one.
NextKeys_Unsorted(o) == plan[o]
NextKeys(o) == {k \in plan[o] : \A j \in plan[o] : k <= j}

\* A gate object nobody can reach.
IsFree(g) == refs[g] = 0 /\ \A k \in Keys : gate[k] # g

AddRef(k, g) == [refs EXCEPT ![g] = @ + 1]

\* The registered gate of k, or a new one with its token in the channel.
Lookup(o) ==
  /\ pc[o] = "next"
  /\ plan[o] # {}
  /\ \E k \in NextKeys(o), g \in Heap :
       /\ IF gate[k] # None THEN g = gate[k] ELSE IsFree(g)
       /\ gate' = [gate EXCEPT ![k] = g]
       /\ ready' = IF gate[k] # None THEN ready ELSE ready \cup {g}
       /\ refs' = AddRef(k, g)
       /\ cur' = [cur EXCEPT ![o] = <<k, g>>]
  /\ Goto(o, "wait")
  /\ UNCHANGED <<plan, held>>

Take(o) ==
  /\ pc[o] = "wait"
  /\ cur[o][2] \in ready
  /\ ready' = ready \ {cur[o][2]}
  /\ Goto(o, "check")
  /\ UNCHANGED <<gate, refs, plan, held, cur>>

\* The context is still alive after the token was received.
Confirm(o) ==
  /\ pc[o] = "check"
  /\ held' = [held EXCEPT ![o] = @ \cup {cur[o]}]
  /\ plan' = [plan EXCEPT ![o] = @ \ {cur[o][1]}]
  /\ Goto(o, "next")
  /\ UNCHANGED <<gate, refs, ready, cur>>

Enter(o) ==
  /\ pc[o] = "next"
  /\ plan[o] = {}
  /\ Goto(o, "critical")
  /\ UNCHANGED <<gate, refs, ready, plan, held, cur>>

-----------------------------------------------------------------------------
(* Giving up: the context ended while waiting, or just as the token came.   *)

CancelWait(o) ==
  /\ pc[o] = "wait"
  /\ Goto(o, "unref")
  /\ UNCHANGED <<gate, refs, ready, plan, held, cur>>

ReturnToken(o) == ready \cup {cur[o][2]}

CancelTaken(o) ==
  /\ pc[o] = "check"
  /\ ready' = ReturnToken(o)
  /\ Goto(o, "unref")
  /\ UNCHANGED <<gate, refs, plan, held, cur>>

-----------------------------------------------------------------------------
(* Giving back: the deferred releases run in reverse order, the token first *)
(* and the reference (dropMutationGateRef) under the map's mutex after it.  *)

Leave(o) ==
  /\ pc[o] = "critical"
  /\ Goto(o, "unwind")
  /\ UNCHANGED <<gate, refs, ready, plan, held, cur>>

GiveBack(o) ==
  /\ pc[o] = "unwind"
  /\ held[o] # {}
  /\ \E p \in held[o] :
       /\ \A q \in held[o] : q[1] <= p[1]
       /\ ready' = ready \cup {p[2]}
       /\ held' = [held EXCEPT ![o] = @ \ {p}]
       /\ cur' = [cur EXCEPT ![o] = p]
  /\ Goto(o, "unref")
  /\ UNCHANGED <<gate, refs, plan>>

LastReference_Never(g) == FALSE
LastReference_Always(g) == TRUE
LastReference(g) == refs[g] = 1

DropRef(o) ==
  /\ pc[o] = "unref"
  /\ LET k == cur[o][1]
         g == cur[o][2]
     IN  /\ refs' = [refs EXCEPT ![g] = @ - 1]
         /\ gate' = IF LastReference(g) /\ gate[k] = g
                      THEN [gate EXCEPT ![k] = None] ELSE gate
  /\ cur' = [cur EXCEPT ![o] = NoPair]
  /\ Goto(o, "unwind")
  /\ UNCHANGED <<ready, plan, held>>

End(o) ==
  /\ pc[o] = "unwind"
  /\ held[o] = {}
  /\ plan' = [plan EXCEPT ![o] = {}]
  /\ Goto(o, "idle")
  /\ UNCHANGED <<gate, refs, ready, held, cur>>

-----------------------------------------------------------------------------
Step(o) ==
  \/ Start(o) \/ Lookup(o) \/ Take(o) \/ Confirm(o) \/ Enter(o)
  \/ CancelWait(o) \/ CancelTaken(o)
  \/ Leave(o) \/ GiveBack(o) \/ DropRef(o) \/ End(o)

Next == \E o \in Ops : Step(o)

Spec == Init /\ [][Next]_vars

(* A goroutine that can run runs; a mutation leaves its critical section     *)
(* because every panel call in it has a deadline; a channel serves its       *)
(* receivers in order, so none of them starves.  No mutation has to start    *)
(* and no context has to end.                                                *)
Fairness ==
  \A o \in Ops :
    /\ WF_vars(Lookup(o))
    /\ SF_vars(Take(o))
    /\ WF_vars(Confirm(o) \/ CancelTaken(o))
    /\ WF_vars(Enter(o))
    /\ WF_vars(Leave(o))
    /\ WF_vars(GiveBack(o))
    /\ WF_vars(DropRef(o))
    /\ WF_vars(End(o))

FairSpec == Spec /\ Fairness

-----------------------------------------------------------------------------
(* Properties.                                                              *)

TypeOK ==
  /\ gate \in [Keys -> Heap \cup {None}]
  /\ refs \in [Heap -> Nat]
  /\ ready \subseteq Heap
  /\ pc \in [Ops -> PCs]
  /\ plan \in [Ops -> SUBSET Keys]
  /\ held \in [Ops -> SUBSET Pairs]
  /\ cur \in [Ops -> Pairs \cup {NoPair}]

\* Two mutations never run on the same inbound or group of a server at once,
\* although the gate object of a key is deleted and recreated under them
\* (acquireMutationGate, dropMutationGateRef).
MutualExclusion ==
  \A o, p \in Ops : o # p => HeldKeys(o) \cap HeldKeys(p) = {}

\* The gate pairs an operation refers to.
Uses(o) == held[o] \cup (IF pc[o] \in {"wait", "check", "unref"} THEN {cur[o]} ELSE {})
UsersOf(g) == {o \in Ops : \E p \in Uses(o) : p[2] = g}

\* The gate somebody waits for, owns or is about to unreference is the one in
\* the map: nobody queues behind a gate that a later caller cannot find.
LiveGateRegistered == \A o \in Ops : \A p \in Uses(o) : gate[p[1]] = p[2]

\* A reference count is the number of operations that refer to the gate, so a
\* key nobody uses leaves nothing behind in the map.
RefsAreUsers ==
  /\ \A g \in Heap : refs[g] = Cardinality(UsersOf(g))
  /\ \A k \in Keys : gate[k] # None => refs[gate[k]] > 0

\* Every mutation that starts comes to its end: gates acquired in sorted order
\* cannot form a cycle, and a cancelled waiter passes the token on.
EveryMutationEnds == \A o \in Ops : pc[o] # "idle" ~> pc[o] = "idle"

\* The gates implement one lock per key.
Ownership == {x \in Ops \X Keys : x[2] \in HeldKeys(x[1])}

Lock == INSTANCE Gates WITH GateKeys <- Keys, Operations <- Ops, owned <- Ownership

ImplementsGates == Lock!Spec

=============================================================================
