------------------------- MODULE MutationGatesProofs -------------------------
(***************************************************************************)
(* Theorems about MutationGates for any number of operations, keys, plans  *)
(* and gate objects.                                                       *)
(*                                                                         *)
(* Mutual exclusion is not inductive: it needs that a gate's token is in   *)
(* the channel or with exactly one operation (OneToken), that every gate   *)
(* in use is the registered one (LiveGateRegistered), that a gate serves   *)
(* one key (OneKeyPerGate), and, because the last reference unregisters    *)
(* the gate, that reference counts are exact (RefsExact).                  *)
(***************************************************************************)
EXTENDS MutationGates, FiniteSetTheorems, TLAPS

\* An operation does not acquire what it owns.
Fresh ==
  \A o \in Ops :
    /\ plan[o] \cap HeldKeys(o) = {}
    /\ pc[o] = "idle" => held[o] = {}
    /\ pc[o] \in {"wait", "check", "unref"} => cur[o] \in Pairs /\ cur[o][1] \notin HeldKeys(o)

OneKeyPerGate == \A j, k \in Keys : gate[j] = gate[k] /\ gate[j] # None => j = k

RefsExact ==
  /\ \A g \in Heap : IsFiniteSet(UsersOf(g)) /\ refs[g] = Cardinality(UsersOf(g))
  /\ \A k \in Keys : gate[k] # None => refs[gate[k]] > 0

\* The pairs whose token an operation has.
Owned(o) == held[o] \cup (IF pc[o] = "check" THEN {cur[o]} ELSE {})

OneToken ==
  /\ \A o \in Ops : \A p \in Owned(o) : p[2] \notin ready
  /\ \A o, x \in Ops : \A p \in Owned(o), q \in Owned(x) : p[2] = q[2] => o = x

GatesInv == TypeOK /\ Fresh /\ OneKeyPerGate /\ LiveGateRegistered /\ RefsExact /\ OneToken

USE DEF HeldKeys, Pairs, Goto

-----------------------------------------------------------------------------
LEMMA InitInv == Init => GatesInv
<1> SUFFICES ASSUME Init PROVE GatesInv
  OBVIOUS
<1>1. \A g \in Heap : UsersOf(g) = {}
  BY DEF Init, UsersOf, Uses
<1>2. TypeOK
  BY DEF Init, TypeOK, PCs
<1>3. Fresh /\ OneKeyPerGate /\ LiveGateRegistered /\ OneToken
  BY DEF Init, Fresh, OneKeyPerGate, LiveGateRegistered, OneToken, Owned, Uses
<1>4. RefsExact
  BY <1>1, FS_EmptySet DEF Init, RefsExact
<1> QED
  BY <1>2, <1>3, <1>4 DEF GatesInv

\* What an operation uses consists of pairs of a key and a gate.
LEMMA UsesPairs ==
  ASSUME GatesInv, NEW o \in Ops, NEW p \in Uses(o)
  PROVE  p \in Pairs
BY DEF GatesInv, TypeOK, Fresh, Uses

\* Only a look-up and a dropped reference change what is used, or the counts.
Quiet(o) ==
  Start(o) \/ Take(o) \/ Confirm(o) \/ Enter(o) \/ CancelWait(o) \/ CancelTaken(o)
  \/ Leave(o) \/ GiveBack(o) \/ End(o)

LEMMA QuietUses ==
  ASSUME GatesInv, NEW o \in Ops, Quiet(o)
  PROVE  UNCHANGED <<gate, refs>> /\ \A x \in Ops : Uses(x)' = Uses(x)
<1> USE DEF GatesInv, TypeOK, Fresh, Uses
<1>1. CASE Start(o) \/ Take(o) \/ Enter(o) \/ CancelWait(o) \/ CancelTaken(o) \/ Leave(o) \/ End(o)
  BY <1>1 DEF Start, Take, Enter, CancelWait, CancelTaken, Leave, End
<1>2. CASE Confirm(o)
  BY <1>2 DEF Confirm
<1>3. CASE GiveBack(o)
  BY <1>3 DEF GiveBack
<1> QED
  BY <1>1, <1>2, <1>3 DEF Quiet

-----------------------------------------------------------------------------
LEMMA TypeStep ==
  ASSUME GatesInv, NEW o \in Ops, Step(o)
  PROVE  TypeOK'
<1> USE NoneAssumption, PlansAssumption DEF GatesInv, TypeOK, PCs
<1>1. CASE Start(o)
  BY <1>1 DEF Start
<1>2. CASE Lookup(o)
  BY <1>2 DEF Lookup, NextKeys, AddRef
<1>3. CASE Take(o) \/ Enter(o) \/ CancelWait(o) \/ Leave(o) \/ End(o)
  BY <1>3 DEF Take, Enter, CancelWait, Leave, End
<1>4. CASE Confirm(o)
  BY <1>4 DEF Confirm, Fresh
<1>5. CASE CancelTaken(o)
  BY <1>5 DEF CancelTaken, ReturnToken, Fresh
<1>6. CASE GiveBack(o)
  BY <1>6 DEF GiveBack
<1>7. CASE DropRef(o)
  <2>1. cur[o][1] \in Keys /\ cur[o][2] \in Heap
    BY <1>7 DEF DropRef, Fresh
  <2>2. o \in UsersOf(cur[o][2])
    BY <1>7 DEF DropRef, UsersOf, Uses
  <2>3. refs[cur[o][2]] > 0
    BY <2>1, <2>2, FS_EmptySet DEF RefsExact
  <2> QED
    BY <1>7, <2>1, <2>3 DEF DropRef
<1> QED
  BY <1>1, <1>2, <1>3, <1>4, <1>5, <1>6, <1>7 DEF Step

LEMMA FreshStep ==
  ASSUME GatesInv, NEW o \in Ops, Step(o)
  PROVE  Fresh'
<1> USE DEF GatesInv, TypeOK, Fresh
<1>1. CASE Start(o) \/ Take(o) \/ Enter(o) \/ CancelWait(o) \/ Leave(o) \/ End(o)
  BY <1>1 DEF Start, Take, Enter, CancelWait, Leave, End
<1>2. CASE Lookup(o)
  BY <1>2 DEF Lookup, NextKeys
<1>3. CASE Confirm(o)
  BY <1>3 DEF Confirm
<1>4. CASE CancelTaken(o) \/ DropRef(o)
  BY <1>4 DEF CancelTaken, DropRef
<1>5. CASE GiveBack(o)
  <2>1. PICK p \in held[o] : held' = [held EXCEPT ![o] = @ \ {p}] /\ cur' = [cur EXCEPT ![o] = p]
    BY <1>5 DEF GiveBack
  <2>2. \A q \in held[o] : q[1] = p[1] => q = p
    BY <2>1 DEF LiveGateRegistered, Uses
  <2> QED
    BY <1>5, <2>1, <2>2 DEF GiveBack
<1> QED
  BY <1>1, <1>2, <1>3, <1>4, <1>5 DEF Step

-----------------------------------------------------------------------------
(* Registration and reference counts.                                       *)

Registered == OneKeyPerGate /\ LiveGateRegistered /\ RefsExact

LEMMA QuietRegistered ==
  ASSUME GatesInv, NEW o \in Ops, Quiet(o)
  PROVE  Registered'
<1>1. UNCHANGED <<gate, refs>> /\ \A x \in Ops : Uses(x)' = Uses(x)
  BY QuietUses
<1>2. \A g \in Heap : UsersOf(g)' = UsersOf(g)
  BY <1>1 DEF UsersOf
<1>3. OneKeyPerGate'
  BY <1>1 DEF GatesInv, OneKeyPerGate
<1>4. LiveGateRegistered'
  BY <1>1 DEF GatesInv, LiveGateRegistered
<1>5. RefsExact'
  BY <1>1, <1>2 DEF GatesInv, RefsExact
<1> QED
  BY <1>3, <1>4, <1>5 DEF Registered

LEMMA LookupRegistered ==
  ASSUME GatesInv, NEW o \in Ops, Lookup(o)
  PROVE  Registered'
<1>1. PICK k \in plan[o], g \in Heap :
        /\ IF gate[k] # None THEN g = gate[k] ELSE IsFree(g)
        /\ gate' = [gate EXCEPT ![k] = g]
        /\ refs' = [refs EXCEPT ![g] = @ + 1]
        /\ cur' = [cur EXCEPT ![o] = <<k, g>>]
  BY DEF Lookup, NextKeys, AddRef
<1>2. k \in Keys /\ k \notin HeldKeys(o)
  BY DEF GatesInv, TypeOK, Fresh
<1>3. Uses(o)' = Uses(o) \cup {<<k, g>>} /\ Uses(o) = held[o]
  BY <1>1 DEF Lookup, Uses, GatesInv, TypeOK
<1>4. \A x \in Ops : x # o => Uses(x)' = Uses(x)
  BY <1>1 DEF Lookup, Uses, GatesInv, TypeOK
<1>5. \A j \in Keys : gate[j] = g => j = k
  BY <1>1, <1>2, NoneAssumption DEF GatesInv, OneKeyPerGate, IsFree
<1>6. o \notin UsersOf(g)
  BY <1>2, <1>3, <1>5, UsesPairs DEF UsersOf, GatesInv, LiveGateRegistered
<1>7. \A h \in Heap : UsersOf(h)' = IF h = g THEN UsersOf(h) \cup {o} ELSE UsersOf(h)
  <2>1. \A x \in Ops, h \in Heap : x # o => (x \in UsersOf(h)' <=> x \in UsersOf(h))
    BY <1>4 DEF UsersOf
  <2>2. \A h \in Heap : h # g => (o \in UsersOf(h)' <=> o \in UsersOf(h))
    BY <1>3 DEF UsersOf
  <2>3. o \in UsersOf(g)'
    <3>1. <<k, g>> \in Uses(o)' /\ <<k, g>>[2] = g
      BY <1>3
    <3> QED
      BY <3>1 DEF UsersOf
  <2>4. \A h \in Heap : UsersOf(h) \subseteq Ops /\ UsersOf(h)' \subseteq Ops
    BY DEF UsersOf
  <2> QED
    BY <2>1, <2>2, <2>3, <2>4
<1>8. OneKeyPerGate'
  BY <1>1, <1>2, <1>5 DEF GatesInv, TypeOK, OneKeyPerGate
<1>9. LiveGateRegistered'
  <2> SUFFICES ASSUME NEW x \in Ops, NEW p \in Uses(x)' PROVE gate'[p[1]] = p[2]
    BY DEF LiveGateRegistered
  <2>1. CASE p \in Uses(x)
    <3>1. p[1] \in Keys /\ p[2] \in Heap /\ gate[p[1]] = p[2]
      BY <2>1, UsesPairs DEF GatesInv, LiveGateRegistered
    <3> QED
      BY <3>1, <1>1, <1>2, NoneAssumption DEF GatesInv, TypeOK
  <2>2. CASE p = <<k, g>>
    BY <2>2, <1>1, <1>2 DEF GatesInv, TypeOK
  <2> QED
    BY <2>1, <2>2, <1>3, <1>4
<1>10. RefsExact'
  <2>1. \A h \in Heap : IsFiniteSet(UsersOf(h)') /\ refs'[h] = Cardinality(UsersOf(h)')
    <3> SUFFICES ASSUME NEW h \in Heap
                 PROVE  IsFiniteSet(UsersOf(h)') /\ refs'[h] = Cardinality(UsersOf(h)')
      OBVIOUS
    <3>1. IsFiniteSet(UsersOf(h)) /\ refs[h] = Cardinality(UsersOf(h))
      BY DEF GatesInv, RefsExact
    <3>2. CASE h = g
      <4>1. UsersOf(h)' = UsersOf(h) \cup {o} /\ o \notin UsersOf(h)
        BY <3>2, <1>6, <1>7
      <4>2. refs'[h] = refs[h] + 1
        BY <3>2, <1>1 DEF GatesInv, TypeOK
      <4> QED
        BY <4>1, <4>2, <3>1, FS_AddElement
    <3>3. CASE h # g
      BY <3>1, <3>3, <1>1, <1>7 DEF GatesInv, TypeOK
    <3> QED
      BY <3>2, <3>3
  <2>2. \A j \in Keys : gate'[j] # None => refs'[gate'[j]] > 0
    BY <1>1, <1>2 DEF GatesInv, TypeOK, RefsExact
  <2> QED
    BY <2>1, <2>2 DEF RefsExact
<1> QED
  BY <1>8, <1>9, <1>10 DEF Registered

LEMMA DropRefRegistered ==
  ASSUME GatesInv, NEW o \in Ops, DropRef(o)
  PROVE  Registered'
<1>1. PICK k \in Keys, g \in Heap : cur[o] = <<k, g>> /\ k \notin HeldKeys(o)
  BY DEF DropRef, GatesInv, Fresh
<1>2. gate[k] = g
  BY <1>1 DEF DropRef, GatesInv, LiveGateRegistered, Uses
<1>3. /\ refs' = [refs EXCEPT ![g] = @ - 1]
      /\ gate' = IF refs[g] = 1 THEN [gate EXCEPT ![k] = None] ELSE gate
  BY <1>1, <1>2 DEF DropRef, LastReference
<1>4. Uses(o)' = held[o] /\ Uses(o) = held[o] \cup {<<k, g>>}
  BY <1>1 DEF DropRef, Uses, GatesInv, TypeOK
<1>5. \A x \in Ops : x # o => Uses(x)' = Uses(x)
  BY DEF DropRef, Uses, GatesInv, TypeOK
<1>6. \A x \in Ops : \A p \in Uses(x) : p[2] = g => p[1] = k
  BY <1>1, <1>2, UsesPairs, NoneAssumption DEF GatesInv, LiveGateRegistered, OneKeyPerGate
<1>7. \A p \in held[o] : p[2] # g
  BY <1>1, <1>4, <1>6
<1>8. \A h \in Heap : UsersOf(h)' = IF h = g THEN UsersOf(h) \ {o} ELSE UsersOf(h)
  BY <1>4, <1>5, <1>7 DEF UsersOf
<1>9. o \in UsersOf(g)
  <2>1. <<k, g>> \in Uses(o) /\ <<k, g>>[2] = g
    BY <1>4
  <2> QED
    BY <2>1 DEF UsersOf
<1>10. OneKeyPerGate'
  BY <1>1, <1>3 DEF GatesInv, TypeOK, OneKeyPerGate
<1>11. LiveGateRegistered'
  <2> SUFFICES ASSUME NEW x \in Ops, NEW p \in Uses(x)' PROVE gate'[p[1]] = p[2]
    BY DEF LiveGateRegistered
  <2>1. p \in Uses(x) /\ p[1] \in Keys /\ p[2] \in Heap /\ gate[p[1]] = p[2]
    BY <1>4, <1>5, UsesPairs DEF GatesInv, LiveGateRegistered
  <2>2. CASE p[1] = k
    <3>1. p[2] = g /\ x # o
      BY <1>1, <1>2, <1>4, <2>1, <2>2
    <3>2. {o, x} \subseteq UsersOf(g)
      BY <1>9, <2>1, <3>1 DEF UsersOf
    <3>3. refs[g] # 1
      <4>1. IsFiniteSet(UsersOf(g)) /\ refs[g] = Cardinality(UsersOf(g))
        BY DEF GatesInv, RefsExact
      <4>2. IsFiniteSet(UsersOf(g) \ {o}) /\ Cardinality(UsersOf(g) \ {o}) = refs[g] - 1
        BY <1>9, <4>1, FS_RemoveElement
      <4>3. UsersOf(g) \ {o} # {}
        BY <3>1, <3>2
      <4>4. Cardinality(UsersOf(g) \ {o}) # 0
        BY <4>2, <4>3, FS_EmptySet
      <4> QED
        BY <4>2, <4>4 DEF GatesInv, TypeOK
    <3> QED
      BY <1>3, <3>3, <2>1
  <2>3. CASE p[1] # k
    BY <1>3, <2>1, <2>3 DEF GatesInv, TypeOK
  <2> QED
    BY <2>2, <2>3
<1>12. RefsExact'
  <2>1. \A h \in Heap : IsFiniteSet(UsersOf(h)') /\ refs'[h] = Cardinality(UsersOf(h)')
    <3> SUFFICES ASSUME NEW h \in Heap
                 PROVE  IsFiniteSet(UsersOf(h)') /\ refs'[h] = Cardinality(UsersOf(h)')
      OBVIOUS
    <3>1. IsFiniteSet(UsersOf(h)) /\ refs[h] = Cardinality(UsersOf(h))
      BY DEF GatesInv, RefsExact
    <3>2. CASE h = g
      <4>1. UsersOf(h)' = UsersOf(h) \ {o} /\ o \in UsersOf(h)
        BY <3>2, <1>8, <1>9
      <4>2. refs'[h] = refs[h] - 1
        BY <3>2, <1>3 DEF GatesInv, TypeOK
      <4> QED
        BY <4>1, <4>2, <3>1, FS_RemoveElement
    <3>3. CASE h # g
      BY <3>1, <3>3, <1>3, <1>8 DEF GatesInv, TypeOK
    <3> QED
      BY <3>2, <3>3
  <2>2. \A j \in Keys : gate'[j] # None => refs'[gate'[j]] > 0
    <3> SUFFICES ASSUME NEW j \in Keys, gate'[j] # None PROVE refs'[gate'[j]] > 0
      OBVIOUS
    <3>1. gate[j] = gate'[j] /\ gate[j] \in Heap /\ refs[gate[j]] > 0
      BY <1>3 DEF GatesInv, TypeOK, RefsExact
    <3>2. gate[j] = g => refs[g] # 1
      BY <1>1, <1>2, <1>3, <3>1 DEF GatesInv, TypeOK, OneKeyPerGate
    <3> QED
      BY <1>3, <3>1, <3>2 DEF GatesInv, TypeOK
  <2> QED
    BY <2>1, <2>2 DEF RefsExact
<1> QED
  BY <1>10, <1>11, <1>12 DEF Registered

-----------------------------------------------------------------------------
(* The token.                                                               *)

\* A gate nobody refers to has no owner.
LEMMA FreeUnowned ==
  ASSUME GatesInv, NEW g \in Heap, refs[g] = 0, NEW x \in Ops, NEW p \in Owned(x)
  PROVE  p[2] # g
<1>1. UsersOf(g) = {}
  BY FS_EmptySet DEF GatesInv, RefsExact
<1>2. p \in Uses(x)
  BY DEF Owned, Uses
<1> QED
  BY <1>1, <1>2 DEF UsersOf

LEMMA OwnedPairs ==
  ASSUME GatesInv, NEW o \in Ops, NEW p \in Owned(o)
  PROVE  p \in Pairs
BY DEF GatesInv, TypeOK, Fresh, Owned

LEMMA TokenStep ==
  ASSUME GatesInv, NEW o \in Ops, Step(o)
  PROVE  OneToken'
<1>1. ASSUME \A x \in Ops : Owned(x)' \subseteq Owned(x), ready' = ready
      PROVE  OneToken'
  BY <1>1 DEF GatesInv, OneToken
<1>2. CASE Start(o) \/ Enter(o) \/ CancelWait(o) \/ Leave(o) \/ End(o) \/ DropRef(o) \/ Confirm(o)
  BY <1>1, <1>2
  DEF Start, Enter, CancelWait, Leave, End, DropRef, Confirm, Owned, GatesInv, TypeOK
<1>3. CASE Lookup(o)
  <2>1. PICK g \in Heap : ready' = ready \/ (ready' = ready \cup {g} /\ refs[g] = 0)
    BY <1>3 DEF Lookup, IsFree
  <2>2. \A x \in Ops : Owned(x)' = Owned(x)
    BY <1>3 DEF Lookup, Owned, GatesInv, TypeOK
  <2> QED
    BY <2>1, <2>2, FreeUnowned DEF GatesInv, OneToken
<1>4. CASE Take(o)
  <2>1. Owned(o)' = Owned(o) \cup {cur[o]} /\ cur[o][2] \in ready
    BY <1>4 DEF Take, Owned, GatesInv, TypeOK
  <2>2. \A x \in Ops : x # o => Owned(x)' = Owned(x)
    BY <1>4 DEF Take, Owned, GatesInv, TypeOK
  <2>3. \A x \in Ops : \A p \in Owned(x) : p[2] # cur[o][2]
    BY <2>1 DEF GatesInv, OneToken
  <2> QED
    BY <1>4, <2>1, <2>2, <2>3 DEF Take, GatesInv, OneToken
<1>5. ASSUME NEW p \in Owned(o), ready' = ready \cup {p[2]},
             \A x \in Ops : Owned(x)' \subseteq Owned(x),
             \A q \in Owned(o)' : q[2] # p[2]
      PROVE  OneToken'
  BY <1>5 DEF GatesInv, OneToken
<1>6. CASE CancelTaken(o)
  <2>1. Owned(o)' = held[o] /\ cur[o] \in Owned(o) /\ ready' = ready \cup {cur[o][2]}
    BY <1>6 DEF CancelTaken, ReturnToken, Owned, GatesInv, TypeOK
  <2>2. \A x \in Ops : Owned(x)' \subseteq Owned(x)
    BY <1>6 DEF CancelTaken, Owned, GatesInv, TypeOK
  <2>3. \A q \in held[o] : q[2] # cur[o][2]
    <3> SUFFICES ASSUME NEW q \in held[o], q[2] = cur[o][2] PROVE FALSE
      OBVIOUS
    <3>1. q \in Uses(o) /\ cur[o] \in Uses(o) /\ cur[o][1] \notin HeldKeys(o)
      BY <1>6 DEF CancelTaken, Uses, GatesInv, Fresh
    <3>2. q \in Pairs /\ cur[o] \in Pairs
      BY <3>1, UsesPairs
    <3>3. gate[q[1]] = q[2] /\ gate[cur[o][1]] = cur[o][2]
      BY <3>1 DEF GatesInv, LiveGateRegistered
    <3> QED
      BY <3>1, <3>2, <3>3, NoneAssumption DEF GatesInv, OneKeyPerGate
  <2> QED
    BY <2>1, <2>2, <2>3, <1>5
<1>7. CASE GiveBack(o)
  <2>1. PICK p \in held[o] :
          ready' = ready \cup {p[2]} /\ held' = [held EXCEPT ![o] = @ \ {p}]
    BY <1>7 DEF GiveBack
  <2>2. p \in Owned(o) /\ Owned(o)' = held[o] \ {p}
    BY <1>7, <2>1 DEF GiveBack, Owned, GatesInv, TypeOK
  <2>3. \A x \in Ops : Owned(x)' \subseteq Owned(x)
    BY <1>7, <2>1 DEF GiveBack, Owned, GatesInv, TypeOK
  <2>4. \A q \in held[o] : q[2] = p[2] => q = p
    <3> SUFFICES ASSUME NEW q \in held[o], q[2] = p[2] PROVE q = p
      OBVIOUS
    <3>1. q \in Uses(o) /\ p \in Uses(o)
      BY DEF Uses
    <3>2. q \in Pairs /\ p \in Pairs
      BY <3>1, UsesPairs
    <3>3. gate[q[1]] = q[2] /\ gate[p[1]] = p[2]
      BY <3>1 DEF GatesInv, LiveGateRegistered
    <3> QED
      BY <3>2, <3>3, NoneAssumption DEF GatesInv, OneKeyPerGate
  <2> QED
    BY <2>1, <2>2, <2>3, <2>4, <1>5
<1> QED
  BY <1>2, <1>3, <1>4, <1>6, <1>7 DEF Step

-----------------------------------------------------------------------------
LEMMA InvStep == GatesInv /\ [Next]_vars => GatesInv'
<1> SUFFICES ASSUME GatesInv, [Next]_vars PROVE GatesInv'
  OBVIOUS
<1>1. CASE UNCHANGED vars
  <2>1. \A o \in Ops : Uses(o)' = Uses(o) /\ Owned(o)' = Owned(o)
    BY <1>1 DEF vars, Uses, Owned
  <2>2. \A g \in Heap : UsersOf(g)' = UsersOf(g)
    BY <2>1 DEF UsersOf
  <2>3. TypeOK' /\ Fresh' /\ OneKeyPerGate'
    BY <1>1 DEF vars, GatesInv, TypeOK, Fresh, OneKeyPerGate
  <2>4. LiveGateRegistered' /\ RefsExact' /\ OneToken'
    BY <1>1, <2>1, <2>2 DEF vars, GatesInv, LiveGateRegistered, RefsExact, OneToken
  <2> QED
    BY <2>3, <2>4 DEF GatesInv
<1>2. ASSUME NEW o \in Ops, Step(o)
      PROVE  GatesInv'
  <2>1. Registered'
    BY <1>2, QuietRegistered, LookupRegistered, DropRefRegistered DEF Step, Quiet
  <2> QED
    BY <1>2, <2>1, TypeStep, FreshStep, TokenStep DEF Registered, GatesInv
<1> QED
  BY <1>1, <1>2 DEF Next

THEOREM GatesInvariant == Spec => []GatesInv
BY InitInv, InvStep, PTL DEF Spec

\* The variables keep their types: a reference count never falls below zero.
THEOREM Typing == Spec => []TypeOK
<1>1. GatesInv => TypeOK
  BY DEF GatesInv
<1> QED
  BY <1>1, GatesInvariant, PTL

\* No two mutations own the gate of one inbound or group
\* (acquireMutationGate, acquireInboundMutationGate).
LEMMA OneOwner == GatesInv => MutualExclusion
<1> SUFFICES ASSUME GatesInv, NEW o \in Ops, NEW x \in Ops, o # x,
                    NEW p \in held[o], NEW q \in held[x], p[1] = q[1]
             PROVE  FALSE
  BY DEF MutualExclusion
<1>1. p \in Owned(o) /\ q \in Owned(x) /\ p \in Uses(o) /\ q \in Uses(x)
  BY DEF Owned, Uses
<1>2. p[2] = q[2]
  BY <1>1 DEF GatesInv, LiveGateRegistered
<1> QED
  BY <1>1, <1>2 DEF GatesInv, OneToken

THEOREM Exclusion == Spec => []MutualExclusion
BY OneOwner, GatesInvariant, PTL

\* The gate an operation refers to is the one a later caller finds.
THEOREM Registration == Spec => []LiveGateRegistered
<1>1. GatesInv => LiveGateRegistered
  BY DEF GatesInv
<1> QED
  BY <1>1, GatesInvariant, PTL

\* Reference counts are exact, and no gate outlives its last reference.
THEOREM Counting == Spec => []RefsAreUsers
<1>1. GatesInv => RefsAreUsers
  BY DEF GatesInv, RefsExact, RefsAreUsers
<1> QED
  BY <1>1, GatesInvariant, PTL

-----------------------------------------------------------------------------
(* The gates implement one lock per key.                                    *)

LEMMA StepIsLock ==
  ASSUME GatesInv, GatesInv', [Next]_vars
  PROVE  [Lock!Next]_Ownership
<1>1. ASSUME UNCHANGED held
      PROVE  UNCHANGED Ownership
  BY <1>1 DEF Ownership
<1>2. CASE UNCHANGED vars
  BY <1>1, <1>2 DEF vars
<1>3. ASSUME NEW o \in Ops, Step(o), ~Confirm(o), ~GiveBack(o)
      PROVE  UNCHANGED Ownership
  BY <1>1, <1>3
  DEF Step, Start, Lookup, Take, Enter, CancelWait, CancelTaken, Leave, DropRef, End
<1>4. ASSUME NEW o \in Ops, Confirm(o)
      PROVE  Lock!Next
  <2>1. PICK k \in Keys, g \in Heap : cur[o] = <<k, g>> /\ k \notin HeldKeys(o)
    BY <1>4 DEF Confirm, GatesInv, Fresh
  <2>2. HeldKeys(o)' = HeldKeys(o) \cup {k} /\ \A x \in Ops : x # o => HeldKeys(x)' = HeldKeys(x)
    <3>1. held'[o] = held[o] \cup {<<k, g>>} /\ \A x \in Ops : x # o => held'[x] = held[x]
      BY <1>4, <2>1 DEF Confirm, GatesInv, TypeOK
    <3>2. <<k, g>>[1] = k
      OBVIOUS
    <3>3. \A j : j \in HeldKeys(o)' <=> j \in HeldKeys(o) \cup {k}
      BY <3>1, <3>2
    <3> QED
      BY <3>1, <3>3
  <2>3. \A x \in Ops : x # o => k \notin HeldKeys(x)
    <3> SUFFICES ASSUME NEW x \in Ops, NEW q \in held[x], q[1] = k PROVE x = o
      OBVIOUS
    <3>1. cur[o] \in Owned(o) /\ cur[o] \in Uses(o) /\ q \in Owned(x) /\ q \in Uses(x)
      BY <1>4 DEF Confirm, Owned, Uses
    <3>2. q[2] = cur[o][2]
      BY <2>1, <3>1 DEF GatesInv, LiveGateRegistered
    <3> QED
      BY <3>1, <3>2 DEF GatesInv, OneToken
  <2>4. \A x \in Ops : <<x, k>> \notin Ownership
    BY <2>1, <2>3 DEF Ownership
  <2>5. Ownership' = Ownership \cup {<<o, k>>}
    <3>1. \A x \in Ops, j \in Keys :
            j \in HeldKeys(x)' <=> j \in HeldKeys(x) \/ (x = o /\ j = k)
      BY <2>2
    <3>2. \A y \in Ops \X Keys : y \in Ownership' <=> y \in Ownership \cup {<<o, k>>}
      BY <3>1 DEF Ownership
    <3> QED
      BY <3>2 DEF Ownership
  <2> QED
    BY <2>4, <2>5 DEF Lock!Next, Lock!Acquire
<1>5. ASSUME NEW o \in Ops, GiveBack(o)
      PROVE  Lock!Next
  <2>1. PICK p \in held[o] : held' = [held EXCEPT ![o] = @ \ {p}]
    BY <1>5 DEF GiveBack
  <2>2. PICK k \in Keys : k = p[1]
    BY <2>1 DEF GatesInv, TypeOK
  <2>3. p \in Pairs /\ \A q \in held[o] : q[1] = k => q = p
    BY <2>2 DEF GatesInv, TypeOK, LiveGateRegistered, Uses
  <2>4. HeldKeys(o)' = HeldKeys(o) \ {k} /\ \A x \in Ops : x # o => HeldKeys(x)' = HeldKeys(x)
    BY <2>1, <2>2, <2>3 DEF GatesInv, TypeOK
  <2>5. <<o, k>> \in Ownership /\ Ownership' = Ownership \ {<<o, k>>}
    BY <2>2, <2>4 DEF Ownership
  <2> QED
    BY <2>5 DEF Lock!Next, Lock!Release
<1> QED
  BY <1>2, <1>3, <1>4, <1>5 DEF Next

\* MutationGates implements Gates: creating, deleting and recreating gate
\* objects is invisible to the mutations they serialize.
THEOREM GatesImplementLocks == Spec => ImplementsGates
<1>1. Init => Lock!Init
  BY DEF Init, Lock!Init, Ownership
<1>2. GatesInv /\ GatesInv' /\ [Next]_vars => [Lock!Next]_Ownership
  BY StepIsLock
<1> QED
  BY <1>1, <1>2, GatesInvariant, PTL DEF Spec, ImplementsGates, Lock!Spec

=============================================================================
